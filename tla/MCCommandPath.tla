---------------------------- MODULE MCCommandPath ----------------------------
(***************************************************************************)
(* The instance that TLC checks: every row of every route table with an    *)
(* argument, a longer word, blanks before it, a capital and a separator;   *)
(* Linux lines with one token quoted each way; REST requests, typed        *)
(* operations, and replies of one or two lines.                            *)
(***************************************************************************)
EXTENDS CommandPath

Cmd(text) == [text |-> text, lead |-> FALSE, caps |-> FALSE, sep |-> FALSE]
Spelled(text) ==
    {Cmd(text), Cmd(text \o "x"), Cmd(text \o " x"),
     [Cmd(text) EXCEPT !.lead = TRUE], [Cmd(text) EXCEPT !.caps = TRUE], [Cmd(text \o " x") EXCEPT !.sep = TRUE]}
AllSpelled(texts) == UNION {Spelled(t) : t \in texts}
Patterns(table) == {r[1] : r \in table}

PortLines ==
    {"interface GigabitEthernet0/1 " \o l : l \in
        {"description uplink", "no description", "switchport access vlan 4094", "switchport access vlan 4095",
         "switchport port-security maximum 1024", "shutdown", "spanning-tree portfast"}}

-----------------------------------------------------------------------------
Tok(w) == [parts |-> <<w>>, by |-> "", form |-> "bare"]
By(ch, parts) == [parts |-> parts, by |-> ch, form |-> "bare"]
Line(seg) == [segs |-> <<seg>>, meta |-> FALSE]

Forms == {"bare", "whole", "inner", "open"}
Quoted(seg) == {[seg EXCEPT ![i].form = f] : i \in DOMAIN seg, f \in Forms}

Guests == {"101", "0313", "0000000313", "vm:313"}

ProxLines ==
    {<<Tok(tool), Tok(verb), Tok(id)>> : tool \in {"qm", "pct"}, verb \in {"status", "start", "destroy"}, id \in Guests \cup {"313"}}
    \cup {<<Tok("qm"), Tok("clone"), Tok("101"), Tok(id)>> : id \in Guests}
    \cup {<<Tok("qm"), Tok("guest"), Tok("exec"), Tok(id)>> : id \in Guests}
    \cup {<<Tok("qm"), Tok("list")>>, <<Tok("pct"), Tok("exec"), Tok("101"), Tok("it's")>>,
          <<Tok("pveversion")>>, <<Tok("pvecm"), Tok("status")>>, <<Tok("pvesm"), Tok("remove"), Tok("local")>>,
          <<Tok("pvesm"), Tok("list"), Tok("local")>>}
    \cup {<<Tok("pvesh"), Tok(verb), By("/", <<"nodes", "pve", "qemu", id>>)>> :
            verb \in {"get", "set", "delete"}, id \in {"101", "313", "x"}}
    \cup {<<Tok("pvesh"), Tok("set"), By("/", <<"cluster", "ha", "resources", sid>>)>> : sid \in {"vm:101", "ct:313"}}
    \cup {<<Tok("pvesh"), Tok("set"), By("/", <<"pools", "p">>), Tok("--vms"), By(",", <<"101", id>>)>> : id \in {"102", "313"}}
    \cup {<<Tok("pvesh"), Tok("get"), By("/", <<p, "users">>)>> : p \in {"access", "nodes"}}
    \cup {<<Tok("pvesh"), Tok("set"), By("/", <<"clusters", "x">>), By("=", <<"--vmid", "313">>), Tok("0313")>>}
    \cup {<<Tok("pvesh"), Tok("create"), By("/", <<"nodes", "pve", "execute">>)>>}
    \cup {<<Tok("vzdump"), Tok("--vmid"), By(",", <<"101", id>>)>> : id \in {"102", "313"}}
    \cup {<<Tok("vzdump"), Tok("101"), f>> : f \in {Tok("--delete"), By("=", <<"--prune-backups", "1">>), Tok("--stdout")}}
    \cup {<<Tok("qm"), Tok("list"), Tok("313")>>, <<Tok("qm"), Tok("stop"), Tok("x"), Tok("313")>>,
          <<Tok("qm"), Tok("set"), Tok("101"), By("=", <<"--memory", "313">>)>>,
          <<Tok("qm"), Tok("set"), Tok("101"), By(" ", <<"a", "b">>)>>}
    \cup {[i \in 1..n |-> IF i = 1 THEN Tok("vzdump") ELSE Tok("101")] : n \in {MaxTok, MaxTok + 1}}

VtyshArgs ==
    {<<"show", "ip", "route">>, <<"show", "run">>, <<"show", "startup-config">>, <<"show", "it's">>,
     <<"configure", "terminal">>, <<"clear", "ip", "ospf", "neighbor">>, <<"clear", "ip", "ospf", "process">>,
     <<"ping", "h">>, <<"show", "-c">>, <<"show", "-c", "h">>, <<"write">>}
VtyshLines == {<<Tok("vtysh"), Tok("-c"), [parts |-> a, by |-> " ", form |-> f]>> :
                  a \in VtyshArgs, f \in Forms \cup {"spaced"}}

HarmLines ==
    {<<Tok("reboot")>>, <<By("/", <<"", "sbin", "halt">>)>>, <<Tok("systemctl"), Tok("reboot")>>,
     <<Tok("systemctl"), Tok("stop"), Tok("virp-onode")>>, <<Tok("systemctl"), Tok("restart"), Tok("frr")>>,
     <<Tok("pkill"), Tok("virp-onode")>>, <<By(" ", <<"now", "halt">>)>>, <<By(" ", <<"halt", "now">>)>>,
     <<By("/", <<"systemctl", "x">>), Tok("reboot")>>, <<Tok("systemctl"), By(" ", <<"-f", "kexec">>)>>,
     <<Tok("uptime")>>, <<Tok("hostname")>>, <<Tok("uname"), Tok("-sr")>>, <<Tok("df"), Tok("-h")>>, <<Tok("cat"), Tok("x")>>}

LinuxCommands ==
    {Line(q) : q \in UNION {Quoted(s) : s \in ProxLines \cup HarmLines} \cup VtyshLines}
    \cup {[segs |-> <<a, b>>, meta |-> FALSE] : a \in HarmLines, b \in HarmLines}
    \cup {[Line(s) EXCEPT !.meta = TRUE] : s \in HarmLines}

-----------------------------------------------------------------------------
Piece(w, e) == [w |-> w, enc |-> e]
Get(path, query) == [method |-> "GET", path |-> path, query |-> query, slash |-> TRUE, long |-> FALSE]
Pair(k, values) == [key |-> k, values |-> values]

WazuhPaths ==
    {[i \in DOMAIN p |-> Piece(p[i], 0)] : p \in WZ_ROUTE_TABLE}
    \cup {<<Piece("agents", 0), Piece(a, e)>> : a \in {"4", "004", "7"}, e \in 0..2}
    \cup {<<Piece("manager", 0), Piece("configuration", e)>> : e \in 0..2}
    \cup {<<Piece("active-response", e)>> : e \in 0..1}
WazuhQueries ==
    {<<>>} \cup {<<Pair(k, <<Piece(a, e), Piece("7", 0)>>)>> : k \in {"agents_list", "limit"}, a \in {"004", "all"}, e \in 0..1}

WazuhCommands ==
    {Get(p, q) : p \in WazuhPaths, q \in WazuhQueries}
    \cup {[Get(p, <<>>) EXCEPT !.method = m] : p \in WazuhPaths, m \in {"", "PUT", "DELETE"}}
    \cup {[Get(p, <<>>) EXCEPT !.slash = FALSE] : p \in WazuhPaths}
    \cup {[Get(p, <<>>) EXCEPT !.long = TRUE] : p \in WazuhPaths}

LibreCommands ==
    {Get([i \in DOMAIN p |-> Piece(p[i], 0)], q) :
        p \in {<<"api", "v0", "devices">>, <<"api", "v0", "alerts">>, <<"api", "v0", "devices", "h", "health">>,
               <<"api", "v0", "bills">>},
        q \in {<<>>, <<Pair("limit", <<Piece("1", 0)>>)>>, <<Pair("a", <<>>), Pair("b", <<>>)>>}}

Params == {<<>>} \cup {<<p>> : p \in {"namespace", "store", "type"} \X {"s1", "s2", ".."}}
          \cup {<<p, q>> : p, q \in {"namespace", "store"} \X {"s1"}}
PbsCommands == [op : DOMAIN PBS_OPS \cup {"other"}, params : Params, clean : BOOLEAN]

Unit == [ch : {"a", ";", "%", "quote"}, form : {"literal", "upper", "lower"}]
ZammadCommands ==
    [write : {TRUE}, op : {"ticket.article.create", "ticket.delete"}, id : {"7", "07"}, clean : {TRUE},
     body : UNION {[1..n -> Unit] : n \in 0..2}]
    \cup [write : {FALSE}, base : {"tickets", "ticket_states", "users"}, id : {"", "7", "07"},
          query : {<<>>, <<<<"page", "7">>>>, <<<<"page", "x">>>>, <<<<"page", "7">>, <<"page", "0">>>>}]

GnsCommands == [verb : Range(GNS3_VERBS) \cup {"health", "other"}, uuid : {"good", "bad", "none"}]

MCCommands ==
    [cisco |-> AllSpelled(Patterns(CISCO_GATE_TABLE) \cup CISCO_BLACK_COMMANDS \cup PortLines
                          \cup {"show run", "sh run", "banner", "do show version", "do reload", "do do reload"}),
     asa |-> AllSpelled(Patterns(ASA_ROUTE_TABLE)
                        \cup {"show run", "sh run", "more system:running-config", "reload noconfirm"}),
     juniper |-> AllSpelled(Patterns(JUNOS_ROUTE_TABLE)),
     panos |-> AllSpelled({PA_ROUTE_TABLE[i].pattern : i \in DOMAIN PA_ROUTE_TABLE} \cup PA_BLACK_COMMANDS),
     fortigate |-> AllSpelled(Patterns(FG_ROUTE_TABLE) \cup FG_BLACK_COMMANDS),
     mock |-> AllSpelled({"show", "get x", "configure", "reload", "selfdestruct", "other", "show version", "reboot"}),
     linux |-> LinuxCommands, wazuh |-> WazuhCommands, librenms |-> LibreCommands,
     pbs |-> PbsCommands, zammad |-> ZammadCommands, gns3 |-> GnsCommands]

-----------------------------------------------------------------------------
W(ws) == Words(ws)

SharedLines ==
    {<<"enable", "secret", "5", "S">>, <<"username", "u", "password", "7", "S">>, <<"snmp-server", "community", "S", "RO">>,
     <<"crypto", "isakmp", "key", "S", "address", "H">>, <<"crypto", "isakmp", "key", "6", "S", "address", "H">>,
     <<"key", "7", "S">>, <<"ntp", "authentication-key", "1", "md5", "S">>, <<"password">>}
CiscoLines ==
    {<<"snmp-server", "host", "H", "2c", "S">>, <<"key", "chain", "N">>, <<"key", "10">>, <<"key-string", "7", "S">>,
     <<"tacacs-server", "key", "S">>, <<"server-private", "H", "key", "S">>,
     <<"standby", "1", "authentication", "S">>, <<"ip", "nhrp", "authentication", "S">>}
AsaLines ==
    {<<"failover", "key", "S">>, <<"aaa-server", "G", "host", "H", "S">>, <<"snmp-server", "host", "inside", "H", "S">>,
     <<"passwd", "S", "encrypted">>, <<"ldap-login-password", "S">>, <<"pre-shared-key", "S">>}
LinuxLines ==
    {<<"neighbor", "H", "password", "S">>, <<"ip", "ospf", "message-digest-key", "1", "md5", "S">>,
     <<"key-string", "S">>, <<"hostname", "r1">>}
Begin(ws) == [k |-> "pem", begin |-> TRUE, end |-> FALSE, w |-> ws, open |-> FALSE]
End(ws) == [Begin(ws) EXCEPT !.begin = FALSE, !.end = TRUE]
PlainLines ==
    {W(<<"uptime", "is", "1">>), W(<<"Password:", "S">>), W(<<"api_token", "=", "S">>), W(<<"token=S", "x">>),
     W(<<"db_password:", "S">>), W(<<"crypto", "key", "S">>), W(<<"phash", "S">>),
     Begin(<<>>), Begin(<<"S">>), End(<<"S">>), [Begin(<<"S">>) EXCEPT !.end = TRUE]}

Two(lines) == {<<l>> : l \in lines} \cup {<<l, m>> : l, m \in lines}
PemBlocks == {<<Begin(<<>>), [k |-> "secret"], End(<<>>), l>> : l \in PlainLines}
             \cup {<<l, Begin(<<>>), [k |-> "secret"], [k |-> "secret"]>> : l \in PlainLines}
             \cup {<<l, [Begin(ws) EXCEPT !.open = TRUE]>> : l \in PlainLines, ws \in {<<>>, <<"S">>}}

(* Fits as it is, not with its marks; the last is cut when it is captured. *)
Growing == {[i \in 1..n |-> W(<<"Password:", "S">>)] : n \in 3..6}

Objects == {("status" :> "v"), ("status" :> "v") @@ ("api_token" :> "S"), ("features" :> "v")}
Items == {("hostname" :> "v"), ("hostname" :> "v") @@ ("community" :> "S"), ("sysContact" :> "v") @@ ("authpass" :> "S")}
Json(objects) == [k |-> "json", o |-> objects, whole |-> {}, removed |-> {}]
RestBodies ==
    {<<W(<<"prompt">>), Json(<<e @@ ("devices" :> "v")>> \o items)>> :
        e \in Objects, items \in UNION {[1..n -> Items] : n \in 0..2}}
    \cup {<<W(<<"prompt">>), [Json(<<e @@ ("devices" :> "v"), i, j>>) EXCEPT !.whole = {2}]>> :
            e \in Objects, i, j \in Items}
    \cup {<<W(<<"prompt">>), W(<<"{", "token=S">>)>>, <<>>}

(* What the drivers without a scrub of their own print, one line in a shape that
   virp_scrub.c knows and one in a shape that it does not. *)
ConfigLines ==
    [cisco |-> CiscoLines \cup SharedLines, asa |-> AsaLines \cup SharedLines, linux |-> LinuxLines,
     juniper |-> {<<"secret", "S">>, <<"encrypted-password", "S">>},
     panos |-> {<<"password", "S">>, <<"phash", "S">>},
     fortigate |-> {<<"set", "passwd", "ENC", "S">>, <<"set", "psksecret", "ENC", "S">>}]

MCBodies ==
    [kind \in DOMAIN MCCommands |->
        [config |-> IF kind \in DOMAIN ConfigLines THEN Two({W(l) : l \in ConfigLines[kind]}) ELSE {},
         rest |-> RestBodies,
         text |-> {<<>>, <<W(<<"Password:", "S">>)>>}
                  \cup IF kind = "mock" THEN {<<l>> : l \in PlainLines} \cup PemBlocks \cup Growing ELSE {}]]

-----------------------------------------------------------------------------
List(ids, form) == [ids |-> ids, held |-> ids, form |-> form]
Cut(ids, held) == [ids |-> ids, held |-> held, form |-> "cut"]
Lists(ids) == {List({}, "absent"), List({}, "badtype"), List({}, "badtext"), List({}, "ok"), Cut(ids, {})}
              \cup {List(s, "ok") : s \in SUBSET ids \ {{}}}
Device(kind, list) == [kind |-> kind, fate |-> "loaded", list |-> list]
Fates == {"loaded", "skipped", "failed", "duplicate"}

MCConfigs ==
    {<<Device(kind, List({}, "absent"))>> : kind \in DOMAIN MCCommands \ {"linux", "wazuh"}}
    \cup {<<Device("linux", a), Device("linux", b)>> :
            a \in {List({}, "absent"), List({}, "badtype"), List({313}, "ok"), List({101, 313}, "ok")},
            b \in {List({}, "ok"), List({}, "badtext"), List({102}, "ok"), Cut({102, 313}, {102})}}
    \cup {<<[Device("linux", List({313}, "ok")) EXCEPT !.fate = f], [Device("linux", List({}, "absent")) EXCEPT !.fate = g]>> :
            f, g \in Fates}
    \cup {<<Device("wazuh", a), Device("wazuh", b)>> : a \in Lists({4}), b \in Lists({5, 6})}
=============================================================================
