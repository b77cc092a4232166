------------------------------ MODULE RestGate ------------------------------
(***************************************************************************)
(* The gates of the drivers that speak to an API: Wazuh (endpoints, with   *)
(* agents that must not be touched), LibreNMS, GNS3, Proxmox Backup Server *)
(* and Zammad (typed operations with one legal encoding each), and the     *)
(* mock driver.                                                            *)
(***************************************************************************)
EXTENDS Naturals, Sequences, Functions, RouteTables

CONSTANTS Agents,    \* Wazuh agent numbers that occur in requests
          Stores,    \* PBS datastores of the device's allow list
          MaxBody    \* ZM_BODY_MAX, in characters

-----------------------------------------------------------------------------
(* Wazuh.  A request has a method, path segments and query pairs; a segment
   or value carries how many times it is percent-encoded. *)

WZ_ROUTE_TABLE ==
    {<<"agents">>, <<"agents", "summary", "status">>, <<"manager", "stats", "analysisd">>,
     <<"manager", "status">>, <<"manager", "info">>, <<"manager", "stats">>,
     <<"manager", "stats", "remoted">>, <<"manager", "logs", "summary">>, <<"agents", "summary", "os">>,
     <<"rules">>, <<"rules", "groups">>, <<"decoders">>}

(* "004" and "4" are one agent. *)
wz_parse_u32(w) == {n \in Agents : w \in {ToString(n), "00" \o ToString(n)}}

(* What the scan can read of a piece of text on its k-th pass. *)
Readable(piece, k) == IF piece.enc <= k THEN piece.w ELSE "%"

wz_path_names_protected_agent(r, agents, k) ==
    \E i \in DOMAIN r.path : wz_parse_u32(Readable(r.path[i], k)) \cap agents # {}

(* Keys that contain "agent"; a value that contains "all" names every agent. *)
wz_query_names_protected_agent(r, agents, k) ==
    \E i \in DOMAIN r.query :
        /\ r.query[i].key \in {"agents_list", "agent_id"}
        /\ \E j \in DOMAIN r.query[i].values :
              LET w == Readable(r.query[i].values[j], k)
              IN  w = "all" \/ wz_parse_u32(w) \cap agents # {}

(* Compared without regard to case. *)
HasPart(r, word, k) == \E i \in DOMAIN r.path : Readable(r.path[i], k) = word

wz_scan_black(r, agents, k) ==
    \/ HasPart(r, "configuration", k)
    \/ HasPart(r, "active-response", k)
    \/ r.method = "DELETE" /\ HasPart(r, "agents", k)
    \/ wz_path_names_protected_agent(r, agents, k)
    \/ wz_query_names_protected_agent(r, agents, k)

(* The bytes as given, then once more percent-decoded if that changes them; a
   request too long to decode is refused. *)
wz_is_black_endpoint(r, agents) ==
    r.slash /\ (wz_scan_black(r, agents, 0) \/ wz_scan_black(r, agents, 1) \/ r.long)

wz_route_endpoint(r) ==
    IF [i \in DOMAIN r.path |-> Readable(r.path[i], 0)] \in WZ_ROUTE_TABLE THEN "GREEN" ELSE "RED"

wazuh_gate_tier(r, agents) ==
    IF wz_is_black_endpoint(r, agents) THEN "BLACK"
    ELSE IF r.method \in {"", "GET"} /\ r.slash THEN wz_route_endpoint(r) ELSE "RED"

-----------------------------------------------------------------------------
(* LibreNMS: the same kind of request, no agents. *)

ln_route_path(r) ==
    LET p == [i \in DOMAIN r.path |-> Readable(r.path[i], 0)] IN
    IF \/ p \in {<<"api", "v0", "devices">>, <<"api", "v0", "alerts">>}
       \/ Len(p) = 5 /\ SubSeq(p, 1, 3) = <<"api", "v0", "devices">> /\ p[5] = "health"
    THEN "GREEN" ELSE "RED"

librenms_gate_tier(r) == IF r.method \in {"", "GET"} /\ r.slash THEN ln_route_path(r) ELSE "RED"

(* GNS3: one of nine verbs and a lower-case uuid, or "lab health". *)
GNS3_VERBS == <<"status", "create", "delete", "start", "stop", "configure", "test", "isolate", "repair">>

gns3_operation(c) ==
    IF c.verb = "health" /\ c.uuid = "none" THEN 1
    ELSE IF c.uuid = "good" /\ c.verb \in Range(GNS3_VERBS)
         THEN 1 + CHOOSE i \in DOMAIN GNS3_VERBS : GNS3_VERBS[i] = c.verb ELSE 0

gns3_gate_tier(c) ==
    LET op == gns3_operation(c) IN
    CASE op \in {1, 2, 8} -> "GREEN" [] op \in (3..10) \ {8} -> "YELLOW" [] OTHER -> "RED"

mock_route_command(c) ==
    CASE c.caps -> "UNCLASSIFIED"
      [] ~c.caps /\ StartsWith(c.text, "selfdestruct") -> "BLACK"
      [] ~c.caps /\ (c.text = "show" \/ \E p \in {"show ", "get "} : StartsWith(c.text, p)) -> "GREEN"
      [] ~c.caps /\ \E p \in {"configure", "clear ", "write", "copy "} : StartsWith(c.text, p) -> "YELLOW"
      [] ~c.caps /\ \E p \in {"reload", "erase "} : StartsWith(c.text, p) -> "RED"
      [] OTHER -> "UNCLASSIFIED"

-----------------------------------------------------------------------------
(* PBS.  "pbs op=<id> key=value ...": clean says that prefix, length, blanks
   and control bytes are as the grammar wants them. *)

PBS_OPS ==
    [op \in {"backup.version.read", "backup.datastore.usage", "backup.verify.tasks",
             "backup.snapshots.list"} |-> IF op = "backup.snapshots.list" THEN {"store"} ELSE {}]

(* strcmp() order of the keys that occur; the first key must follow "op". *)
KeyOrder == <<"namespace", "op", "store", "type">>
KeyRank(k) == CHOOSE i \in DOMAIN KeyOrder : KeyOrder[i] = k

(* Value bytes, at least one of them, and never a dot segment. *)
pbs_value_ok(v) == v \notin {"", ".", "..", "a/b"}

(* Fault: a key may come again. *)
Ascending_Repeats(params) ==
    \A i \in DOMAIN params :
        KeyRank(params[i][1]) >= IF i = 1 THEN KeyRank("op") ELSE KeyRank(params[i - 1][1])

Ascending(params) ==
    \A i \in DOMAIN params :
        KeyRank(params[i][1]) > IF i = 1 THEN KeyRank("op") ELSE KeyRank(params[i - 1][1])

pbs_parse_command(c) ==
    /\ c.clean
    /\ c.op \in DOMAIN PBS_OPS
    /\ Ascending(c.params)
    /\ \A i \in DOMAIN c.params : c.params[i][1] \in PBS_OPS[c.op] /\ pbs_value_ok(c.params[i][2])
    /\ \A k \in PBS_OPS[c.op] : \E i \in DOMAIN c.params : c.params[i][1] = k

(* The first parameter of that name. *)
pbs_param_value(c, k) == c.params[CHOOSE i \in DOMAIN c.params :
    c.params[i][1] = k /\ \A j \in DOMAIN c.params : c.params[j][1] = k => i <= j][2]

(* The request line, or none when the datastore is not on the allow list. *)
pbs_build_path(c) ==
    IF PBS_OPS[c.op] = {} THEN <<c.op>>
    ELSE IF pbs_param_value(c, "store") \in Stores THEN <<c.op, pbs_param_value(c, "store")>> ELSE <<>>

pbs_gate_classify(c) == IF pbs_parse_command(c) THEN "GREEN" ELSE "RED"

-----------------------------------------------------------------------------
(* Zammad.  A read is a GET path; a write is "zammad op= id= body=", its body
   a sequence of characters, each literal or escaped with upper- or lower-case
   hex digits. *)

ZmNumber == {"7", "0"}    \* canonical; "07" and "x" are not

zm_query_ok(q) ==
    /\ \A i \in DOMAIN q : q[i][1] \in {"page", "per_page"} /\ q[i][2] \in ZmNumber
    /\ \A i, j \in DOMAIN q : q[i][1] = q[j][1] => i = j

zm_route_path(r) ==
    IF /\ r.query # <<>> => zm_query_ok(r.query)
       /\ \/ r.base \in {"tickets", "ticket_states", "groups"} /\ r.id = ""
          \/ r.base \in {"tickets", "ticket_articles/by_ticket"} /\ r.id \in ZmNumber
    THEN "GREEN" ELSE "RED"

zm_must_escape(ch) == ch \in {";", "|", "&", "backquote", "$", "%"}

zm_is_body_char(ch) == ch \notin {"<", ">", "quote", "backslash", "control"}

zm_decode_unit(u) ==
    /\ u.form = (IF zm_must_escape(u.ch) THEN "upper" ELSE "literal")
    /\ zm_is_body_char(u.ch)

zm_decode_body(units) == \A i \in DOMAIN units : zm_decode_unit(units[i])

zm_parse_command(c) ==
    /\ c.clean
    /\ c.op = "ticket.article.create"
    /\ c.id \in ZmNumber
    /\ c.body # <<>> /\ Len(c.body) <= MaxBody /\ zm_decode_body(c.body)

(* What the ticket will hold: zm_build_article_json(). *)
zm_article(c) == [id |-> c.id, body |-> [i \in DOMAIN c.body |-> c.body[i].ch]]

zammad_gate_classify(c) ==
    IF c.write THEN IF zm_parse_command(c) THEN "YELLOW" ELSE "RED" ELSE zm_route_path(c)

(* write_ops_allow of the device names the operation. *)
zm_device_allows_op(allow, c) == c.op \in allow
=============================================================================
