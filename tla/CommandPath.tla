---------------------------- MODULE CommandPath ----------------------------
(***************************************************************************)
(* One command from the devices file to the signature: the loader puts the *)
(* protected guests and agents in force, virp_onode.c asks the separator   *)
(* policy and the driver's classifier, or the owner policy in its place,   *)
(* the driver sends what is left, and its reply passes the driver's own    *)
(* scrub, the body filter and virp_scrub.c before it is signed.  The gate  *)
(* around the dispatch (intent, approval, chain) is GateApply, the         *)
(* transport Drivers.                                                      *)
(***************************************************************************)
EXTENDS Naturals, Sequences, FiniteSets, RouteTables, LinuxGate, PolicyCatalog, RestGate, Scrub

CONSTANTS Configs,      \* devices files: sequences of DeviceEntry
          Commands,     \* by kind of device
          Bodies,       \* by kind of device and class of reply
          WriteOps,     \* write_ops_allow of the Zammad device
          MaxProtected  \* LINUX_PROTECTED_VMID_MAX, WZ_PROTECTED_AGENT_MAX

(* An entry of the devices file.  It is skipped before its list is put in
   force (no host name, a vendor or credential missing), cannot be added after
   that, or is a duplicate, which refuses the file.  Its list declares ids;
   held are those left of it in the 256 bytes of the device's field.  "ok" is
   an array or a CSV string that parses and fits, "cut" a CSV string that
   json_get_string() cut, "badtype" an array with an entry of the wrong type or
   longer than the field, "badtext" text that is no list of numbers. *)
ListForms == {"absent", "badtype", "badtext", "cut", "ok"}
DeviceEntry ==
    {d \in [kind : STRING, fate : {"loaded", "skipped", "failed", "duplicate"},
            list : [ids : SUBSET Nat, held : SUBSET Nat, form : ListForms]] :
        d.list.form = "ok" => d.list.held = d.list.ids}

CliCommand == [text : STRING, lead : BOOLEAN, caps : BOOLEAN, sep : BOOLEAN]
PbsCommand == [op : STRING, params : Seq(STRING \X STRING), clean : BOOLEAN]
ZammadWrite == [write : {TRUE}, op : STRING, id : STRING, clean : BOOLEAN,
                body : Seq([ch : STRING, form : STRING])]

Token == {t \in [parts : Seq(STRING) \ {<<>>}, by : {"", ",", "/", "=", " "},
                 form : {"bare", "whole", "inner", "open", "spaced"}] : t.by = "" => Len(t.parts) = 1}

(* A REST reply: the line of the prompt and the payload, the whole of which is
   the last line if it is JSON. *)
IsSequence(s) == s \in Seq(Range(s))
RestReply(b) ==
    /\ IsSequence(b)
    /\ \A i \in DOMAIN b :
          \/ b[i].k = "text"
          \/ /\ i = Len(b) /\ b[i] = [k |-> "json", o |-> b[i].o, whole |-> b[i].whole, removed |-> {}]
             /\ IsSequence(b[i].o) /\ b[i].o # <<>> /\ b[i].whole \subseteq 2..Len(b[i].o)

(* The shapes of what is enumerated: a Wazuh query key that holds "agent" is one
   of two, a typed operation has the fields of its grammar, a Linux line is cut
   into segments of tokens that are not empty, and a number that the policy
   takes is written in one to nine digits. *)
ASSUME InputsAssumption ==
    /\ Configs \subseteq Seq(DeviceEntry)
    /\ \A kind \in CliKinds : Commands[kind] \subseteq CliCommand
    /\ \A r \in Commands["wazuh"] : \A i \in DOMAIN r.query :
          r.query[i].key \in {"agents_list", "agent_id", "limit"}
    /\ Commands["pbs"] \subseteq PbsCommand
    /\ \A c \in Commands["zammad"] : c.write => c \in ZammadWrite
    /\ Commands["linux"] \subseteq [segs : Seq(Seq(Token)), meta : BOOLEAN]
    /\ MaxTok \in Nat /\ MaxTok >= 3
    /\ Vmids \subseteq Nat
    /\ \A n \in Vmids : ToString(n) \notin OddWord \cup {""} /\ (n <= MaxVmid => Len(ToString(n)) <= 9)
    /\ \A class \in {"config", "rest", "text"} : \A b \in Bodies["librenms"][class] : RestReply(b)

VARIABLES devices,    \* the devices file
          loaded,     \* how many of its entries have been read
          prot,       \* linux_protected_vmids and whether they are configured
          agents,     \* wz_protected_agents
          phase,      \* "load", "fatal", "up", then of one request:
                      \* "refused", "sent", "captured", "filtered", "signed"
          req,        \* the request: [kind, c, mode]
          raw,        \* what the device printed
          body        \* virp_exec_result_t.output

vars == <<devices, loaded, prot, agents, phase, req, raw, body>>

NoReq == [kind |-> "none", mode |-> "none"]

-----------------------------------------------------------------------------
(* What is nothing when it reaches the field. *)
Unlisted(list) == list.form \in {"absent", "badtype"} \/ (list.form = "ok" /\ list.ids = {})

(* Fault: the table is full, the rest of the list is forgotten. *)
SetProtected_Forgets(have, list) ==
    IF list.form = "badtext" THEN {}
    ELSE {S \in SUBSET (have \cup list.held) : have \subseteq S /\ Cardinality(S) <= MaxProtected}

(* linux_gate_set_protected_vmids(), wazuh_gate_set_protected_agents(): the
   sets that result, none when the call fails. *)
SetProtected(have, list) ==
    IF list.form = "badtext" \/ Cardinality(have \cup list.held) > MaxProtected THEN {}
    ELSE {have \cup list.held}

LoadLinux(list) ==
    IF Unlisted(list)
    THEN UNCHANGED <<prot, agents, phase>>
    ELSE /\ UNCHANGED agents
         /\ \/ \E S \in SetProtected(prot.vmids, list) :
                  prot' = [vmids |-> S, configured |-> TRUE] /\ UNCHANGED phase
            \/ SetProtected(prot.vmids, list) = {} /\ phase' = "fatal" /\ UNCHANGED prot

(* A list that was declared and came to nothing is fatal here. *)
LoadWazuh(list) ==
    /\ UNCHANGED prot
    /\ IF list.form = "absent" THEN UNCHANGED <<agents, phase>>
       ELSE IF Unlisted(list) THEN phase' = "fatal" /\ UNCHANGED agents
       ELSE \/ \E S \in SetProtected(agents, list) : agents' = S /\ UNCHANGED phase
            \/ SetProtected(agents, list) = {} /\ phase' = "fatal" /\ UNCHANGED agents

LoadDevice ==
    /\ phase = "load" /\ loaded < Len(devices)
    /\ loaded' = loaded + 1
    /\ LET d == devices[loaded + 1] IN
       IF d.fate = "skipped" THEN UNCHANGED <<prot, agents, phase>>
       ELSE IF d.fate = "duplicate" THEN phase' = "fatal" /\ UNCHANGED <<prot, agents>>
       ELSE IF d.kind = "linux" THEN LoadLinux(d.list)
       ELSE IF d.kind = "wazuh" THEN LoadWazuh(d.list)
       ELSE UNCHANGED <<prot, agents, phase>>
    /\ UNCHANGED <<devices, req, raw, body>>

(* main(): a daemon without a device does not start. *)
Start ==
    /\ phase = "load" /\ loaded = Len(devices)
    /\ phase' = IF \E i \in DOMAIN devices : devices[i].fate = "loaded" THEN "up" ELSE "fatal"
    /\ UNCHANGED <<devices, loaded, prot, agents, req, raw, body>>

-----------------------------------------------------------------------------
(* virp_command_check_separators(): ; | & ` $( ${ < > and control bytes. *)
Separated(kind, c) ==
    CASE kind \in {"cisco", "asa", "juniper", "panos", "fortigate", "mock"} -> c.sep
      [] kind = "linux" -> c.meta \/ Len(c.segs) # 1
      [] kind \in {"wazuh", "librenms"} -> Len(c.query) > 1
      [] kind = "zammad" ->
            IF c.write THEN \E i \in DOMAIN c.body : c.body[i].form = "literal" /\ c.body[i].ch \in {";", "|", "&"}
                       ELSE Len(c.query) > 1
      [] OTHER -> FALSE

(* gate_classify(): the route_command of the driver. *)
Classify(kind, c) ==
    CASE kind = "cisco" -> cisco_gate_tier(c)
      [] kind = "asa" -> asa_route_command(c)
      [] kind = "juniper" -> junos_route_command(c)
      [] kind = "panos" -> pa_route_command(c)
      [] kind = "fortigate" -> fg_route_command(c)
      [] kind = "linux" -> linux_gate_classify(c, prot)
      [] kind = "wazuh" -> wazuh_gate_tier(c, agents)
      [] kind = "librenms" -> librenms_gate_tier(c)
      [] kind = "gns3" -> gns3_gate_tier(c)
      [] kind = "pbs" -> pbs_gate_classify(c)
      [] kind = "zammad" -> zammad_gate_classify(c)
      [] kind = "mock" -> mock_route_command(c)

(* What the gate leaves open.  Without an owner policy: BLACK and a separator
   are refused in every mode, RED and UNCLASSIFIED run in SHADOW mode or with an
   approval ("open").  With one that grants the operation ("policy") the tier is
   that of the operation and the classifier is not asked. *)
MayRun(kind, c, mode) ==
    /\ ~Separated(kind, c)
    /\ IF mode = "policy" THEN virp_policy_classify(kind, c)
       ELSE LET tier == Classify(kind, c) IN
            /\ tier # "BLACK"
            /\ tier \in {"RED", "UNCLASSIFIED"} => mode = "open"

(* The BLACK test of the drivers' own execute(); a reboot that the policy
   granted passes it in four of them. *)
Backstop(kind, c, mode) ==
    ~virp_policy_reboot_permitted(kind, c, mode) /\
    CASE kind = "cisco" -> ~c.lead /\ BlackPrefix(CISCO_BLACK_COMMANDS, c.text)
      [] kind = "panos" -> pa_is_black_tier(c)
      [] kind = "fortigate" -> ~c.lead /\ fg_is_black_tier(c)
      [] kind = "asa" -> asa_route_command(c) = "BLACK"
      [] kind = "juniper" -> junos_route_command(c) = "BLACK"
      [] kind = "linux" -> linux_gate_classify(c, prot) = "BLACK"
      [] kind = "wazuh" -> wz_is_black_endpoint(c, agents)
      [] OTHER -> FALSE

(* What execute() refuses because it cannot be put into a request of this API,
   or because the device does not allow the operation. *)
Unsendable(kind, c) ==
    CASE kind \in {"wazuh", "librenms"} -> c.method \notin {"", "GET"} \/ ~c.slash
      [] kind = "pbs" -> IF pbs_parse_command(c) THEN pbs_build_path(c) = <<>> ELSE TRUE
      [] kind = "zammad" -> c.write /\ ~(zm_parse_command(c) /\ zm_device_allows_op(WriteOps, c))
      [] kind = "gns3" -> gns3_operation(c) = 0
      [] OTHER -> FALSE

(* onode_execute_obs_ex(): what the policy granted is dispatched in the form it
   was compared in. *)
Request(mode) ==
    /\ phase = "up"
    /\ \E i \in DOMAIN devices :
          LET kind == devices[i].kind IN
          /\ devices[i].fate = "loaded"
          /\ \E asked \in Commands[kind] :
                LET c == IF mode = "policy" THEN normalize(kind, asked) ELSE asked IN
                /\ req' = [kind |-> kind, c |-> c, mode |-> mode]
                /\ phase' = IF MayRun(kind, c, mode) /\ ~Backstop(kind, c, mode) /\ ~Unsendable(kind, c)
                             THEN "sent" ELSE "refused"
    /\ UNCHANGED <<devices, loaded, prot, agents, raw, body>>

-----------------------------------------------------------------------------
(* cisco_, asa_ and linux_command_returns_config() *)
returns_config(kind, c) ==
    \/ /\ kind \in {"cisco", "asa"} /\ ~c.caps
       /\ \/ \E p \in {"show running-config", "show startup-config", "show tech-support"} : StartsWith(c.text, p)
          \/ kind = "asa" /\ StartsWith(c.text, "more system:running-config")
    \/ /\ kind = "linux" /\ Len(c.segs) = 1 /\ Len(c.segs[1]) = 3
       /\ LET tok == c.segs[1] IN
          /\ BareWord(tok[1]) = "vtysh" /\ BareWord(tok[2]) = "-c"
          /\ tok[3].form \in {"whole", "spaced"} /\ tok[3].parts[1] = "show"
          /\ \E full \in {"running-config", "startup-config"} : word_prefixes(Tail(tok[3].parts), full)

(* match_rule(): the built-in rule is for one LibreNMS path, whatever its query. *)
match_rule(kind, c) ==
    /\ kind = "librenms"
    /\ [i \in DOMAIN c.path |-> Readable(c.path[i], 0)] = <<"api", "v0", "devices">>

(* Whether the device answers with its configuration: it takes abbreviations,
   blanks and capitals that the driver's test does not know. *)
PrintsConfig(kind, c) ==
    \/ returns_config(kind, c)
    \/ kind \in {"cisco", "asa"} /\ \E p \in {"show run", "sh run", "show startup-config"} : StartsWith(c.text, p)
    \/ kind = "juniper" /\ StartsWith(c.text, "show configuration")
    \/ kind = "panos" /\ \E p \in {"show config", "show running"} : StartsWith(c.text, p)
    \/ kind = "fortigate" /\ StartsWith(c.text, "show ")

(* What a reply to this command looks like. *)
Class(kind, c) ==
    CASE PrintsConfig(kind, c) -> "config"
      [] kind \in {"librenms", "wazuh"} -> "rest"
      [] OTHER -> "text"

(* The device answers; its driver keeps what it may. *)
Capture ==
    /\ phase = "sent"
    /\ \E b \in Bodies[req.kind][Class(req.kind, req.c)] :
          /\ raw' = b
          /\ body' = IF returns_config(req.kind, req.c) THEN store_output(scrub_config(req.kind, b), TRUE)
                     ELSE store_output(b, FALSE)
    /\ phase' = "captured"
    /\ UNCHANGED <<devices, loaded, prot, agents, req>>

Filter ==
    /\ phase = "captured"
    /\ body' = virp_body_filter_apply(body, match_rule(req.kind, req.c))
    /\ phase' = "filtered"
    /\ UNCHANGED <<devices, loaded, prot, agents, req, raw>>

ScrubAndSign ==
    /\ phase = "filtered"
    /\ body' = IF body = <<>> THEN body ELSE virp_scrub_field(body, Cap)
    /\ phase' = "signed"
    /\ UNCHANGED <<devices, loaded, prot, agents, req, raw>>

(* The request is answered and the next one may come. *)
Answered ==
    /\ phase \in {"refused", "signed"}
    /\ phase' = "up" /\ req' = NoReq /\ raw' = <<>> /\ body' = <<>>
    /\ UNCHANGED <<devices, loaded, prot, agents>>

-----------------------------------------------------------------------------
Init ==
    /\ devices \in Configs
    /\ loaded = 0
    /\ prot = [vmids |-> {}, configured |-> FALSE]
    /\ agents = {}
    /\ phase = "load"
    /\ req = NoReq
    /\ raw = <<>>
    /\ body = <<>>

Next ==
    \/ LoadDevice
    \/ Start
    \/ \E mode \in {"enforced", "open", "policy"} : Request(mode)
    \/ Capture
    \/ Filter
    \/ ScrubAndSign
    \/ Answered

Spec == Init /\ [][Next]_vars

-----------------------------------------------------------------------------
(* The ids that the lists of the devices file declare, of the entries that are
   not skipped and the lists that parse and fit. *)
Declared(kind) == UNION {devices[i].list.ids : i \in {j \in DOMAIN devices :
                            devices[j].kind = kind /\ devices[j].fate # "skipped" /\ devices[j].list.form = "ok"}}

Running == phase \notin {"load", "fatal"}

(* Every guest and agent that the devices file protects is in force before the
   first command is taken, however many devices add to the set and whichever of
   them cannot be added (main(), load_devices()).  This is of entries that pass
   the loader's checks and lists that parse and fit the field: a CSV string of
   more than 255 bytes is cut without a word, and the list of a skipped entry is
   never registered. *)
DeclaredIsInForce ==
    Running => /\ Declared("linux") \subseteq prot.vmids
               /\ Declared("linux") # {} => prot.configured
               /\ Declared("wazuh") \subseteq agents

Sent == phase \in {"sent", "captured", "filtered", "signed"}

(* The guests a Proxmox line names, in the places the comments of
   linux_prox_self_protect() and prox_scan_token_ids() list, quoted or not and
   in up to nine digits: the numbers and ids of whole tokens and comma lists,
   after the verb of qm and pct; of a pvesh path what follows qemu or lxc and
   every vm: and ct: id. *)
Numbers(words) == UNION {Number(w) : w \in {x \in words : Len(x) <= 9}}
Sids(words) == UNION {Sid(w) : w \in {x \in words : Len(x) <= 12}}
FieldsFrom(tok, i) == UNION {Parts(tok[j]) : j \in {k \in i..Len(tok) : tok[k].by \in {"", ","}}}

NamedByPath(path) ==
    Sids(Range(path)) \cup UNION {Numbers({path[i]}) : i \in {j \in 2..Len(path) : path[j - 1] \in {"qemu", "lxc"}}}

NamedGuests(tok) ==
    LET verb == IF Len(tok) >= 2 THEN BareWord(tok[2]) ELSE ""
        first == IF Text(tok[1]) = "qm" /\ verb = "guest" THEN 4 ELSE 3
    IN  CASE Text(tok[1]) \in {"qm", "pct"} /\ Len(tok) >= 2 /\ verb # "list" ->
                Numbers(FieldsFrom(tok, first)) \cup Sids(FieldsFrom(tok, first))
          [] Text(tok[1]) = "vzdump" -> Numbers(FieldsFrom(tok, 2)) \cup Sids(FieldsFrom(tok, 2))
          [] Text(tok[1]) = "pvesh" /\ Len(tok) >= 3 -> NamedByPath(PathSegs(tok[3])) \cup Sids(FieldsFrom(tok, 2))
          [] OTHER -> {}

(* The numbers of a pvesh line whose path is one of the cluster or of a pool. *)
ScopedNumbers(tok) ==
    IF /\ Text(tok[1]) = "pvesh" /\ Len(tok) >= 3 /\ tok[3].by = "/"
       /\ \E p \in {"cluster", "pools"} : StartsWith(tok[3].parts[1], p)
    THEN Numbers(FieldsFrom(tok, 2)) ELSE {}

(* The agents a Wazuh request names, encoded at most once. *)
NamedAgents(r) ==
    LET pieces == Range(r.path)
                  \cup UNION {Range(r.query[i].values) : i \in {j \in DOMAIN r.query : r.query[j].key # "limit"}}
    IN  UNION {wz_parse_u32(q.w) : q \in {x \in pieces : x.enc <= 1}}

(* No line that names a protected guest, and no request that names a protected
   agent, reaches its device, however it is quoted, listed or encoded, and under
   an owner policy too.  A number is read in up to nine digits, and neither the
   value of a --flag=value nor a longer number is read at all.  In SHADOW mode
   and with an approval this holds of Linux lines whose tool is not quoted, that
   the tokenizer takes and whose expected number parses: what it refuses for
   these reasons is RED, not BLACK. *)
ProtectedNeverSent ==
    /\ Sent /\ req.kind = "linux" =>
          LET tok == req.c.segs[1] IN
          \/ tok = <<>>
          \/ /\ req.mode = "open"
             /\ \/ ~linux_prox_tokenize(tok) \/ tok[1].form # "bare"
                \/ linux_prox_self_protect(tok, prot) = "bad"
          \/ (NamedGuests(tok) \cup ScopedNumbers(tok)) \cap prot.vmids = {}
    /\ Sent /\ req.kind = "wazuh" => NamedAgents(req.c) \cap agents = {}

(* While no protected list is in force, be it that none was declared or that
   the one declared was dropped, an enforcing node sends no line that names a
   guest (load_devices(): "A malformed entry sets nothing: the classifier then
   refuses every VMID-bearing Proxmox command"); a number in the path of a pool
   or of the cluster is not one to linux_prox_self_protect(). *)
UnconfiguredRefuses ==
    Sent /\ req.kind = "linux" /\ req.mode = "enforced" /\ ~prot.configured =>
        \/ req.c.segs[1] = <<>>
        \/ NamedGuests(req.c.segs[1]) = {}

(* The program a segment starts and the words that are its arguments, whatever
   their quotes: what is quoted together counts word by word. *)
Program(t) == CASE t.by = "/" -> t.parts[Len(t.parts)] [] t.by \in {"", " "} -> t.parts[1] [] OTHER -> ""
Halts(seg) ==
    /\ seg # <<>>
    /\ \/ Program(seg[1]) \in LINUX_BLACK_HALT_CMDS
       \/ /\ Program(seg[1]) = "systemctl"
          /\ \E i \in DOMAIN seg : seg[i].by \in {"", " "} /\ Parts(seg[i]) \cap LINUX_BLACK_SYSTEMCTL_HOST # {}

(* What must never be transmitted: the BLACK lists in any case, with blanks
   before them where the driver trims, and a command that halts the node's
   host in any segment of a line. *)
NeverTier(kind, c) ==
    CASE kind = "cisco" -> BlackPrefix(CISCO_BLACK_COMMANDS, c.text)
      [] kind = "panos" -> BlackPrefix(PA_BLACK_COMMANDS, c.text)
      [] kind = "fortigate" -> BlackPrefix(FG_BLACK_COMMANDS, c.text)
      [] kind = "asa" -> ~c.lead /\ c.text \in {r[1] : r \in {q \in ASA_ROUTE_TABLE : q[2] = "BLACK"}}
      [] kind = "juniper" -> ~c.lead /\ c.text \in {r[1] : r \in {q \in JUNOS_ROUTE_TABLE : q[2] = "BLACK"}}
      [] kind = "linux" -> \E i \in DOMAIN c.segs : Halts(c.segs[i])
      [] kind = "wazuh" -> HasPart(c, "active-response", 1)
      [] OTHER -> FALSE

(* The classifier and the driver's own test together keep the never tier off
   the wire, and neither test alone covers it.  The one exception is the reboot
   of a host that an owner policy granted (docs/BLACK-POLICY.md), and JunOS does
   not know that one. *)
BlackNeverSent ==
    Sent /\ NeverTier(req.kind, req.c) => virp_policy_reboot_permitted(req.kind, req.c, req.mode)

(* The line as the shell runs it, without its quotes. *)
Unquoted(tok) == [i \in DOMAIN tok |-> [tok[i] EXCEPT !.form = "bare"]]

(* Without its quotes a token with blanks or odd bytes is another line. *)
NeedsQuotes(t) == t.by = " " \/ Parts(t) \cap OddWord # {}

(* Quoting part of a Proxmox line never turns what is refused unquoted into
   something the gate lets through (prox_tok_eq_bare() against prox_flag_in()),
   where the quotes are not what holds a token together. *)
QuotingNeverPermits ==
    req.kind = "linux" =>
        \/ Len(req.c.segs) # 1 \/ req.c.segs[1] = <<>>
        \/ \E i \in DOMAIN req.c.segs[1] : NeedsQuotes(req.c.segs[1][i])
        \/ Text(req.c.segs[1][1]) \notin LINUX_PROX_TOOLS
        \/ linux_gate_classify(req.c, prot) \notin {"GREEN", "YELLOW"}
        \/ linux_gate_classify([req.c EXCEPT !.segs[1] = Unquoted(@)], prot) \in {"GREEN", "YELLOW"}

HoldsSecret(line) ==
    CASE line.k \in {"text", "pem"} -> \E w \in Range(line.w) : w = "S" \/ \E l \in Labels : w = l \o "=S"
      [] line.k = "json" -> \E i \in DOMAIN line.o : \E key \in DOMAIN line.o[i] : line.o[i][key] = "S"
      [] line.k = "secret" -> TRUE
      [] OTHER -> FALSE

(* Whether a driver of its own scrubs what this device prints as configuration. *)
DriverScrubs(kind, c) == kind \in {"cisco", "asa", "linux"} /\ PrintsConfig(kind, c)

(* Nothing the tiers or a policy allow gets a configuration signed with a
   credential of IOS, ASA or FRR in it: every such read is known to its driver's
   scrub ("exhaustive", driver_cisco.c).  Of other replies, those of the drivers
   without a scrub included, no credential is signed in a shape that
   virp_scrub.c replaces.  What does not fit after scrubbing is withheld or
   replaced, never passed on.  What stands on the BEGIN or END line of a private
   key itself is kept as it is. *)
SecretsNeverSigned ==
    phase = "signed" /\ req.mode # "open" =>
        \A i \in DOMAIN body : HoldsSecret(body[i]) =>
            \/ body[i].k = "pem"
            \/ /\ ~DriverScrubs(req.kind, req.c)
               /\ body[i].k = "text" /\ scrub_line(body[i]) = body[i]

(* A payload that a filter rule matches is signed with allowed keys only and a
   record of every key removed, untouched when nothing was, or as a stub.  What
   the array key holds that is no array of objects is kept as it is. *)
FilteredIsAllowlisted ==
    phase = "signed" /\ match_rule(req.kind, req.c) /\ body # <<>> =>
        LET line == body[Len(body)]
            was == raw[Len(raw)]
        IN  \/ line \in {Stub, ScrubError}
            \/ /\ line.k = "json"
               /\ DOMAIN line.o[1] \subseteq EnvelopeAllow \cup {ArrayKey}
               /\ \A i \in (2..Len(line.o)) \ was.whole : DOMAIN line.o[i] \subseteq ItemAllow
               /\ line.removed = UNION {DOMAIN was.o[i] \ DOMAIN line.o[i] : i \in DOMAIN was.o}

(* An operation that is accepted has one spelling: two PBS or Zammad commands
   with the same effect are the same bytes, so an approval of one is an
   approval of the operation; and it passes the separator policy. *)
OneEncoding ==
    /\ Sent /\ req.kind = "pbs" =>
          \A d \in Commands["pbs"] :
              pbs_parse_command(d) /\ pbs_build_path(d) = pbs_build_path(req.c)
              => d = req.c
    /\ req.kind = "zammad" => (req.c.write /\ zm_parse_command(req.c) =>
          /\ ~Separated("zammad", req.c)
          /\ \A d \in Commands["zammad"] :
                d.write => (zm_parse_command(d) /\ zm_article(d) = zm_article(req.c) => d = req.c))
=============================================================================
