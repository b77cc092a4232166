------------------------- MODULE CommandPathProofs -------------------------
(***************************************************************************)
(* What holds of the command path for every devices file and every command *)
(* of the assumed shapes.                                                  *)
(***************************************************************************)
EXTENDS CommandPath, WellFoundedInduction, TLAPS

USE ZenonT(20)

(* What the proofs use of sequences. *)
LEMMA SeqShape ==
  ASSUME NEW S, NEW q \in Seq(S)
  PROVE  /\ Len(q) \in Nat /\ DOMAIN q = 1..Len(q)
         /\ \A i \in 1..Len(q) : q[i] \in S
         /\ Len(q) = 0 => q = << >>
BY SMT

LEMMA SeqSame ==
  ASSUME NEW S, NEW q \in Seq(S), NEW r \in Seq(S), Len(q) = Len(r),
         \A i \in 1..Len(q) : q[i] = r[i]
  PROVE  q = r
BY SMT

LEMMA SeqOne ==
  ASSUME NEW S, NEW q \in Seq(S), Len(q) = 1
  PROVE  DOMAIN q = {1}
BY SMT

(* InputsAssumption, one command at a time. *)
LEMMA CliInputs ==
  ASSUME NEW kind \in CliKinds, NEW c \in Commands[kind]
  PROVE  c \in CliCommand
BY InputsAssumption

LEMMA WazuhInputs ==
  ASSUME NEW r \in Commands["wazuh"], NEW i \in DOMAIN r.query
  PROVE  r.query[i].key \in {"agents_list", "agent_id", "limit"}
BY InputsAssumption

LEMMA OperationInputs ==
  ASSUME NEW c
  PROVE  /\ c \in Commands["pbs"] => c \in PbsCommand
         /\ c \in Commands["zammad"] /\ c.write => c \in ZammadWrite
BY InputsAssumption

LEMMA LinuxInputs ==
  ASSUME NEW c \in Commands["linux"]
  PROVE  c.segs \in Seq(Seq(Token))
BY InputsAssumption

(* The lists of the first n entries are in force. *)
InForce(n) ==
    \A i \in 1..n : devices[i].fate # "skipped" /\ devices[i].list.form = "ok" =>
        /\ devices[i].kind = "linux" =>
              /\ devices[i].list.ids \subseteq prot.vmids
              /\ devices[i].list.ids # {} => prot.configured
        /\ devices[i].kind = "wazuh" => devices[i].list.ids \subseteq agents

(* A request that is under way is one of the commands of its kind, where the
   policy does not rewrite them. *)
Rewritten == CliKinds \cup {"mock"}
Requested == req = NoReq \/ req.kind \in Rewritten \/ req.c \in Commands[req.kind]

Loading ==
    /\ devices \in Configs
    /\ loaded \in Nat /\ loaded <= Len(devices)
    /\ phase # "fatal" => InForce(loaded)
    /\ Running => loaded = Len(devices)

LEMMA Files ==
  ASSUME devices \in Configs
  PROVE  /\ Len(devices) \in Nat /\ DOMAIN devices = 1..Len(devices)
         /\ \A i \in DOMAIN devices : devices[i] \in DeviceEntry
<1>1. devices \in Seq(DeviceEntry)
  BY InputsAssumption
<1> QED
  BY <1>1, SeqShape

(* Lists that a load adds to stay in force: the sets only grow. *)
LEMMA Grows ==
  ASSUME NEW have, NEW list, NEW S \in SetProtected(have, list)
  PROVE  have \subseteq S /\ list.held \subseteq S
BY DEF SetProtected

LEMMA LoadDeviceStep ==
  ASSUME Loading, LoadDevice
  PROVE  Loading'
<1> DEFINE n == loaded + 1
           d == devices[n]
<1>1. /\ phase = "load" /\ loaded < Len(devices) /\ loaded' = n /\ devices' = devices
      /\ devices \in Configs /\ loaded \in Nat
      /\ Len(devices) \in Nat /\ n \in Nat /\ n <= Len(devices) /\ InForce(loaded)
  <2>1. /\ phase = "load" /\ loaded < Len(devices) /\ loaded' = n /\ devices' = devices
        /\ devices \in Configs /\ loaded \in Nat /\ InForce(loaded)
    BY DEF LoadDevice, Loading
  <2>2. Len(devices) \in Nat
    BY <2>1, Files
  <2>3. n \in Nat /\ n <= Len(devices)
    BY <2>1, <2>2, SMTT(60)
  <2> QED
    BY <2>1, <2>2, <2>3
<1>2. d \in DeviceEntry
  BY <1>1, Files, SMTT(60)
<1>3. d.list.form = "ok" => d.list.held = d.list.ids
  BY <1>2 DEF DeviceEntry
<1>4. \/ d.fate = "skipped" /\ UNCHANGED <<prot, agents, phase>>
      \/ phase' = "fatal" /\ UNCHANGED <<prot, agents>>
      \/ d.kind = "linux" /\ LoadLinux(d.list)
      \/ d.kind = "wazuh" /\ LoadWazuh(d.list)
      \/ d.kind \notin {"linux", "wazuh"} /\ UNCHANGED <<prot, agents, phase>>
  BY DEF LoadDevice
<1> HIDE DEF n, d
<1>5. /\ phase' \in {"load", "fatal"}
      /\ phase' # "fatal" =>
           /\ prot.vmids \subseteq prot'.vmids /\ (prot.configured => prot'.configured)
           /\ agents \subseteq agents'
           /\ d.fate # "skipped" /\ d.list.form = "ok" =>
                /\ d.kind = "linux" =>
                     d.list.ids \subseteq prot'.vmids /\ (d.list.ids # {} => prot'.configured)
                /\ d.kind = "wazuh" => d.list.ids \subseteq agents'
  <2>1. CASE d.kind = "linux" /\ LoadLinux(d.list)
    <3>1. CASE Unlisted(d.list)
      BY <1>1, <2>1, <3>1, SMTT(60) DEF LoadLinux, Unlisted
    <3>2. CASE ~Unlisted(d.list)
      <4>1. UNCHANGED agents
        BY <2>1, <3>2, SMTT(60) DEF LoadLinux
      <4>2. ASSUME NEW S \in SetProtected(prot.vmids, d.list),
                   prot' = [vmids |-> S, configured |-> TRUE], UNCHANGED phase
            PROVE  <1>5!1 /\ <1>5!2
        BY <1>1, <1>3, <2>1, <4>1, <4>2, Grows, SMTT(60)
      <4>3. CASE phase' = "fatal"
        BY <4>3
      <4> QED
        BY <2>1, <3>2, <4>2, <4>3, SMTT(60) DEF LoadLinux
    <3> QED
      BY <3>1, <3>2, SMTT(60)
  <2>2. CASE d.kind = "wazuh" /\ LoadWazuh(d.list)
    <3>0. UNCHANGED prot
      BY <2>2, SMTT(60) DEF LoadWazuh
    <3>1. CASE d.list.form = "absent"
      BY <1>1, <2>2, <3>0, <3>1, SMTT(60) DEF LoadWazuh
    <3>2. CASE d.list.form # "absent"
      <4>1. ASSUME NEW S \in SetProtected(agents, d.list), agents' = S, UNCHANGED phase
            PROVE  <1>5!1 /\ <1>5!2
        BY <1>1, <1>3, <2>2, <3>0, <4>1, Grows, SMTT(60)
      <4>2. CASE phase' = "fatal"
        BY <4>2
      <4> QED
        BY <2>2, <3>2, <4>1, <4>2, SMTT(60) DEF LoadWazuh
    <3> QED
      BY <3>1, <3>2, SMTT(60)
  <2>3. CASE d.kind \notin {"linux", "wazuh"} /\ UNCHANGED <<prot, agents, phase>>
    BY <1>1, <2>3, SMTT(60)
  <2>4. CASE d.fate = "skipped" /\ UNCHANGED <<prot, agents, phase>>
    BY <1>1, <2>4, SMTT(60)
  <2>5. CASE phase' = "fatal"
    BY <2>5
  <2> QED
    BY <1>4, <2>1, <2>2, <2>3, <2>4, <2>5
<1>6. phase' # "fatal" => InForce(loaded)'
  <2> SUFFICES ASSUME phase' # "fatal", NEW i \in 1..n, devices[i].fate # "skipped",
                      devices[i].list.form = "ok"
               PROVE  /\ devices[i].kind = "linux" =>
                           /\ devices[i].list.ids \subseteq prot'.vmids
                           /\ devices[i].list.ids # {} => prot'.configured
                      /\ devices[i].kind = "wazuh" => devices[i].list.ids \subseteq agents'
    BY <1>1, SMTT(60) DEF InForce
  <2>1. CASE i = n
    BY <1>5, <2>1, SMTT(60) DEF d
  <2>2. CASE i \in 1..loaded
    BY <1>1, <1>5, <2>2, SMTT(60) DEF InForce
  <2> QED
    BY <1>1, <2>1, <2>2, SMTT(60) DEF n
<1> QED
  BY <1>1, <1>5, <1>6 DEF Loading, Running

(* From then on lists and sets stay as they are. *)
LEMMA OtherSteps ==
  ASSUME Loading, [Start \/ (\E mode \in {"enforced", "open", "policy"} : Request(mode)) \/ Capture
                   \/ Filter \/ ScrubAndSign \/ Answered]_vars
  PROVE  Loading'
<1>1. UNCHANGED <<devices, loaded, prot, agents>>
  BY DEF vars, Start, Request, Capture, Filter, ScrubAndSign, Answered
<1>2. phase # "fatal" \/ phase' = "fatal"
  BY DEF vars, Start, Request, Capture, Filter, ScrubAndSign, Answered
<1>3. Running' => Running \/ loaded = Len(devices)
  BY DEF vars, Start, Request, Capture, Filter, ScrubAndSign, Answered, Running
<1> QED
  BY <1>1, <1>2, <1>3, SMTT(60) DEF Loading, InForce, Running

LEMMA LoadingInvariant == Spec => []Loading
<1>1. Init => Loading
  BY Files, SMTT(60) DEF Init, Loading, InForce, Running
<1>2. Loading /\ [Next]_vars => Loading'
  BY LoadDeviceStep, OtherSteps DEF Next
<1> QED
  BY <1>1, <1>2, PTL DEF Spec

(* load_devices() and main(): the daemon takes no command before every     *)
(* protected guest and agent is in force, of every list that parses and    *)
(* fits its field, of every entry that is not skipped; for any number of   *)
(* devices, such lists of any length and any table size.                   *)
THEOREM DeclaredListsHold == Spec => []DeclaredIsInForce
<1>1. Loading => DeclaredIsInForce
  <2> SUFFICES ASSUME Loading, Running PROVE DeclaredIsInForce
    BY DEF DeclaredIsInForce
  <2>1. DOMAIN devices = 1..loaded /\ InForce(loaded)
    BY Files, SMTT(60) DEF Loading, Running
  <2> QED
    BY <2>1 DEF DeclaredIsInForce, Declared, InForce
<1> QED
  BY <1>1, LoadingInvariant, PTL

-----------------------------------------------------------------------------
(* What is asked is what is dispatched, but for the form the policy gives it. *)
LEMMA Asked ==
  ASSUME NEW mode, Request(mode)
  PROVE  /\ req'.kind \in Rewritten \/ req'.c \in Commands[req'.kind]
         /\ req'.mode = mode /\ (mode = "policy" /\ req'.kind \in CliKinds => ~req'.c.lead)
<1>1. PICK kind, asked :
         /\ asked \in Commands[kind]
         /\ req' = [kind |-> kind, c |-> IF mode = "policy" THEN normalize(kind, asked) ELSE asked, mode |-> mode]
  BY DEF Request
<1> DEFINE c == IF mode = "policy" THEN normalize(kind, asked) ELSE asked
<1>2. req'.kind = kind /\ req'.c = c /\ req'.mode = mode
  BY <1>1
<1>3. kind \in Rewritten \/ c = asked
  BY DEF Rewritten, normalize
<1>4. ASSUME mode = "policy", kind \in CliKinds PROVE ~c.lead
  <2>1. asked \in CliCommand
    BY <1>1, <1>4, CliInputs
  <2> DEFINE t == IF kind = "cisco" /\ StartsWith(asked.text, "do ") THEN After(asked.text, "do ") ELSE asked.text
  <2>2. c = [asked EXCEPT !.text = t, !.lead = FALSE, !.caps = FALSE]
    BY <1>4 DEF normalize
  <2> HIDE DEF t, c
  <2>3. DOMAIN asked = {"text", "lead", "caps", "sep"}
    BY <2>1 DEF CliCommand
  <2> QED
    BY <2>2, <2>3
<1> HIDE DEF c
<1> QED
  BY <1>1, <1>2, <1>3, <1>4

LEMMA AsAsked ==
  ASSUME Requested, req.kind # "none", req.kind \notin Rewritten
  PROVE  req.c \in Commands[req.kind]
<1>1. NoReq.kind = "none"
  BY DEF NoReq
<1> QED
  BY <1>1 DEF Requested

LEMMA RequestedInvariant == Spec => []Requested
<1>1. Init => Requested
  BY DEF Init, Requested
<1>2. Requested /\ [Next]_vars => Requested'
  <2> SUFFICES ASSUME Requested, [Next]_vars PROVE Requested'
    OBVIOUS
  <2>1. CASE UNCHANGED req
    BY <2>1 DEF Requested
  <2>2. ASSUME NEW mode \in {"enforced", "open", "policy"}, Request(mode) PROVE Requested'
    BY <2>2, Asked DEF Requested
  <2>3. CASE Answered
    BY <2>3 DEF Answered, Requested
  <2> QED
    BY <2>1, <2>2, <2>3, ZenonT(60) DEF Next, vars, LoadDevice, Start, Capture, Filter, ScrubAndSign
<1> QED
  BY <1>1, <1>2, PTL DEF Spec

(* The path and query scans of wz_is_black_endpoint() find every agent that is *)
(* named plainly or percent-encoded once.                                     *)
LEMMA NamedIsBlack ==
  ASSUME NEW r \in Commands["wazuh"], NEW S, r.slash, ~wz_is_black_endpoint(r, S)
  PROVE  NamedAgents(r) \cap S = {}
<1>1. ~wz_scan_black(r, S, 1)
  BY DEF wz_is_black_endpoint
<1>2. ASSUME NEW q \in Range(r.path), q.enc <= 1
      PROVE  wz_parse_u32(q.w) \cap S = {}
  BY <1>1, <1>2, SMTT(60) DEF wz_scan_black, wz_path_names_protected_agent, Readable, Range
<1>3. ASSUME NEW i \in DOMAIN r.query, r.query[i].key # "limit",
             NEW q \in Range(r.query[i].values), q.enc <= 1
      PROVE  wz_parse_u32(q.w) \cap S = {}
  <2>1. r.query[i].key \in {"agents_list", "agent_id"}
    BY <1>3, WazuhInputs
  <2>2. PICK j \in DOMAIN r.query[i].values : q = r.query[i].values[j]
    BY SMTT(60) DEF Range
  <2>3. Readable(r.query[i].values[j], 1) = q.w
    BY <1>3, <2>2, SMTT(60) DEF Readable
  <2> QED
    BY <1>1, <2>1, <2>3, SMTT(60) DEF wz_scan_black, wz_query_names_protected_agent
<1> QED
  BY <1>2, <1>3, SMTT(60) DEF NamedAgents

(* What the gate, the driver's own test and the request builder let through. *)
LEMMA SentPasses ==
  ASSUME NEW mode, Request(mode), phase' = "sent"
  PROVE  /\ MayRun(req'.kind, req'.c, req'.mode) /\ ~Backstop(req'.kind, req'.c, req'.mode)
         /\ ~Unsendable(req'.kind, req'.c)
BY SMTT(60) DEF Request

(* No request that names a protected agent, in its path or in a query, plainly *)
(* or percent-encoded once, is sent to the Wazuh manager in any mode           *)
(* (wazuh_gate_tier(), wz_is_black_endpoint()).                                *)
AgentsNeverNamed == Sent /\ req.kind = "wazuh" => NamedAgents(req.c) \cap agents = {}

(* AgentsNeverNamed holds for paths and queries of any length and any set of   *)
(* protected agents: wazuh_execute() sends nothing the scan calls BLACK.       *)
LEMMA AgentsStayProtected == Spec => []AgentsNeverNamed
<1>1. Init => AgentsNeverNamed
  BY SMTT(60) DEF Init, AgentsNeverNamed, Sent
<1>2. AgentsNeverNamed /\ [Next]_vars => AgentsNeverNamed'
  <2> SUFFICES ASSUME AgentsNeverNamed, [Next]_vars, Sent', req'.kind = "wazuh"
               PROVE  NamedAgents(req'.c) \cap agents' = {}
    BY DEF AgentsNeverNamed, NamedAgents
  <2>1. ASSUME NEW mode \in {"enforced", "open", "policy"}, Request(mode)
        PROVE  NamedAgents(req'.c) \cap agents' = {}
    <3>1. phase' = "sent" /\ agents' = agents
      BY <2>1 DEF Request, Sent
    <3>2. /\ req'.c \in Commands["wazuh"] /\ ~Backstop("wazuh", req'.c, req'.mode)
          /\ ~Unsendable("wazuh", req'.c)
      BY <2>1, <3>1, SentPasses, Asked DEF Rewritten, CliKinds
    <3>3. ~wz_is_black_endpoint(req'.c, agents) /\ req'.c.slash
      BY <3>2 DEF Backstop, Unsendable, virp_policy_reboot_permitted
    <3> QED
      BY <3>1, <3>2, <3>3, NamedIsBlack, SMTT(60)
  <2>2. CASE UNCHANGED <<req, agents>> /\ Sent
    BY <2>2 DEF AgentsNeverNamed
  <2> QED
    BY <2>1, <2>2, ZenonT(60)
       DEF Next, vars, Sent, LoadDevice, LoadLinux, LoadWazuh, Start, Capture, Filter, ScrubAndSign, Answered
<1> QED
  BY <1>1, <1>2, PTL DEF Spec

-----------------------------------------------------------------------------
(* zm_decode_unit() takes a character in one form only. *)
LEMMA ZammadOneSpelling ==
  ASSUME NEW c \in ZammadWrite, NEW d \in ZammadWrite, zm_parse_command(c), zm_parse_command(d),
         zm_article(c) = zm_article(d)
  PROVE  c = d
<1> DEFINE Units == [ch : STRING, form : STRING]
<1>1. /\ c.write = d.write /\ c.op = d.op /\ c.clean = d.clean
      /\ c.body \in Seq(Units) /\ d.body \in Seq(Units)
  BY DEF ZammadWrite, zm_parse_command
<1>2. /\ c.id = d.id
      /\ [i \in DOMAIN c.body |-> c.body[i].ch] = [i \in DOMAIN d.body |-> d.body[i].ch]
  BY DEF zm_article
<1>3. DOMAIN c.body = DOMAIN d.body /\ \A i \in DOMAIN c.body : c.body[i].ch = d.body[i].ch
  BY <1>2
<1>4. \A i \in DOMAIN c.body : zm_decode_unit(c.body[i]) /\ zm_decode_unit(d.body[i])
  BY <1>3 DEF zm_parse_command, zm_decode_body
<1>5. \A i \in DOMAIN c.body : c.body[i] \in Units /\ d.body[i] \in Units
  <2> HIDE DEF Units
  <2>1. /\ \A i \in 1..Len(c.body) : c.body[i] \in Units
        /\ \A i \in 1..Len(d.body) : d.body[i] \in Units
        /\ DOMAIN c.body = 1..Len(c.body) /\ DOMAIN d.body = 1..Len(d.body)
    BY <1>1, SeqShape, SMTT(60)
  <2> QED
    BY <1>3, <2>1, ZenonT(60)
<1>6. \A i \in DOMAIN c.body : c.body[i] = d.body[i]
  <2> SUFFICES ASSUME NEW i \in DOMAIN c.body PROVE c.body[i] = d.body[i]
    OBVIOUS
  <2> DEFINE u == c.body[i]
             v == d.body[i]
  <2>1. u \in Units /\ v \in Units /\ u.ch = v.ch
    BY <1>3, <1>5, SMTT(60)
  <2>2. zm_decode_unit(u) /\ zm_decode_unit(v)
    BY <1>4, SMTT(60)
  <2> HIDE DEF u, v
  <2>3. u.form = v.form
    BY <2>1, <2>2, SMTT(60) DEF zm_decode_unit
  <2>4. u = v
    BY <2>1, <2>3, SMTT(60)
  <2> QED
    BY <2>4 DEF u, v
<1> HIDE DEF Units
<1>7. c.body = d.body
  <2>1. Len(c.body) = Len(d.body) /\ DOMAIN c.body = 1..Len(c.body)
    BY <1>1, <1>3, SeqShape, SMTT(60)
  <2> QED
    BY <1>1, <1>6, <2>1, SeqSame, SMTT(60)
<1> QED
  BY <1>1, <1>2, <1>7, SMTT(60) DEF ZammadWrite

(* Escaping what the separator policy refuses is part of the grammar. *)
LEMMA ZammadUnseparated ==
  ASSUME NEW c, c.write, zm_parse_command(c)
  PROVE  ~Separated("zammad", c)
<1>1. ASSUME NEW i \in DOMAIN c.body, c.body[i].form = "literal", c.body[i].ch \in {";", "|", "&"}
      PROVE  FALSE
  BY <1>1 DEF zm_parse_command, zm_decode_body, zm_decode_unit, zm_must_escape
<1> QED
  BY <1>1 DEF Separated

(* The keys of a PBS operation are given once each, so its parameters are fixed *)
(* by their values.                                                            *)
LEMMA PbsParams ==
  ASSUME NEW c \in PbsCommand, pbs_parse_command(c)
  PROVE  \/ PBS_OPS[c.op] = {} /\ c.params = << >>
         \/ PBS_OPS[c.op] = {"store"} /\ c.params = <<<<"store", pbs_param_value(c, "store")>>>>
<1> DEFINE n == Len(c.params)
<1>1. c.params \in Seq(STRING \X STRING)
  BY DEF PbsCommand
<1>2. n \in Nat /\ DOMAIN c.params = 1..n /\ \A i \in 1..n : c.params[i] \in STRING \X STRING
  BY <1>1, SeqShape, SMTT(60)
<1>3. PBS_OPS[c.op] \in {{}, {"store"}}
  BY SMTT(60) DEF pbs_parse_command, PBS_OPS
<1>4. CASE PBS_OPS[c.op] = {}
  <2>0. \A i \in DOMAIN c.params : c.params[i][1] \in PBS_OPS[c.op]
    BY DEF pbs_parse_command
  <2> HIDE DEF n
  <2>1. n = 0
    <3>1. \A i \in 1..n : FALSE
      BY <1>2, <1>4, <2>0
    <3> QED
      BY <1>2, <3>1, SMTT(60)
  <2> USE DEF n
  <2>2. c.params = << >>
    BY <1>1, <2>1, SeqShape, SMTT(60)
  <2> QED
    BY <1>4, <2>2, SMTT(60)
<1>5. CASE PBS_OPS[c.op] = {"store"}
  <2>1. \A i \in 1..n : c.params[i][1] = "store"
    BY <1>2, <1>5, SMTT(60) DEF pbs_parse_command
  <2>2. n # 0
    BY <1>2, <1>5, SMTT(60) DEF pbs_parse_command
  <2>3. KeyRank("store") \in Nat
    <3>1. \E i \in DOMAIN KeyOrder : KeyOrder[i] = "store"
      <4>1. 3 \in DOMAIN KeyOrder /\ KeyOrder[3] = "store"
        BY SMTT(60) DEF KeyOrder
      <4> QED
        BY <4>1
    <3>2. KeyRank("store") \in DOMAIN KeyOrder
      BY <3>1 DEF KeyRank
    <3> QED
      BY <3>2, SMTT(60) DEF KeyOrder
  <2>4. ~(n >= 2)
    <3> SUFFICES ASSUME n >= 2 PROVE FALSE
      OBVIOUS
    <3>1. 1 \in 1..n /\ 2 \in 1..n
      BY <1>2, SMTT(60)
    <3>2. KeyRank(c.params[2][1]) > KeyRank(c.params[1][1])
      <4>1. Ascending(c.params)
        BY DEF pbs_parse_command
      <4>2. KeyRank(c.params[2][1]) > IF 2 = 1 THEN KeyRank("op") ELSE KeyRank(c.params[2 - 1][1])
        BY <1>2, <3>1, <4>1, SMTT(60) DEF Ascending
      <4> HIDE DEF n
      <4>3. 2 - 1 = 1 /\ 2 # 1
        BY SMTT(60)
      <4> QED
        BY <4>2, <4>3, SMTT(60)
    <3> QED
      BY <2>1, <2>3, <3>1, <3>2, SMTT(60)
  <2>5. n = 1
    <3>1. n \in Nat /\ n # 0 /\ ~(n >= 2)
      BY <1>2, <2>2, <2>4, SMTT(60)
    <3> HIDE DEF n
    <3> QED
      BY <3>1, SMTT(60)
  <2>6. c.params[1] = <<"store", c.params[1][2]>>
    BY <1>2, <2>1, <2>5, SMTT(60)
  <2>7. pbs_param_value(c, "store") = c.params[1][2]
    <3> DEFINE P(i) == c.params[i][1] = "store" /\ \A j \in DOMAIN c.params : c.params[j][1] = "store" => i <= j
    <3>1. DOMAIN c.params = {1}
      BY <1>2, <2>5, SMTT(60)
    <3>2. P(1)
      BY <2>1, <2>5, <3>1, SMTT(60)
    <3>3. (CHOOSE i \in DOMAIN c.params : P(i)) \in DOMAIN c.params
      BY <3>1, <3>2
    <3>4. (CHOOSE i \in DOMAIN c.params : P(i)) = 1
      BY <3>1, <3>3, SMTT(60)
    <3> QED
      BY <3>4 DEF pbs_param_value
  <2>8. c.params = <<c.params[1]>>
    <3> DEFINE p == c.params[1]
               t == <<p>>
               S == STRING \X STRING
    <3>1. p \in S /\ c.params \in Seq(S)
      BY <1>1, <1>2, <2>5, SMTT(60)
    <3> HIDE DEF p, S
    <3>2. t \in Seq(S) /\ Len(t) = 1 /\ t[1] = p
      BY <3>1, SMTT(60)
    <3> HIDE DEF t
    <3>3. \A i \in 1..n : c.params[i] = t[i]
      BY <2>5, <3>2, SMTT(60) DEF p
    <3>4. c.params = t
      BY <2>5, <3>1, <3>2, <3>3, SeqSame, SMTT(60)
    <3> QED
      BY <3>4 DEF t, p
  <2> QED
    BY <1>5, <2>6, <2>7, <2>8
<1> QED
  BY <1>3, <1>4, <1>5, SMTT(60)

LEMMA PbsOneSpelling ==
  ASSUME NEW c \in PbsCommand, NEW d \in PbsCommand, pbs_parse_command(c), pbs_parse_command(d),
         pbs_build_path(c) # << >>, pbs_build_path(d) = pbs_build_path(c)
  PROVE  c = d
<1>1. c.clean = d.clean
  BY SMTT(60) DEF PbsCommand, pbs_parse_command
<1>2. c.op = d.op
  BY DEF pbs_build_path
<1>3. c.params = d.params
  <2>1. CASE PBS_OPS[c.op] = {}
    BY <1>2, <2>1, PbsParams
  <2>2. CASE PBS_OPS[c.op] # {}
    <3>1. pbs_param_value(c, "store") = pbs_param_value(d, "store")
      BY <1>2, <2>2, SMTT(60) DEF pbs_build_path
    <3> QED
      BY <1>2, <2>2, <3>1, PbsParams, SMTT(60)
  <2> QED
    BY <2>1, <2>2, SMTT(60)
<1> QED
  BY <1>1, <1>2, <1>3, SMTT(60) DEF PbsCommand

(* pbs_execute() sends what parses and what its allow list has a path for. *)
PbsSendable ==
    Sent /\ req.kind = "pbs" => pbs_parse_command(req.c) /\ pbs_build_path(req.c) # << >>

LEMMA PbsSendableInvariant == Spec => []PbsSendable
<1>1. Init => PbsSendable
  BY DEF Init, PbsSendable, Sent
<1>2. PbsSendable /\ [Next]_vars => PbsSendable'
  <2> SUFFICES ASSUME PbsSendable, [Next]_vars, Sent', req'.kind = "pbs"
               PROVE  pbs_parse_command(req'.c) /\ pbs_build_path(req'.c) # << >>
    BY DEF PbsSendable
  <2>1. ASSUME NEW mode \in {"enforced", "open", "policy"}, Request(mode)
        PROVE  pbs_parse_command(req'.c) /\ pbs_build_path(req'.c) # << >>
    <3>1. phase' = "sent"
      BY <2>1, SMTT(60) DEF Request, Sent
    <3>2. ~Unsendable("pbs", req'.c)
      BY <2>1, <3>1, SentPasses
    <3> QED
      BY <3>2, SMTT(60) DEF Unsendable
  <2>2. CASE UNCHANGED req /\ Sent
    BY <2>2 DEF PbsSendable
  <2> QED
    BY <2>1, <2>2
       DEF Next, vars, Sent, LoadDevice, LoadLinux, LoadWazuh, Start, Capture, Filter, ScrubAndSign, Answered
<1> QED
  BY <1>1, <1>2, PTL DEF Spec

(* Two accepted PBS or Zammad commands with the same effect are the same bytes, *)
(* for parameter lists and bodies of any length, and the encoding of a body    *)
(* passes the separator policy (pbs_parse_command(), zm_parse_command()).      *)
THEOREM OperationsHaveOneSpelling == Spec => []OneEncoding
<1>1. Requested /\ PbsSendable => OneEncoding
  <2> SUFFICES ASSUME Requested, PbsSendable PROVE OneEncoding
    OBVIOUS
  <2>1. ASSUME Sent, req.kind = "pbs", NEW d \in Commands["pbs"],
               pbs_parse_command(d), pbs_build_path(d) = pbs_build_path(req.c)
        PROVE  d = req.c
    <3>1. req.c \in PbsCommand /\ d \in PbsCommand
      BY <2>1, AsAsked, OperationInputs DEF Rewritten, CliKinds
    <3> QED
      BY <2>1, <3>1, PbsOneSpelling, SMTT(60) DEF PbsSendable
  <2>2. ASSUME req.kind = "zammad", req.c.write, zm_parse_command(req.c)
        PROVE  /\ ~Separated("zammad", req.c)
               /\ \A d \in Commands["zammad"] :
                    d.write => (zm_parse_command(d) /\ zm_article(d) = zm_article(req.c) => d = req.c)
    <3>1. req.c \in ZammadWrite
      BY <2>2, AsAsked, OperationInputs DEF Rewritten, CliKinds
    <3>2. ASSUME NEW d \in Commands["zammad"], d.write, zm_parse_command(d),
                 zm_article(d) = zm_article(req.c)
          PROVE  d = req.c
      <4>1. d \in ZammadWrite
        BY <3>2, OperationInputs
      <4> QED
        BY <2>2, <3>1, <3>2, <4>1, ZammadOneSpelling, SMTT(60)
    <3> QED
      BY <2>2, <3>2, ZammadUnseparated, SMTT(60)
  <2> QED
    BY <2>1, <2>2 DEF OneEncoding
<1> QED
  BY <1>1, RequestedInvariant, PbsSendableInvariant, PTL
-----------------------------------------------------------------------------
(* Induction over a sequence: the least place at which a claim fails. *)
LEMMA Least ==
  ASSUME NEW T, T \subseteq Nat, T # {}
  PROVE  \E n \in T : \A m \in T : n <= m
<1> DEFINE R == {ss \in Nat \X Nat : ss[1] < ss[2]}
<1>1. IsWellFoundedOn(R, Nat)
  BY NatLessThanWellFounded DEF OpToRel
<1>2. PICK n \in T : \A m \in T : ~(<<m, n>> \in R)
  BY <1>1, WFMin
<1>3. \A m \in T : ~(m < n)
  <2> SUFFICES ASSUME NEW m \in T, m < n PROVE FALSE
    OBVIOUS
  <2>1. <<m, n>> \in Nat \X Nat /\ <<m, n>>[1] < <<m, n>>[2]
    OBVIOUS
  <2>2. <<m, n>> \in R
    BY <2>1
  <2> QED
    BY <1>2, <2>2
<1>4. \A m \in T : n <= m
  BY <1>3, SMTT(60)
<1> QED
  BY <1>4

(* Every prefix of the recursion of Concat() is a function. *)
LEMMA UpTo ==
  ASSUME NEW ss, NEW n \in Nat
  PROVE  \E u : u = [i \in 0..n |-> IF i = 0 THEN <<>> ELSE u[i - 1] \o ss[i]]
<1> DEFINE Is(u, m) == u = [i \in 0..m |-> IF i = 0 THEN <<>> ELSE u[i - 1] \o ss[i]]
           T == {m \in Nat : ~\E u : Is(u, m)}
<1>1. SUFFICES ASSUME T # {} PROVE FALSE
  OBVIOUS
<1>2. PICK m \in T : \A k \in T : m <= k
  <2> HIDE DEF Is
  <2> QED
    BY <1>1, Least
<1>3. m # 0
  <2>1. Is([i \in 0..0 |-> <<>>], 0)
    BY SMTT(60)
  <2> QED
    BY <2>1
<1>4. m - 1 \in Nat /\ m - 1 \notin T
  <2> HIDE DEF Is
  <2>1. m \in Nat /\ m - 1 \in Nat /\ ~(m <= m - 1)
    BY <1>2, <1>3, SMTT(60)
  <2> QED
    BY <1>2, <2>1
<1>5. PICK u : Is(u, m - 1)
  <2> HIDE DEF Is
  <2> QED
    BY <1>4
<1> DEFINE w == [i \in 0..m |-> IF i = m THEN u[m - 1] \o ss[m] ELSE u[i]]
<1>6. \A i \in 0..(m - 1) : u[i] = IF i = 0 THEN <<>> ELSE u[i - 1] \o ss[i]
  BY <1>5
<1>7. \A i \in 0..m : w[i] = IF i = 0 THEN <<>> ELSE w[i - 1] \o ss[i]
  BY <1>3, <1>6, SMTT(60)
<1>8. Is(w, m)
  BY <1>7
<1> QED
  BY <1>2, <1>8

LEMMA Unrolled ==
  ASSUME NEW ss, Len(ss) \in Nat
  PROVE  \E u : /\ DOMAIN u = 0..Len(ss)
                /\ u[0] = <<>>
                /\ \A i \in 1..Len(ss) : u[i] = u[i - 1] \o ss[i]
                /\ Concat(ss) = u[Len(ss)]
<1> DEFINE u == CHOOSE u : u = [i \in 0..Len(ss) |-> IF i = 0 THEN <<>> ELSE u[i - 1] \o ss[i]]
<1>1. u = [i \in 0..Len(ss) |-> IF i = 0 THEN <<>> ELSE u[i - 1] \o ss[i]]
  BY UpTo
<1>2. Concat(ss) = u[Len(ss)]
  BY DEF Concat
<1> HIDE DEF u
<1>3. DOMAIN u = 0..Len(ss)
  BY <1>1
<1> DEFINE G(i) == IF i = 0 THEN <<>> ELSE u[i - 1] \o ss[i]
<1>4. \A i \in 0..Len(ss) : u[i] = G(i)
  <2>1. u = [i \in 0..Len(ss) |-> G(i)]
    BY <1>1
  <2> HIDE DEF G
  <2> QED
    BY <2>1
<1>5. u[0] = <<>>
  <2>1. 0 \in 0..Len(ss)
    BY SMTT(60)
  <2> QED
    BY <1>4, <2>1
<1>6. ASSUME NEW i \in 1..Len(ss) PROVE u[i] = u[i - 1] \o ss[i]
  <2>1. i \in 0..Len(ss) /\ i # 0
    BY SMTT(60)
  <2> QED
    BY <1>4, <2>1
<1> QED
  BY <1>2, <1>3, <1>5, <1>6

(* What Concat() returns: the elements of the sequences, none lost, those of a
   first or last sequence that is not empty at its ends. *)
LEMMA ConcatKeeps ==
  ASSUME NEW S, NEW ss \in Seq(Seq(S))
  PROVE  /\ Concat(ss) \in Seq(S)
         /\ \A i \in DOMAIN ss : \A k \in DOMAIN ss[i] : \E j \in DOMAIN Concat(ss) : Concat(ss)[j] = ss[i][k]
         /\ ss # <<>> /\ ss[1] # <<>> => Concat(ss) # <<>> /\ Concat(ss)[1] = ss[1][1]
         /\ LET last == ss[Len(ss)] IN
            ss # <<>> /\ last # <<>> => Concat(ss) # <<>> /\ Concat(ss)[Len(Concat(ss))] = last[Len(last)]
<1>1. PICK u : /\ u[0] = <<>>
               /\ \A i \in 1..Len(ss) : u[i] = u[i - 1] \o ss[i]
               /\ Concat(ss) = u[Len(ss)]
  <2>1. Len(ss) \in Nat
    BY SMTT(60)
  <2> QED
    BY <2>1, Unrolled
<1> DEFINE Sound(n) == /\ u[n] \in Seq(S)
                       /\ \A i \in 1..n : \A k \in DOMAIN ss[i] : \E j \in DOMAIN u[n] : u[n][j] = ss[i][k]
                       /\ n > 0 /\ ss[1] # <<>> => u[n] # <<>> /\ u[n][1] = ss[1][1]
           T == {n \in 0..Len(ss) : ~Sound(n)}
<1>2. Sound(0)
  BY <1>1, SMTT(60)
<1>3. ASSUME NEW n \in 1..Len(ss), Sound(n - 1)
      PROVE  Sound(n)
  <2> DEFINE p == u[n - 1]
             q == ss[n]
  <2>1. p \in Seq(S) /\ q \in Seq(S) /\ u[n] = p \o q
    <3>1. q \in Seq(S)
      BY SMTT(60)
    <3> QED
      BY <1>1, <1>3, <3>1
  <2>2. \A i \in 1..(n - 1) : \A k \in DOMAIN ss[i] : \E j \in DOMAIN p : p[j] = ss[i][k]
    BY <1>3
  <2>3. n - 1 > 0 /\ ss[1] # <<>> => p # <<>> /\ p[1] = ss[1][1]
    BY <1>3
  <2>4. n = 1 => p = <<>> 
    BY <1>1, SMTT(60)
  <2> HIDE DEF p, q
  <2>5. /\ u[n] \in Seq(S)
        /\ \A j \in DOMAIN p : j \in DOMAIN u[n] /\ u[n][j] = p[j]
        /\ \A k \in DOMAIN q : Len(p) + k \in DOMAIN u[n] /\ u[n][Len(p) + k] = q[k]
    BY <2>1, SMTT(60)
  <2>6. ASSUME NEW i \in 1..n, NEW k \in DOMAIN ss[i] PROVE \E j \in DOMAIN u[n] : u[n][j] = ss[i][k]
    <3>1. CASE i = n
      BY <2>5, <2>6, <3>1 DEF q
    <3>2. CASE i # n
      <4>1. i \in 1..(n - 1)
        BY <3>2, SMTT(60)
      <4> QED
        BY <2>2, <2>5, <2>6, <4>1
    <3> QED
      BY <3>1, <3>2
  <2>7. ASSUME ss[1] # <<>> PROVE u[n] # <<>> /\ u[n][1] = ss[1][1]
    <3>1. CASE n = 1
      <4>1. q \in Seq(S) /\ q # <<>> /\ u[n] = q
        BY <2>1, <2>4, <2>7, <3>1, SMTT(60) DEF q
      <4> QED
        BY <3>1, <4>1 DEF q
    <3>2. CASE n # 1
      <4>1. p # <<>> /\ p[1] = ss[1][1]
        BY <2>3, <2>7, <3>2, SMTT(60)
      <4> QED
        BY <2>1, <2>5, <4>1, SMTT(60)
    <3> QED
      BY <3>1, <3>2
  <2> QED
    BY <2>5, <2>6, <2>7
<1> HIDE DEF Sound
<1>4. T = {}
  <2>1. SUFFICES ASSUME T # {} PROVE FALSE
    OBVIOUS
  <2>2. PICK n \in T : \A m \in T : n <= m
    <3>1. T \subseteq Nat
      BY SMTT(60)
    <3> HIDE DEF T
    <3> QED
      BY <2>1, <3>1, Least
  <2>3. n \in 1..Len(ss) /\ n - 1 \in 0..Len(ss) /\ ~(n <= n - 1)
    BY <1>2, <2>2, SMTT(60)
  <2> QED
    BY <1>3, <2>2, <2>3
<1>5. Len(ss) \in 0..Len(ss)
  BY SMTT(60)
<1>6. Sound(Len(ss))
  BY <1>4, <1>5
<1>7. DOMAIN ss = 1..Len(ss) /\ (ss # <<>> => Len(ss) > 0)
  BY SMTT(60)
<1>8. ASSUME ss # <<>>, ss[Len(ss)] # <<>>
      PROVE  Concat(ss) # <<>> /\ Concat(ss)[Len(Concat(ss))] = ss[Len(ss)][Len(ss[Len(ss)])]
  <2> DEFINE n == Len(ss)
             p == u[n - 1]
             q == ss[n]
  <2>1. n \in 1..Len(ss) /\ n - 1 \in 0..Len(ss)
    BY <1>7, <1>8, SMTT(60)
  <2>2. Sound(n - 1)
    BY <1>4, <2>1
  <2>3. p \in Seq(S) /\ q \in Seq(S) /\ q # <<>> /\ Concat(ss) = p \o q
    <3>1. q \in Seq(S)
      BY <2>1, SMTT(60)
    <3> QED
      BY <1>1, <1>8, <2>1, <2>2, <3>1 DEF Sound
  <2> HIDE DEF p, q
  <2>4. Concat(ss) # <<>> /\ Concat(ss)[Len(Concat(ss))] = q[Len(q)]
    BY <2>3, SMTT(60)
  <2> QED
    BY <2>4 DEF q
<1> QED
  BY <1>1, <1>6, <1>7, <1>8, SMTT(60) DEF Sound

-----------------------------------------------------------------------------
(* What was sent has passed the gate and the driver's own tests, and the lists
   they read are those in force. *)
Passed ==
    Sent => /\ req.kind \in Rewritten \/ req.c \in Commands[req.kind]
            /\ req.mode = "policy" /\ req.kind \in CliKinds => ~req.c.lead
            /\ req.mode \in {"enforced", "open", "policy"}
            /\ MayRun(req.kind, req.c, req.mode) /\ ~Backstop(req.kind, req.c, req.mode)
            /\ ~Unsendable(req.kind, req.c)

LEMMA PassedInvariant == Spec => []Passed
<1>1. Init => Passed
  BY DEF Init, Passed, Sent
<1>2. Passed /\ [Next]_vars => Passed'
  <2> SUFFICES ASSUME Passed, [Next]_vars, Sent' PROVE Passed'
    BY DEF Passed
  <2>1. ASSUME NEW mode \in {"enforced", "open", "policy"}, Request(mode)
        PROVE  Passed'
    <3>1. phase' = "sent" /\ UNCHANGED <<prot, agents>>
      BY <2>1 DEF Request, Sent
    <3>2. /\ MayRun(req'.kind, req'.c, req'.mode) /\ ~Backstop(req'.kind, req'.c, req'.mode)
          /\ ~Unsendable(req'.kind, req'.c)
      BY <2>1, <3>1, SentPasses
    <3>3. /\ req'.kind \in Rewritten \/ req'.c \in Commands[req'.kind]
          /\ req'.mode = "policy" /\ req'.kind \in CliKinds => ~req'.c.lead
      BY <2>1, Asked
    <3>4. req'.mode \in {"enforced", "open", "policy"}
      BY <2>1, Asked
    <3> QED
      BY <3>1, <3>2, <3>3, <3>4, ZenonT(60) DEF Passed, MayRun, Classify, Backstop
  <2>2. CASE UNCHANGED <<req, prot, agents>> /\ Sent
    BY <2>2, ZenonT(60) DEF Passed, MayRun, Classify, Backstop
  <2> QED
    BY <2>1, <2>2, ZenonT(60)
       DEF Next, vars, Sent, LoadDevice, LoadLinux, LoadWazuh, Start, Capture, Filter, ScrubAndSign, Answered
<1> QED
  BY <1>1, <1>2, PTL DEF Spec

-----------------------------------------------------------------------------
(* Protected guests. *)
Configured == prot.vmids # {} => prot.configured

LEMMA ConfiguredInvariant == Spec => []Configured
<1>1. Init => Configured
  BY SMTT(60) DEF Init, Configured
<1>2. Configured /\ [Next]_vars => Configured'
  <2> SUFFICES ASSUME Configured, [Next]_vars PROVE Configured'
    OBVIOUS
  <2>1. UNCHANGED prot \/ \E S : prot' = [vmids |-> S, configured |-> TRUE]
    BY ZenonT(60) DEF Next, vars, LoadDevice, LoadLinux, LoadWazuh, Start, Request, Capture, Filter, ScrubAndSign, Answered
  <2> QED
    BY <2>1, SMTT(60) DEF Configured
<1> QED
  BY <1>1, <1>2, PTL DEF Spec

GuestTools == {"qm", "pct", "vzdump", "pvesh"}

LEMMA NamingTool ==
  ASSUME NEW tok, NamedGuests(tok) \cup ScopedNumbers(tok) # {}
  PROVE  Text(tok[1]) \in GuestTools
BY ZenonT(60) DEF NamedGuests, ScopedNumbers, GuestTools

LEMMA Scanned ==
  ASSUME NEW tok, NEW i, NEW n, NEW numeric_ok \in BOOLEAN,
         n \in Sids(FieldsFrom(tok, i)) \/ (numeric_ok /\ n \in Numbers(FieldsFrom(tok, i)))
  PROVE  \E j \in i..Len(tok) : n \in prox_scan_token_ids(tok[j], numeric_ok)
<1>1. PICK w \in FieldsFrom(tok, i) :
         (Len(w) <= 12 /\ n \in Sid(w)) \/ (numeric_ok /\ Len(w) <= 9 /\ n \in Number(w))
  BY DEF Sids, Numbers
<1>2. PICK j \in i..Len(tok) : tok[j].by \in {"", ","} /\ w \in Parts(tok[j])
  BY <1>1 DEF FieldsFrom
<1>3. /\ Len(w) <= 12 => Sid(w) = prox_sid_vmid(w)
      /\ Len(w) <= 9 => Number(w) = prox_vmid_digits(w)
  BY DEF prox_sid_vmid, prox_vmid_digits
<1>4. n \in prox_sid_vmid(w) \cup (IF numeric_ok THEN prox_vmid_digits(w) ELSE {})
  BY <1>1, <1>3
<1>5. w \in IF tok[j].by \in {"", ","} THEN Parts(tok[j]) ELSE {}
  BY <1>2
<1> QED
  BY <1>4, <1>5 DEF prox_scan_token_ids

LEMMA QmProtects ==
  ASSUME NEW tok, NEW pr, NEW n \in NamedGuests(tok) \cap pr.vmids, pr.configured,
         BareWord(tok[1]) = Text(tok[1]), Text(tok[1]) \in {"qm", "pct"}
  PROVE  linux_prox_self_protect(tok, pr) \in {"protected", "bad"}
<1> DEFINE first == IF Text(tok[1]) = "qm" /\ BareWord(tok[2]) = "guest" THEN 4 ELSE 3
<1>1. /\ Len(tok) >= 2 /\ BareWord(tok[2]) # "list"
      /\ n \in Numbers(FieldsFrom(tok, first)) \cup Sids(FieldsFrom(tok, first))
  BY ZenonT(60) DEF NamedGuests
<1>2. linux_prox_self_protect(tok, pr) = ProtectQm(tok, pr)
  BY <1>1, ZenonT(60) DEF linux_prox_self_protect
<1>3. PICK j \in first..Len(tok) : n \in prox_scan_token_ids(tok[j], TRUE)
  BY <1>1, Scanned
<1>4. \E i \in first..Len(tok) : IsProtected(pr, prox_scan_token_ids(tok[i], TRUE))
  BY <1>3 DEF IsProtected
<1>5. ProtectQm(tok, pr) \in {"protected", "bad"}
  BY <1>4, ZenonT(60) DEF ProtectQm
<1> QED
  BY <1>2, <1>5

LEMMA VzdumpProtects ==
  ASSUME NEW tok, NEW pr, NEW n \in NamedGuests(tok) \cap pr.vmids, pr.configured,
         BareWord(tok[1]) = Text(tok[1]), Text(tok[1]) = "vzdump"
  PROVE  linux_prox_self_protect(tok, pr) = "protected"
<1>1. n \in Numbers(FieldsFrom(tok, 2)) \cup Sids(FieldsFrom(tok, 2))
  BY ZenonT(60) DEF NamedGuests
<1>2. linux_prox_self_protect(tok, pr) = ProtectVzdump(tok, pr)
  BY ZenonT(60) DEF linux_prox_self_protect
<1>3. PICK j \in 2..Len(tok) : n \in prox_scan_token_ids(tok[j], TRUE)
  BY <1>1, Scanned
<1>4. IsProtected(pr, UNION {prox_scan_token_ids(tok[i], TRUE) : i \in 2..Len(tok)})
  BY <1>3 DEF IsProtected
<1>5. ProtectVzdump(tok, pr) = "protected"
  BY <1>4 DEF ProtectVzdump
<1> QED
  BY <1>2, <1>5

LEMMA TokenParts ==
  ASSUME NEW t \in Token
  PROVE  t.parts \in Seq(STRING) /\ t.parts # <<>> /\ (t.by = "" => Len(t.parts) = 1)
BY DEF Token

LEMMA PveshProtects ==
  ASSUME NEW tok \in Seq(Token), NEW pr, NEW n \in (NamedGuests(tok) \cup ScopedNumbers(tok)) \cap pr.vmids,
         pr.configured, BareWord(tok[1]) = Text(tok[1]), Text(tok[1]) = "pvesh"
  PROVE  linux_prox_self_protect(tok, pr) \in {"protected", "bad"}
<1> DEFINE segs == PathSegs(tok[3])
           next(i) == IF i < Len(segs) THEN prox_vmid_digits(segs[i + 1]) ELSE {}
           guests == {i \in DOMAIN segs : segs[i] \in {"qemu", "lxc"}}
           sids == UNION {prox_sid_vmid(segs[i]) : i \in DOMAIN segs}
           cluster_scope == tok[3].by = "/" /\ (StartsWith(segs[1], "cluster") \/ StartsWith(segs[1], "pools"))
           named == UNION {prox_scan_token_ids(tok[i], cluster_scope) : i \in 2..Len(tok)}
           scoped == tok[3].by = "/" /\ \E p \in {"cluster", "pools"} : StartsWith(tok[3].parts[1], p)
           Hit == \E i \in guests : IsProtected(pr, next(i)) /\ \A j \in guests : j < i => next(j) # {}
           Miss == \E i \in guests : next(i) = {} /\ \A j \in guests : j < i => ~IsProtected(pr, next(j))
<1>1. /\ Len(tok) >= 3
      /\ n \in NamedByPath(segs) \cup Sids(FieldsFrom(tok, 2))
               \cup (IF scoped THEN Numbers(FieldsFrom(tok, 2)) ELSE {})
  BY ZenonT(60) DEF NamedGuests, ScopedNumbers
<1>2. linux_prox_self_protect(tok, pr) = ProtectPvesh(tok, pr)
  BY <1>1, ZenonT(60) DEF linux_prox_self_protect
<1>3. Len(segs) \in Nat /\ DOMAIN segs = 1..Len(segs) /\ (scoped <=> cluster_scope)
  <2>1. tok[3] \in Token
    BY <1>1, SMTT(60)
  <2>2. tok[3].parts \in Seq(STRING) /\ tok[3].parts # <<>>
    BY <2>1, TokenParts, ZenonT(60)
  <2>3. segs = tok[3].parts \/ (segs = <<Text(tok[3])>> /\ tok[3].by # "/")
    BY DEF PathSegs
  <2>4. tok[3].by = "/" => segs = tok[3].parts
    BY <2>3
  <2>5. scoped <=> cluster_scope
    BY <2>4
  <2> HIDE DEF segs, scoped, cluster_scope
  <2> QED
    BY <2>2, <2>3, <2>5, SMTT(60)
<1>4. CASE IsProtected(pr, sids \cup named)
  <2> HIDE DEF sids, named, guests, next, Hit, Miss
  <2>1. ProtectPvesh(tok, pr) \in {"protected", "bad"}
    BY <1>4, ZenonT(60) DEF ProtectPvesh, sids, named, guests, next
  <2> QED
    BY <1>2, <2>1
<1>5. CASE \E i \in guests : n \in next(i)
  <2> DEFINE T == {i \in guests : next(i) = {} \/ IsProtected(pr, next(i))}
  <2>1. T \subseteq Nat /\ T # {}
    <3>1. PICK i \in guests : n \in next(i)
      BY <1>5
    <3>2. IsProtected(pr, next(i)) /\ guests \subseteq Nat
      BY <1>3, <3>1, SMTT(60) DEF IsProtected
    <3> QED
      BY <3>1, <3>2, SMTT(60)
  <2>2. PICK i \in T : \A j \in T : i <= j
    <3> HIDE DEF T
    <3> QED
      BY <2>1, Least
  <2> HIDE DEF next
  <2>3. \A j \in guests : j < i => j \notin T
    <3>1. guests \subseteq Nat
      BY <1>3, SMTT(60)
    <3> HIDE DEF guests
    <3> QED
      BY <2>1, <2>2, <3>1, SMTT(60)
  <2> HIDE DEF guests
  <2>4. Hit \/ Miss
    BY <2>2, <2>3, ZenonT(60)
  <2>5. ProtectPvesh(tok, pr) \in {"protected", "bad"}
    <3>1. ProtectPvesh(tok, pr) = CASE Hit -> "protected" [] Miss -> "bad"
             [] OTHER -> IF IsProtected(pr, sids \cup named) THEN "protected"
                         ELSE Verdict(pr, guests # {}
                              \/ sids \cup UNION {prox_scan_token_ids(tok[k], FALSE) : k \in 2..Len(tok)} # {})
      BY ZenonT(60) DEF ProtectPvesh, guests, next
    <3> HIDE DEF Hit, Miss
    <3> QED
      BY <2>4, <3>1, ZenonT(60)
  <2> QED
    BY <1>2, <2>5, SMTT(60)
<1>6. CASE n \in NamedByPath(segs)
  <2>1. CASE n \in Sids(Range(segs))
    <3>1. PICK w \in Range(segs) : Len(w) <= 12 /\ n \in Sid(w)
      BY <2>1 DEF Sids
    <3>2. PICK i \in DOMAIN segs : segs[i] = w
      BY <3>1 DEF Range
    <3>3. n \in prox_sid_vmid(segs[i])
      BY <3>1, <3>2 DEF prox_sid_vmid
    <3>4. n \in sids
      BY <3>3
    <3> QED
      BY <1>4, <3>4 DEF IsProtected
  <2>2. CASE \E i \in 2..Len(segs) : segs[i - 1] \in {"qemu", "lxc"} /\ n \in Numbers({segs[i]})
    <3>1. PICK i \in 2..Len(segs) : segs[i - 1] \in {"qemu", "lxc"} /\ n \in Numbers({segs[i]})
      BY <2>2
    <3>2. n \in prox_vmid_digits(segs[i])
      BY <3>1 DEF Numbers, prox_vmid_digits
    <3>3. i - 1 \in DOMAIN segs /\ i - 1 < Len(segs) /\ (i - 1) + 1 = i
      BY <1>3, SMTT(60)
    <3> HIDE DEF segs
    <3>4. i - 1 \in guests /\ n \in next(i - 1)
      BY <3>1, <3>2, <3>3, SMTT(60)
    <3> QED
      BY <1>5, <3>4, SMTT(60)
  <2> QED
    BY <1>6, <2>1, <2>2 DEF NamedByPath
<1>7. CASE n \in Sids(FieldsFrom(tok, 2)) \/ (scoped /\ n \in Numbers(FieldsFrom(tok, 2)))
  <2>1. cluster_scope \in BOOLEAN
    OBVIOUS
  <2>2. PICK j \in 2..Len(tok) : n \in prox_scan_token_ids(tok[j], cluster_scope)
    <3> HIDE DEF cluster_scope, scoped
    <3> QED
      BY <1>3, <1>7, <2>1, Scanned
  <2>3. n \in named
    BY <2>2
  <2> QED
    BY <1>4, <2>3 DEF IsProtected
<1> QED
  BY <1>1, <1>6, <1>7

LEMMA NamedIsGuarded ==
  ASSUME NEW tok \in Seq(Token), NEW pr, NEW n \in (NamedGuests(tok) \cup ScopedNumbers(tok)) \cap pr.vmids,
         pr.configured, BareWord(tok[1]) = Text(tok[1])
  PROVE  linux_prox_self_protect(tok, pr) \in {"protected", "bad"}
<1>1. Text(tok[1]) \in GuestTools /\ (Text(tok[1]) # "pvesh" => n \in NamedGuests(tok))
  BY NamingTool DEF ScopedNumbers
<1> QED
  BY <1>1, QmProtects, VzdumpProtects, PveshProtects DEF GuestTools

LEMMA BareText ==
  ASSUME NEW t
  PROVE  /\ t.form = "bare" => BareWord(t) = Text(t)
         /\ BareWord(t) # "" => BareWord(t) = Text(t) /\ t.form = "bare"
BY DEF BareWord

GreenWords == {"systemctl", "df", "uptime", "uname", "cat", "/opt/virp/build/virp-tool"}

LEMMA ExactGreenWord ==
  ASSUME NEW tok \in Seq(Token), tok # <<>>, ExactGreen(tok)
  PROVE  BareWord(tok[1]) \in GreenWords
<1>1. PICK line \in LINUX_GREEN_EXACT : Len(line) = Len(tok) /\ \A i \in DOMAIN tok : BareWord(tok[i]) = line[i]
  BY DEF ExactGreen
<1>2. BareWord(tok[1]) = line[1]
  BY <1>1, SMTT(60)
<1>3. line[1] \in GreenWords
  BY <1>1, SMTT(60) DEF LINUX_GREEN_EXACT, GreenWords
<1> QED
  BY <1>2, <1>3

(* Where a line ends that the guard holds. *)
LEMMA GuardedIsRefused ==
  ASSUME NEW c \in Commands["linux"], NEW mode \in {"enforced", "open"}, MayRun("linux", c, mode),
         c.segs[1] # <<>>, Text(c.segs[1][1]) \in GuestTools,
         BareWord(c.segs[1][1]) = Text(c.segs[1][1]) =>
            linux_prox_self_protect(c.segs[1], prot) \in {"protected", "bad", "unconfigured"}
  PROVE  /\ mode = "open"
         /\ \/ ~linux_prox_tokenize(c.segs[1]) \/ c.segs[1][1].form # "bare"
            \/ linux_prox_self_protect(c.segs[1], prot) \in {"bad", "unconfigured"}
<1> DEFINE tok == c.segs[1]
           tier == linux_gate_classify(c, prot)
<1>1. ~c.meta /\ Len(c.segs) = 1
  BY ZenonT(60) DEF MayRun, Separated
<1>2. tier # "BLACK" /\ (tier = "RED" => mode = "open")
  <2>1. Classify("linux", c) = tier /\ mode # "policy"
    BY DEF Classify
  <2> HIDE DEF tier
  <2> QED
    BY <2>1 DEF MayRun
<1>3. tok \in Seq(Token)
  <2>1. c.segs \in Seq(Seq(Token))
    BY InputsAssumption
  <2> QED
    BY <1>1, <2>1, SMTT(60)
<1>5. ~linux_black_self_harm(c)
  BY <1>2 DEF linux_gate_classify
<1>6. BareWord(tok[1]) # "vtysh" /\ ~ExactGreen(tok)
  <2>1. BareWord(tok[1]) = Text(tok[1]) \/ BareWord(tok[1]) = ""
    BY BareText
  <2>2. \A w \in GreenWords \cup {"vtysh"} : w # "" /\ w \notin GuestTools
    BY DEF GreenWords, GuestTools
  <2> QED
    BY <1>3, <2>1, <2>2, ExactGreenWord
<1>7. CASE BareWord(tok[1]) \in LINUX_PROX_TOOLS
  <2>1. BareWord(tok[1]) = Text(tok[1])
    BY <1>7, BareText DEF LINUX_PROX_TOOLS
  <2>2. linux_prox_self_protect(tok, prot) \in {"protected", "bad", "unconfigured"}
    BY <2>1
  <2>3. tier = linux_prox_classify(tok, prot)
    BY <1>1, <1>5, <1>6, <1>7 DEF linux_gate_classify
  <2>4. CASE ~linux_prox_tokenize(tok) \/ linux_prox_self_protect(tok, prot) \in {"bad", "unconfigured"}
    <3>1. tier = "RED"
      BY <2>3, <2>4 DEF linux_prox_classify
    <3> QED
      BY <1>2, <2>4, <3>1
  <2>5. CASE linux_prox_tokenize(tok) /\ linux_prox_self_protect(tok, prot) = "protected"
    <3>1. tier = "BLACK"
      BY <2>3, <2>5 DEF linux_prox_classify
    <3> QED
      BY <1>2, <3>1
  <2> QED
    BY <2>2, <2>4, <2>5
<1>8. CASE BareWord(tok[1]) \notin LINUX_PROX_TOOLS
  <2>1. tier = "RED"
    BY <1>1, <1>5, <1>6, <1>8 DEF linux_gate_classify
  <2>2. tok[1].form # "bare"
    BY <1>8, BareText DEF LINUX_PROX_TOOLS, GuestTools
  <2> QED
    BY <1>2, <2>1, <2>2
<1> QED
  BY <1>7, <1>8

LEMMA TripleIs ==
  ASSUME NEW A, NEW B, NEW C, NEW f \in A \X B \X C
  PROVE  DOMAIN f = 1..3 /\ f[1] \in A /\ f[2] \in B /\ f[3] \in C
BY SMTT(60)

LEMMA PlainToken ==
  ASSUME NEW t \in Token, BareWord(t) # ""
  PROVE  /\ t.form = "bare" /\ t.by = "" /\ Text(t) = BareWord(t)
         /\ BareWord(t) \notin OddWord => Parts(t) \cap OddWord = {}
<1>1. t.form = "bare" /\ Text(t) = BareWord(t)
  BY BareText
<1>2. t.by = "" /\ Text(t) = t.parts[1]
  BY <1>1 DEF Text
<1>3. t.parts \in Seq(STRING) /\ Len(t.parts) = 1
  BY <1>2, TokenParts
<1>4. DOMAIN t.parts = {1}
  BY <1>3, SeqOne
<1>5. Parts(t) = {t.parts[1]}
  BY <1>4 DEF Parts, Range
<1> QED
  BY <1>1, <1>2, <1>5

(* The guest operations of the policy are lines that the guard can read. *)
LEMMA GuestLine ==
  ASSUME NEW tok \in Seq(Token), NEW n \in Vmids, n <= MaxVmid,
         [i \in DOMAIN tok |-> BareWord(tok[i])]
            \in {"qm", "pct"} \X {"status", "reboot", "destroy", "start"} \X {ToString(n)}
  PROVE  /\ BareWord(tok[1]) \in {"qm", "pct"} /\ tok # <<>>
         /\ linux_prox_tokenize(tok) /\ linux_prox_self_protect(tok, prot) # "bad"
<1> DEFINE f == [i \in DOMAIN tok |-> BareWord(tok[i])]
           T == {"qm", "pct"}
           V == {"status", "reboot", "destroy", "start"}
           d == ToString(n)
<1>1. DOMAIN tok = 1..3 /\ BareWord(tok[1]) \in T /\ BareWord(tok[2]) \in V /\ BareWord(tok[3]) = d
  <2>1. f \in T \X V \X {d} /\ DOMAIN f = DOMAIN tok /\ \A i \in DOMAIN tok : f[i] = BareWord(tok[i])
    OBVIOUS
  <2> HIDE DEF f, T, V, d
  <2>2. DOMAIN f = 1..3 /\ f[1] \in T /\ f[2] \in V /\ f[3] \in {d}
    BY <2>1, SMTT(60)
  <2>3. 1 \in 1..3 /\ 2 \in 1..3 /\ 3 \in 1..3
    BY SMTT(60)
  <2> QED
    BY <2>1, <2>2, <2>3
<1>2. Len(tok) = 3 /\ tok # <<>> /\ \A i \in DOMAIN tok : tok[i] \in Token /\ (i = 1 \/ i = 2 \/ i = 3)
  <2>1. DOMAIN tok = 1..3
    BY <1>1
  <2> QED
    BY <2>1, SMTT(60)
<1>3. d \notin OddWord \cup {""} /\ Len(d) <= 9
  BY InputsAssumption
<1>4. \A w \in T \cup V \cup {d} : w # "" /\ w \notin OddWord
  BY <1>3 DEF OddWord
<1>5. 1 \in DOMAIN tok /\ 2 \in DOMAIN tok /\ 3 \in DOMAIN tok
  <2>1. DOMAIN tok = 1..3
    BY <1>1
  <2> QED
    BY <2>1, SMTT(60)
<1>6. ASSUME NEW i \in DOMAIN tok
      PROVE  tok[i].form = "bare" /\ tok[i].by = "" /\ Text(tok[i]) = BareWord(tok[i]) /\ Parts(tok[i]) \cap OddWord = {}
  <2>1. BareWord(tok[i]) \in T \cup V \cup {d} /\ tok[i] \in Token
    BY <1>1, <1>2
  <2>2. BareWord(tok[i]) # "" /\ BareWord(tok[i]) \notin OddWord
    BY <1>4, <2>1
  <2> QED
    BY <2>1, <2>2, PlainToken
<1>7. linux_prox_tokenize(tok)
  <2>1. Len(tok) <= MaxTok
    <3>1. MaxTok \in Nat /\ MaxTok >= 3
      BY InputsAssumption
    <3> QED
      BY <1>2, <3>1, SMTT(60)
  <2> QED
    BY <1>6, <2>1 DEF linux_prox_tokenize
<1>8. n \in prox_parse_vmid(tok[3])
  <2>1. n \in Number(d)
    BY DEF Number, Spellings
  <2>2. n \in prox_vmid_digits(d)
    BY <1>3, <2>1 DEF prox_vmid_digits
  <2> QED
    BY <1>1, <1>5, <1>6, <2>2 DEF prox_parse_vmid
<1>9. ~(Len(tok) < 3) /\ Len(tok) >= 2
  BY <1>2, SMTT(60)
<1>10. BareWord(tok[2]) # "guest" /\ BareWord(tok[2]) # "list"
  BY <1>1
<1>11. linux_prox_self_protect(tok, prot) = ProtectQm(tok, prot)
  BY <1>1, <1>9, <1>10 DEF linux_prox_self_protect
<1>12. ProtectQm(tok, prot) # "bad"
  <2>1. ProtectQm(tok, prot) \in {"protected", Verdict(prot, TRUE)}
    BY <1>8, <1>9, <1>10 DEF ProtectQm
  <2>2. Verdict(prot, TRUE) # "bad"
    BY DEF Verdict
  <2> QED
    BY <2>1, <2>2
<1> QED
  BY <1>1, <1>2, <1>7, <1>11, <1>12

(* What the policy grants names no protected guest, or the driver's own test
   refuses it. *)
LEMMA GrantedIsRefused ==
  ASSUME NEW c \in Commands["linux"], MayRun("linux", c, "policy"), ~Backstop("linux", c, "policy"),
         c.segs[1] # <<>>, prot.configured,
         NEW n \in (NamedGuests(c.segs[1]) \cup ScopedNumbers(c.segs[1])) \cap prot.vmids
  PROVE  FALSE
<1> DEFINE tok == c.segs[1]
           ws == [i \in DOMAIN tok |-> BareWord(tok[i])]
<1>1. ~c.meta /\ Len(c.segs) = 1
  BY ZenonT(60) DEF MayRun, Separated
<1>2. tok \in Seq(Token) /\ 1 \in DOMAIN tok
  <2>1. c.segs \in Seq(Seq(Token))
    BY InputsAssumption
  <2> QED
    BY <1>1, <2>1, SMTT(60)
<1>3. SystemRead("linux", c) \/ HostReboot("linux", c) \/ GuestOperation("linux", c)
  BY DEF MayRun, virp_policy_classify, PortOperation
<1>4. Text(tok[1]) \in GuestTools
  BY NamingTool
<1>5. ~IsLine(c, HostReads \cup HostReboots)
  <2>1. SUFFICES ASSUME ws \in HostReads \cup HostReboots PROVE FALSE
    BY DEF IsLine
  <2>2. ws[1] = BareWord(tok[1])
    BY <1>2
  <2> HIDE DEF ws
  <2>3. ws[1] \in {"uptime", "hostname", "uname", "reboot", "systemctl"}
    <3>1. \A w \in HostReads \cup HostReboots : w[1] \in {"uptime", "hostname", "uname", "reboot", "systemctl"}
      BY SMTT(60) DEF HostReads, HostReboots
    <3> QED
      BY <2>1, <3>1
  <2>4. Text(tok[1]) = BareWord(tok[1])
    BY <2>2, <2>3, BareText
  <2> QED
    BY <1>4, <2>2, <2>3, <2>4 DEF GuestTools
<1>6. ~SystemRead("linux", c) /\ ~HostReboot("linux", c)
  BY <1>5 DEF SystemRead, HostReboot, IsLine, CliKinds, Reboots
<1>7. PICK m \in Vmids : m <= MaxVmid
         /\ IsLine(c, {"qm", "pct"} \X {"status", "reboot", "destroy", "start"} \X {ToString(m)})
  BY <1>3, <1>6 DEF GuestOperation
<1>8. /\ BareWord(tok[1]) \in {"qm", "pct"} /\ linux_prox_tokenize(tok)
      /\ linux_prox_self_protect(tok, prot) # "bad"
  BY <1>2, <1>7, GuestLine DEF IsLine
<1>9. linux_prox_self_protect(tok, prot) = "protected"
  <2>1. BareWord(tok[1]) = Text(tok[1])
    BY <1>8, BareText
  <2> QED
    BY <1>2, <1>8, <2>1, NamedIsGuarded
<1>10. linux_prox_classify(tok, prot) = "BLACK"
  BY <1>8, <1>9 DEF linux_prox_classify
<1>11. linux_gate_classify(c, prot) = "BLACK"
  <2>1. BareWord(tok[1]) # "vtysh" /\ BareWord(tok[1]) \in LINUX_PROX_TOOLS
    BY <1>8 DEF LINUX_PROX_TOOLS
  <2> QED
    BY <1>1, <1>10, <2>1 DEF linux_gate_classify
<1> QED
  BY <1>6, <1>11 DEF Backstop, virp_policy_reboot_permitted

(* For lines of any length and any protected set: neither a Linux line that    *)
(* names a protected guest, in up to nine digits and outside --flag=value, nor *)
(* a Wazuh request that names a protected agent is sent, whatever an owner     *)
(* policy grants; with an approval, unless the classifier could not read the   *)
(* line.                                                                       *)
THEOREM ProtectedStayHome == Spec => []ProtectedNeverSent
<1>1. Passed /\ Configured /\ AgentsNeverNamed => ProtectedNeverSent
  <2> DEFINE tok == req.c.segs[1]
             named == (NamedGuests(tok) \cup ScopedNumbers(tok)) \cap prot.vmids
  <2> SUFFICES ASSUME Passed, Configured, AgentsNeverNamed, Sent, req.kind = "linux", tok # <<>>, named # {}
               PROVE  /\ req.mode = "open"
                      /\ \/ ~linux_prox_tokenize(tok) \/ tok[1].form # "bare"
                         \/ linux_prox_self_protect(tok, prot) = "bad"
    BY DEF ProtectedNeverSent, AgentsNeverNamed
  <2>1. /\ req.c \in Commands["linux"] /\ MayRun("linux", req.c, req.mode) /\ ~Backstop("linux", req.c, req.mode)
        /\ req.mode \in {"enforced", "open", "policy"}
    BY DEF Passed, Rewritten, CliKinds
  <2>2. prot.configured
    BY DEF Configured
  <2>3. PICK n : n \in named
    OBVIOUS
  <2>4. req.mode # "policy"
    BY <2>1, <2>2, <2>3, GrantedIsRefused
  <2>5. Text(tok[1]) \in GuestTools /\ tok \in Seq(Token)
    <3>1. Text(tok[1]) \in GuestTools
      BY <2>3, NamingTool
    <3>2. req.c.segs \in Seq(Seq(Token)) /\ Len(req.c.segs) = 1
      BY <2>1, InputsAssumption, ZenonT(60) DEF MayRun, Separated
    <3>3. tok \in Seq(Token)
      BY <3>2, SMTT(60)
    <3> QED
      BY <3>1, <3>3
  <2>6. BareWord(tok[1]) = Text(tok[1]) => linux_prox_self_protect(tok, prot) \in {"protected", "bad"}
    BY <2>2, <2>3, <2>5, NamedIsGuarded
  <2>7. /\ req.mode = "open"
        /\ \/ ~linux_prox_tokenize(tok) \/ tok[1].form # "bare"
           \/ linux_prox_self_protect(tok, prot) \in {"bad", "unconfigured"}
    BY <2>1, <2>4, <2>5, <2>6, GuardedIsRefused
  <2> QED
    BY <2>6, <2>7, BareText
<1> QED
  BY <1>1, PassedInvariant, ConfiguredInvariant, AgentsStayProtected, PTL

(* Without a protected set the guard holds every line that names a guest. *)
LEMMA UnknownIsGuarded ==
  ASSUME NEW tok \in Seq(Token), NEW pr, NEW n \in NamedGuests(tok), ~pr.configured,
         BareWord(tok[1]) = Text(tok[1])
  PROVE  linux_prox_self_protect(tok, pr) \in {"bad", "unconfigured"}
<1>0. \A ids : ~IsProtected(pr, ids)
  BY DEF IsProtected
<1>1. Verdict(pr, TRUE) = "unconfigured"
  BY DEF Verdict
<1>2. CASE Text(tok[1]) \in {"qm", "pct"}
  <2>1. Len(tok) >= 2 /\ BareWord(tok[2]) # "list"
    BY <1>2, ZenonT(60) DEF NamedGuests
  <2>2. linux_prox_self_protect(tok, pr) = ProtectQm(tok, pr)
    BY <1>2, <2>1, ZenonT(60) DEF linux_prox_self_protect
  <2>3. ProtectQm(tok, pr) \in {"bad", Verdict(pr, TRUE)}
    BY <1>0, ZenonT(60) DEF ProtectQm
  <2> QED
    BY <1>1, <2>2, <2>3
<1>3. CASE Text(tok[1]) = "vzdump"
  <2> DEFINE named == UNION {prox_scan_token_ids(tok[i], TRUE) : i \in 2..Len(tok)}
  <2>1. n \in Numbers(FieldsFrom(tok, 2)) \cup Sids(FieldsFrom(tok, 2))
    BY <1>3, ZenonT(60) DEF NamedGuests
  <2>2. linux_prox_self_protect(tok, pr) = ProtectVzdump(tok, pr)
    BY <1>3, ZenonT(60) DEF linux_prox_self_protect
  <2>3. PICK j \in 2..Len(tok) : n \in prox_scan_token_ids(tok[j], TRUE)
    BY <2>1, Scanned
  <2>4. (named # {}) = TRUE
    BY <2>3
  <2>5. ProtectVzdump(tok, pr) = Verdict(pr, named # {})
    BY <1>0 DEF ProtectVzdump
  <2> HIDE DEF named
  <2> QED
    BY <1>1, <2>2, <2>4, <2>5
<1>4. CASE Text(tok[1]) = "pvesh"
  <2> DEFINE segs == PathSegs(tok[3])
             next(i) == IF i < Len(segs) THEN prox_vmid_digits(segs[i + 1]) ELSE {}
             guests == {i \in DOMAIN segs : segs[i] \in {"qemu", "lxc"}}
             sids == UNION {prox_sid_vmid(segs[i]) : i \in DOMAIN segs}
             named_sid == UNION {prox_scan_token_ids(tok[i], FALSE) : i \in 2..Len(tok)}
             saw == guests # {} \/ sids \cup named_sid # {}
  <2>1. Len(tok) >= 3 /\ n \in NamedByPath(segs) \cup Sids(FieldsFrom(tok, 2))
    BY <1>4, ZenonT(60) DEF NamedGuests
  <2>2. linux_prox_self_protect(tok, pr) = ProtectPvesh(tok, pr)
    BY <1>4, <2>1, ZenonT(60) DEF linux_prox_self_protect
  <2>3. saw
    <3>1. CASE n \in Sids(FieldsFrom(tok, 2))
      <4>1. PICK j \in 2..Len(tok) : n \in prox_scan_token_ids(tok[j], FALSE)
        BY <3>1, Scanned
      <4>2. n \in named_sid
        BY <4>1
      <4> QED
        BY <4>2
    <3>2. CASE n \in Sids(Range(segs))
      <4>1. PICK w \in Range(segs) : Len(w) <= 12 /\ n \in Sid(w)
        BY <3>2 DEF Sids
      <4>2. PICK i \in DOMAIN segs : segs[i] = w
        BY <4>1 DEF Range
      <4>3. n \in sids
        BY <4>1, <4>2 DEF prox_sid_vmid
      <4> QED
        BY <4>3
    <3>3. CASE \E i \in 2..Len(segs) : segs[i - 1] \in {"qemu", "lxc"}
      <4>1. PICK i \in 2..Len(segs) : segs[i - 1] \in {"qemu", "lxc"}
        BY <3>3
      <4>2. i - 1 \in DOMAIN segs
        <5>1. tok[3] \in Token
          BY <2>1, SMTT(60)
        <5>2. tok[3].parts \in Seq(STRING)
          BY <5>1, TokenParts
        <5>3. segs = tok[3].parts \/ segs = <<Text(tok[3])>>
          BY DEF PathSegs
        <5> HIDE DEF segs
        <5> QED
          BY <5>2, <5>3, SMTT(60)
      <4>3. i - 1 \in guests
        BY <4>1, <4>2
      <4> QED
        BY <4>3
    <3> QED
      BY <2>1, <3>1, <3>2, <3>3 DEF NamedByPath
  <2>4. ProtectPvesh(tok, pr) \in {"bad", Verdict(pr, saw)}
    <3> HIDE DEF saw
    <3>1. \/ ProtectPvesh(tok, pr) = "bad"
          \/ ProtectPvesh(tok, pr) = Verdict(pr, saw)
      BY <1>0, ZenonT(60) DEF ProtectPvesh, saw
    <3> QED
      BY <3>1
  <2>5. saw = TRUE
    BY <2>3
  <2> HIDE DEF saw
  <2> QED
    BY <1>1, <2>2, <2>4, <2>5
<1>5. Text(tok[1]) \in GuestTools
  BY NamingTool
<1> QED
  BY <1>2, <1>3, <1>4, <1>5 DEF GuestTools

(* While no protected set is in force an enforcing node sends no line that     *)
(* names a guest, for lines of any length: what linux_prox_self_protect()      *)
(* cannot compare with a set is RED.                                           *)
THEOREM UnlistedIsRefused == Spec => []UnconfiguredRefuses
<1>1. Passed => UnconfiguredRefuses
  <2> DEFINE tok == req.c.segs[1]
  <2> SUFFICES ASSUME Passed, Sent, req.kind = "linux", req.mode = "enforced", ~prot.configured, tok # <<>>,
                      NamedGuests(tok) # {}
               PROVE  FALSE
    BY DEF UnconfiguredRefuses
  <2>1. req.c \in Commands["linux"] /\ MayRun("linux", req.c, "enforced")
    BY DEF Passed, Rewritten, CliKinds
  <2>2. PICK n : n \in NamedGuests(tok)
    OBVIOUS
  <2>3. Text(tok[1]) \in GuestTools
    BY <2>2, NamingTool
  <2>4. req.c.segs \in Seq(Seq(Token)) /\ Len(req.c.segs) = 1
    BY <2>1, InputsAssumption, ZenonT(60) DEF MayRun, Separated
  <2>5. tok \in Seq(Token)
    BY <2>4, SMTT(60)
  <2>6. BareWord(tok[1]) = Text(tok[1]) => linux_prox_self_protect(tok, prot) \in {"bad", "unconfigured"}
    BY <2>2, <2>5, UnknownIsGuarded
  <2>7. "enforced" = "open"
    BY <2>1, <2>3, <2>6, GuardedIsRefused
  <2> QED
    BY <2>7
<1> QED
  BY <1>1, PassedInvariant, PTL

-----------------------------------------------------------------------------
(* The never tier. *)
Piece(t, j) == [t EXCEPT !.parts = <<@[j]>>, !.by = ""]
Pieces(t) == IF t.by = " " THEN [j \in DOMAIN t.parts |-> Piece(t, j)] ELSE <<t>>

LEMMA PieceText ==
  ASSUME NEW t \in Token, NEW j \in DOMAIN t.parts
  PROVE  /\ Piece(t, j).by = "" /\ Text(Piece(t, j)) = t.parts[j]
         /\ linux_tok_basename(Piece(t, j)) = t.parts[j]
<1>1. DOMAIN t = {"parts", "by", "form"}
  BY DEF Token
<1>2. Piece(t, j).by = "" /\ Piece(t, j).parts = <<t.parts[j]>>
  BY <1>1 DEF Piece
<1>3. Text(Piece(t, j)) = t.parts[j]
  <2>1. Text(Piece(t, j)) = Piece(t, j).parts[1]
    BY <1>2 DEF Text
  <2> HIDE DEF Piece
  <2>2. <<t.parts[j]>>[1] = t.parts[j]
    OBVIOUS
  <2> QED
    BY <1>2, <2>1, <2>2
<1>4. "" # "/"
  OBVIOUS
<1> QED
  BY <1>2, <1>3, <1>4 DEF linux_tok_basename

(* What the scan walks over: every token, or every word of one with blanks. *)
LEMMA RawWordsAre ==
  ASSUME NEW seg \in Seq(Token), seg # <<>>
  PROVE  /\ RawWords(seg) # <<>> /\ Len(RawWords(seg)) \in Nat /\ DOMAIN RawWords(seg) = 1..Len(RawWords(seg))
         /\ RawWords(seg)[1] = Pieces(seg[1])[1]
         /\ \A i \in DOMAIN seg : \A k \in DOMAIN Pieces(seg[i]) :
               \E j \in DOMAIN RawWords(seg) : RawWords(seg)[j] = Pieces(seg[i])[k]
<1> DEFINE ss == [i \in DOMAIN seg |-> Pieces(seg[i])]
           S == UNION {{Pieces(seg[i])[k] : k \in DOMAIN Pieces(seg[i])} : i \in DOMAIN seg}
<1>1. RawWords(seg) = Concat(ss)
  BY DEF RawWords, Pieces, Piece
<1>2. ASSUME NEW t \in Token
      PROVE  /\ Len(Pieces(t)) \in Nat /\ DOMAIN Pieces(t) = 1..Len(Pieces(t)) /\ Len(Pieces(t)) > 0
             /\ Pieces(t) # <<>> /\ Pieces(t) \in Seq({Pieces(t)[k] : k \in DOMAIN Pieces(t)})
  <2>1. t.parts \in Seq(STRING) /\ t.parts # <<>>
    BY TokenParts
  <2>2. \/ Pieces(t) = [j \in DOMAIN t.parts |-> Piece(t, j)]
        \/ Pieces(t) = <<t>>
    BY DEF Pieces
  <2> HIDE DEF Pieces, Piece
  <2>3. PICK n \in Nat : n > 0 /\ Pieces(t) = [k \in 1..n |-> Pieces(t)[k]]
    <3>1. CASE Pieces(t) = [j \in DOMAIN t.parts |-> Piece(t, j)]
      <4>1. Len(t.parts) \in Nat /\ Len(t.parts) > 0 /\ DOMAIN t.parts = 1..Len(t.parts)
        BY <2>1, SMTT(60)
      <4> QED
        BY <3>1, <4>1
    <3>2. CASE Pieces(t) = <<t>>
      <4>1. Pieces(t) = [k \in 1..1 |-> Pieces(t)[k]]
        BY <3>2, SMTT(60)
      <4> QED
        BY <4>1, SMTT(60)
    <3> QED
      BY <2>2, <3>1, <3>2
  <2> DEFINE p == Pieces(t)
             R == {p[k] : k \in DOMAIN p}
  <2>4. DOMAIN p = 1..n /\ p = [k \in 1..n |-> p[k]] /\ \A k \in 1..n : p[k] \in R
    BY <2>3
  <2> HIDE DEF p, R
  <2>5. p \in Seq(R) /\ Len(p) = n
    BY <2>3, <2>4, SMTT(60)
  <2> QED
    BY <2>3, <2>4, <2>5, SMTT(60) DEF p, R
<1>3. ss \in Seq(Seq(S))
  <2>1. ASSUME NEW i \in DOMAIN seg PROVE Pieces(seg[i]) \in Seq(S)
    <3>1. seg[i] \in Token
      BY SMTT(60)
    <3> DEFINE p == Pieces(seg[i])
    <3>2. Len(p) \in Nat /\ DOMAIN p = 1..Len(p) /\ p \in Seq({p[k] : k \in DOMAIN p})
      BY <1>2, <3>1
    <3>3. \A k \in DOMAIN p : p[k] \in S
      <4> HIDE DEF Pieces
      <4> QED
        BY SMTT(60)
    <3> HIDE DEF p, S
    <3>4. p \in Seq(S)
      BY <3>2, <3>3, SMTT(60)
    <3> QED
      BY <3>4 DEF p
  <2> HIDE DEF S, Pieces
  <2> QED
    BY <2>1, SMTT(60)
<1>4. ss # <<>> /\ DOMAIN ss = DOMAIN seg /\ 1 \in DOMAIN seg /\ seg[1] \in Token
  <2> HIDE DEF Pieces
  <2> QED
    BY SMTT(60)
<1>5. ss[1] = Pieces(seg[1]) /\ ss[1] # <<>> /\ \A i \in DOMAIN seg : ss[i] = Pieces(seg[i])
  <2>1. \A i \in DOMAIN seg : ss[i] = Pieces(seg[i])
    OBVIOUS
  <2>2. Pieces(seg[1]) # <<>>
    BY <1>2, <1>4
  <2> QED
    BY <1>4, <2>1, <2>2
<1> HIDE DEF ss, S, Pieces
<1>6. /\ Concat(ss) \in Seq(S) /\ Concat(ss) # <<>> /\ Concat(ss)[1] = ss[1][1]
      /\ \A i \in DOMAIN ss : \A k \in DOMAIN ss[i] : \E j \in DOMAIN Concat(ss) : Concat(ss)[j] = ss[i][k]
  BY <1>3, <1>4, <1>5, ConcatKeeps, SMTT(60)
<1>7. Len(Concat(ss)) \in Nat /\ DOMAIN Concat(ss) = 1..Len(Concat(ss))
  BY <1>6, SMTT(60)
<1> QED
  BY <1>1, <1>4, <1>5, <1>6, <1>7, SMTT(60)

LEMMA TokenFirst ==
  ASSUME NEW t \in Token
  PROVE  1 \in DOMAIN t.parts
<1>1. t.parts \in Seq(STRING) /\ t.parts # <<>>
  BY TokenParts
<1> QED
  BY <1>1, SMTT(60)

LEMMA Singleton == ASSUME NEW x PROVE 1 \in DOMAIN <<x>> /\ <<x>>[1] = x
BY SMTT(60)

LEMMA FirstWord ==
  ASSUME NEW t \in Token, t.by \in {"", " ", "/"}
  PROVE  linux_tok_basename(Pieces(t)[1]) = Program(t)
<1>1. 1 \in DOMAIN t.parts
  BY TokenFirst
<1>2. CASE t.by = " "
  <2>1. Pieces(t)[1] = Piece(t, 1)
    BY <1>1, <1>2 DEF Pieces
  <2>2. Program(t) = t.parts[1]
    BY <1>2 DEF Program
  <2> QED
    BY <1>1, <2>1, <2>2, PieceText
<1>3. CASE t.by \in {"", "/"}
  <2>1. Pieces(t) = <<t>>
    BY <1>3 DEF Pieces
  <2>2. Pieces(t)[1] = t
    BY <2>1, Singleton
  <2>3. linux_tok_basename(t) = Program(t)
    BY <1>3 DEF linux_tok_basename, Program, Text
  <2> QED
    BY <2>2, <2>3
<1> QED
  BY <1>2, <1>3

LEMMA HaltsIsBlack ==
  ASSUME NEW seg \in Seq(Token), Halts(seg)
  PROVE  linux_black_seg_verdict(seg)
<1> DEFINE ws == RawWords(seg)
           rest == {ws[i] : i \in 2..Len(ws)}
           cmd == linux_tok_basename(ws[1])
<1>0. seg # <<>> /\ 1 \in DOMAIN seg /\ seg[1] \in Token
  <2>1. seg # <<>>
    BY DEF Halts
  <2> QED
    BY <2>1, SMTT(60)
<1>1. /\ ws # <<>> /\ Len(ws) \in Nat /\ DOMAIN ws = 1..Len(ws) /\ ws[1] = Pieces(seg[1])[1]
      /\ \A i \in DOMAIN seg : \A k \in DOMAIN Pieces(seg[i]) : \E j \in DOMAIN ws : ws[j] = Pieces(seg[i])[k]
  BY <1>0, RawWordsAre
<1>2. Program(seg[1]) # "" /\ (Program(seg[1]) # "" => seg[1].by \in {"", " ", "/"})
  <2>1. Program(seg[1]) # ""
    BY DEF Halts, LINUX_BLACK_HALT_CMDS
  <2>2. Program(seg[1]) # "" => seg[1].by \in {"", " ", "/"}
    BY DEF Program
  <2> QED
    BY <2>1, <2>2
<1>3. cmd = Program(seg[1])
  BY <1>0, <1>1, <1>2, FirstWord
<1>4. CASE Program(seg[1]) \in LINUX_BLACK_HALT_CMDS
  BY <1>1, <1>3, <1>4 DEF linux_black_seg_verdict
<1>5. CASE /\ Program(seg[1]) = "systemctl"
           /\ \E i \in DOMAIN seg : seg[i].by \in {"", " "} /\ Parts(seg[i]) \cap LINUX_BLACK_SYSTEMCTL_HOST # {}
  <2>1. PICK i \in DOMAIN seg : seg[i].by \in {"", " "} /\ Parts(seg[i]) \cap LINUX_BLACK_SYSTEMCTL_HOST # {}
    BY <1>5
  <2>2. PICK k \in DOMAIN seg[i].parts : seg[i].parts[k] \in LINUX_BLACK_SYSTEMCTL_HOST
    BY <2>1 DEF Parts, Range
  <2>3. seg[i] \in Token
    BY SMTT(60)
  <2>4. \E m \in DOMAIN Pieces(seg[i]) : Text(Pieces(seg[i])[m]) = seg[i].parts[k] /\ Pieces(seg[i])[m].by = ""
    <3>1. CASE seg[i].by = " "
      <4>1. k \in DOMAIN Pieces(seg[i]) /\ Pieces(seg[i])[k] = Piece(seg[i], k)
        BY <2>2, <3>1 DEF Pieces
      <4> QED
        BY <2>2, <2>3, <4>1, PieceText
    <3>2. CASE seg[i].by = ""
      <4>1. k = 1
        <5>1. seg[i].parts \in Seq(STRING) /\ Len(seg[i].parts) = 1
          BY <2>3, <3>2, TokenParts
        <5> HIDE <3>2
        <5> QED
          BY <2>2, <5>1, SMTT(60)
      <4>2. Pieces(seg[i]) = <<seg[i]>>
        BY <3>2 DEF Pieces
      <4>3. 1 \in DOMAIN <<seg[i]>> /\ <<seg[i]>>[1] = seg[i]
        <5> HIDE <3>2
        <5> QED
          BY SMTT(60)
      <4>4. Text(seg[i]) = seg[i].parts[1]
        BY <3>2 DEF Text
      <4> QED
        BY <3>2, <4>1, <4>2, <4>3, <4>4
    <3> QED
      BY <2>1, <3>1, <3>2
  <2>5. PICK m \in DOMAIN Pieces(seg[i]) : Text(Pieces(seg[i])[m]) = seg[i].parts[k] /\ Pieces(seg[i])[m].by = ""
    BY <2>4
  <2>6. PICK j \in DOMAIN ws : ws[j] = Pieces(seg[i])[m]
    BY <1>1
  <2>7. Text(ws[j]) \in LINUX_BLACK_SYSTEMCTL_HOST /\ ws[j].by = ""
    BY <2>2, <2>5, <2>6
  <2>8. j # 1
    <3>1. SUFFICES ASSUME j = 1 PROVE FALSE
      OBVIOUS
    <3>2. cmd = Text(ws[1])
      BY <2>7, <3>1 DEF linux_tok_basename
    <3>3. "systemctl" \notin LINUX_BLACK_SYSTEMCTL_HOST
      BY DEF LINUX_BLACK_SYSTEMCTL_HOST
    <3> QED
      BY <1>3, <1>5, <2>7, <3>1, <3>2, <3>3
  <2>9. j \in 2..Len(ws)
    <3> HIDE DEF ws
    <3> QED
      BY <1>1, <2>6, <2>8, SMTT(60)
  <2>10. {Text(t) : t \in rest} \cap LINUX_BLACK_SYSTEMCTL_HOST # {}
    BY <2>7, <2>9
  <2> QED
    BY <1>1, <1>3, <1>5, <2>10 DEF linux_black_seg_verdict
<1> QED
  BY <1>4, <1>5 DEF Halts

LEMMA BlackRow ==
  ASSUME NEW table \in {ASA_ROUTE_TABLE, JUNOS_ROUTE_TABLE}, NEW c,
         NEW row \in table, row[2] = "BLACK", c.text = row[1]
  PROVE  LongestMatch(table, c) = "BLACK"
<1> DEFINE hits == {r \in table : RowMatches(c, r)}
           Longest(r) == \A q \in hits : Len(q[1]) <= Len(r[1])
<1>1. /\ Len(c.text) \in Nat /\ SubSeq(c.text, 1, Len(c.text)) = c.text
      /\ \A q \in table : q[1] = c.text => q[2] = "BLACK"
  BY RowsAssumption
<1>2. \A r \in table : Len(r[1]) \in Nat
  BY RowsAssumption
<1>3. StartsWith(c.text, c.text)
  BY <1>1, SMTT(60) DEF StartsWith
<1>4. row \in hits
  BY <1>3, RowsAssumption DEF RowMatches, Bounded
<1>5. \A q \in hits : q \in table /\ Len(q[1]) <= Len(c.text) /\ SubSeq(c.text, 1, Len(q[1])) = q[1]
  BY DEF RowMatches, StartsWith
<1> HIDE DEF hits
<1>6. Longest(row)
  BY <1>5
<1>7. ASSUME NEW r \in hits, Longest(r) PROVE r[2] = "BLACK"
  <2>1. Len(r[1]) = Len(c.text)
    BY <1>1, <1>2, <1>4, <1>5, <1>7, SMTT(60)
  <2>2. r[1] = c.text
    BY <1>1, <1>5, <2>1
  <2> QED
    BY <1>1, <1>5, <2>2
<1> DEFINE best == CHOOSE r \in hits : Longest(r)
<1>8. best \in hits /\ Longest(best)
  <2> HIDE DEF Longest
  <2> QED
    BY <1>4, <1>6
<1>9. LongestMatch(table, c) = best[2]
  BY <1>4 DEF LongestMatch, hits
<1> HIDE DEF best
<1> QED
  BY <1>7, <1>8, <1>9

(* For commands of any text and lines of any length: what must never be        *)
(* transmitted is sent in no mode, whichever of the classifier and the         *)
(* driver's own test covers it, on Linux in any segment and any quoting; but   *)
(* for the reboot that an owner policy granted.                                *)
THEOREM NeverTransmitted == Spec => []BlackNeverSent
<1>1. Passed => BlackNeverSent
  <2> DEFINE c == req.c
             granted == virp_policy_reboot_permitted(req.kind, c, req.mode)
  <2> SUFFICES ASSUME Passed, Sent, NeverTier(req.kind, c), ~granted PROVE FALSE
    BY DEF BlackNeverSent
  <2>1. req.kind \in {"cisco", "panos", "fortigate", "asa", "juniper", "linux", "wazuh"}
    BY ZenonT(60) DEF NeverTier
  <2>2. /\ ~Separated(req.kind, c) /\ ~Backstop(req.kind, c, req.mode)
        /\ req.mode # "policy" => Classify(req.kind, c) # "BLACK"
        /\ req.mode = "policy" /\ req.kind \in CliKinds => ~c.lead
    BY DEF Passed, MayRun
  <2> HIDE DEF c, granted
  <2>3. ASSUME req.kind = "asa" \/ req.kind = "juniper" PROVE FALSE
    <3> DEFINE table == IF req.kind = "asa" THEN ASA_ROUTE_TABLE ELSE JUNOS_ROUTE_TABLE
    <3>1. ~c.sep
      BY <2>2, <2>3, ZenonT(60) DEF Separated
    <3>2. ~c.lead /\ c.text \in {r[1] : r \in {q \in table : q[2] = "BLACK"}}
      BY <2>3, ZenonT(60) DEF NeverTier
    <3>3. PICK row \in table : row[2] = "BLACK" /\ c.text = row[1]
      BY <3>2
    <3>4. table \in {ASA_ROUTE_TABLE, JUNOS_ROUTE_TABLE}
      OBVIOUS
    <3>5. LongestMatch(table, c) = "BLACK"
      <4> HIDE DEF table
      <4> QED
        BY <3>3, <3>4, BlackRow
    <3>6. Backstop(req.kind, c, req.mode)
      BY <2>3, <3>1, <3>2, <3>5, ZenonT(60)
         DEF Backstop, granted, asa_route_command, junos_route_command
    <3> QED
      BY <2>2, <3>6
  <2>4. ASSUME req.kind = "linux" PROVE FALSE
    <3>1. linux_gate_classify(c, prot) # "BLACK"
      BY <2>2, <2>4, ZenonT(60) DEF Backstop, granted
    <3>2. PICK i \in DOMAIN c.segs : Halts(c.segs[i])
      BY <2>4, ZenonT(60) DEF NeverTier
    <3>3. c.segs[i] \in Seq(Token)
      <4>1. c \in Commands["linux"]
        BY <2>4 DEF Passed, Rewritten, CliKinds, c
      <4>2. c.segs \in Seq(Seq(Token))
        BY <4>1, LinuxInputs
      <4> QED
        BY <3>2, <4>2, SMTT(60)
    <3>4. linux_black_self_harm(c)
      BY <3>2, <3>3, HaltsIsBlack DEF linux_black_self_harm
    <3> QED
      BY <3>1, <3>4 DEF linux_gate_classify
  <2>5. ASSUME req.kind = "cisco" \/ req.kind = "fortigate" PROVE FALSE
    <3>1. ~c.sep
      BY <2>2, <2>5, ZenonT(60) DEF Separated
    <3>2. CASE req.mode # "policy"
      BY <2>2, <2>5, <3>1, <3>2, ZenonT(60)
         DEF Classify, NeverTier, cisco_gate_tier, fg_route_command, fg_is_black_tier
    <3>3. CASE req.mode = "policy"
      <4>1. ~c.lead
        BY <2>2, <2>5, <3>3 DEF CliKinds
      <4> QED
        BY <2>2, <2>5, <4>1, ZenonT(60) DEF Backstop, granted, NeverTier, fg_is_black_tier
    <3> QED
      BY <3>2, <3>3
  <2>6. ASSUME req.kind = "panos" PROVE FALSE
    BY <2>2, <2>6, ZenonT(60) DEF Backstop, granted, NeverTier, pa_is_black_tier
  <2>7. ASSUME req.kind = "wazuh" PROVE FALSE
    <3>1. ~wz_is_black_endpoint(c, agents)
      BY <2>2, <2>7, ZenonT(60) DEF Backstop, granted
    <3>2. HasPart(c, "active-response", 1) /\ c.slash
      BY <2>7, ZenonT(60) DEF NeverTier, Passed, Unsendable, c
    <3> QED
      BY <3>1, <3>2, SMTT(60) DEF wz_is_black_endpoint, wz_scan_black
  <2> QED
    BY <2>1, <2>3, <2>4, <2>5, <2>6, <2>7
<1> QED
  BY <1>1, PassedInvariant, PTL

-----------------------------------------------------------------------------
(* Quoting. *)
LEMMA BareToken ==
  ASSUME NEW t \in Token
  PROVE  LET b == [t EXCEPT !.form = "bare"]
         IN  b \in Token /\ b.form = "bare" /\ b.by = t.by /\ b.parts = t.parts
<1>1. t \in [parts : Seq(STRING) \ {<<>>}, by : {"", ",", "/", "=", " "},
             form : {"bare", "whole", "inner", "open", "spaced"}]
  BY DEF Token
<1> DEFINE b == [t EXCEPT !.form = "bare"]
<1>2. b.form = "bare" /\ b.by = t.by /\ b.parts = t.parts
  BY <1>1
<1>3. b \in Token
  BY <1>1, <1>2 DEF Token
<1> QED
  BY <1>2, <1>3

(* What the quotes do not change. *)
LEMMA UnquotedKeeps ==
  ASSUME NEW tok \in Seq(Token)
  PROVE  /\ Unquoted(tok) \in Seq(Token) /\ Len(Unquoted(tok)) = Len(tok)
         /\ DOMAIN Unquoted(tok) = DOMAIN tok
         /\ \A i \in DOMAIN tok :
              /\ Unquoted(tok)[i] \in Token /\ Unquoted(tok)[i].form = "bare"
              /\ Unquoted(tok)[i].by = tok[i].by /\ Unquoted(tok)[i].parts = tok[i].parts
<1> DEFINE b(i) == [tok[i] EXCEPT !.form = "bare"]
           u == [i \in DOMAIN tok |-> b(i)]
<1>1. u = Unquoted(tok)
  BY DEF Unquoted
<1>2. ASSUME NEW i \in DOMAIN tok
      PROVE  tok[i] \in Token
  BY SMTT(60)
<1>3. \A i \in DOMAIN tok : b(i) \in Token /\ b(i).form = "bare" /\ b(i).by = tok[i].by /\ b(i).parts = tok[i].parts
  BY <1>2, BareToken
<1> HIDE DEF b
<1>4. u \in Seq(Token) /\ Len(u) = Len(tok)
  BY <1>3, SMTT(60)
<1> QED
  BY <1>1, <1>3, <1>4

LEMMA UnquotedReads ==
  ASSUME NEW tok \in Seq(Token), NEW i \in DOMAIN tok
  PROVE  LET u == Unquoted(tok)[i] IN
         /\ Text(u) = Text(tok[i]) /\ BareWord(u) = Text(tok[i]) /\ Parts(u) = Parts(tok[i])
         /\ BareWord(tok[i]) # "" => BareWord(u) = BareWord(tok[i])
         /\ PathSegs(u) = PathSegs(tok[i])
         /\ \A n : prox_scan_token_ids(u, n) = prox_scan_token_ids(tok[i], n)
         /\ \A S : prox_flag_in(u, S) <=> prox_flag_in(tok[i], S)
         /\ \A S : prox_path_has_seg_in(u, S) <=> prox_path_has_seg_in(tok[i], S)
<1> DEFINE u == Unquoted(tok)[i]
<1>1. u.form = "bare" /\ u.by = tok[i].by /\ u.parts = tok[i].parts
  BY UnquotedKeeps
<1> HIDE DEF u
<1>2. Text(u) = Text(tok[i]) /\ Parts(u) = Parts(tok[i])
  BY <1>1 DEF Text, Parts
<1>3. BareWord(u) = Text(tok[i])
  BY <1>1, <1>2 DEF BareWord
<1>4. BareWord(tok[i]) # "" => BareWord(u) = BareWord(tok[i])
  BY <1>3, BareText
<1>5. PathSegs(u) = PathSegs(tok[i])
  BY <1>1, <1>2 DEF PathSegs
<1>6. \A n : prox_scan_token_ids(u, n) = prox_scan_token_ids(tok[i], n)
  BY <1>1, <1>2 DEF prox_scan_token_ids
<1>7. \A S : prox_flag_in(u, S) <=> prox_flag_in(tok[i], S)
  BY <1>1 DEF prox_flag_in
<1>8. \A S : prox_path_has_seg_in(u, S) <=> prox_path_has_seg_in(tok[i], S)
  BY <1>5 DEF prox_path_has_seg_in
<1> QED
  BY <1>2, <1>3, <1>4, <1>5, <1>6, <1>7, <1>8 DEF u

LEMMA Positions ==
  ASSUME NEW tok \in Seq(Token)
  PROVE  /\ tok # <<>> => 1 \in DOMAIN tok
         /\ \A v \in {2, 3, 4} : ~(Len(tok) < v) => v \in DOMAIN tok
         /\ \A v \in {2, 3, 4} : \A i \in v..Len(tok) : i \in DOMAIN tok
         /\ \A v \in {2, 3, 4} : Len(tok) >= v <=> ~(Len(tok) < v)
         /\ Len(tok) >= 2 => Len(tok) # 1
<1>1. Len(tok) \in Nat /\ DOMAIN tok = 1..Len(tok)
  BY SMTT(60)
<1>2. tok # <<>> => Len(tok) >= 1
  BY SMTT(60)
<1> DEFINE n == Len(tok)
<1> HIDE DEF n
<1>3. /\ \A v \in {2, 3, 4} : ~(n < v) => v \in 1..n
      /\ \A v \in {2, 3, 4} : \A i \in v..n : i \in 1..n
      /\ \A v \in {2, 3, 4} : n >= v <=> ~(n < v)
      /\ n >= 2 => n # 1
      /\ n >= 1 => 1 \in 1..n
  BY <1>1, SMTT(60) DEF n
<1> QED
  BY <1>1, <1>2, <1>3 DEF n

(* The guard's verdicts, by what they depend on. *)
NamedIds(tok, numeric_ok) == UNION {prox_scan_token_ids(tok[i], numeric_ok) : i \in 2..Len(tok)}
SomeProtected(tok, v, pr) == \E i \in v..Len(tok) : IsProtected(pr, prox_scan_token_ids(tok[i], TRUE))
VerdictOn(tok, v, pr) ==
    IF Len(tok) < v \/ prox_parse_vmid(tok[v]) = {} THEN "bad"
    ELSE IF SomeProtected(tok, v, pr) THEN "protected" ELSE Verdict(pr, TRUE)
PathVerdict(segs, named, named_sid, pr) ==
    LET next(i) == IF i < Len(segs) THEN prox_vmid_digits(segs[i + 1]) ELSE {}
        guests == {i \in DOMAIN segs : segs[i] \in {"qemu", "lxc"}}
        sids == UNION {prox_sid_vmid(segs[i]) : i \in DOMAIN segs}
    IN  CASE \E i \in guests : IsProtected(pr, next(i)) /\ \A j \in guests : j < i => next(j) # {} -> "protected"
          [] \E i \in guests : next(i) = {} /\ \A j \in guests : j < i => ~IsProtected(pr, next(j)) -> "bad"
          [] OTHER -> IF IsProtected(pr, sids \cup named) THEN "protected"
                      ELSE Verdict(pr, guests # {} \/ sids \cup named_sid # {})

LEMMA SameScans ==
  ASSUME NEW tok \in Seq(Token)
  PROVE  /\ \A n : NamedIds(Unquoted(tok), n) = NamedIds(tok, n)
         /\ \A v \in {2, 3, 4} : \A pr : SomeProtected(Unquoted(tok), v, pr) <=> SomeProtected(tok, v, pr)
<1>1. \A v \in {2, 3, 4} : \A i \in v..Len(tok) : \A n :
          prox_scan_token_ids(Unquoted(tok)[i], n) = prox_scan_token_ids(tok[i], n)
  BY Positions, UnquotedReads
<1>2. Len(Unquoted(tok)) = Len(tok)
  BY UnquotedKeeps
<1>3. \A n : NamedIds(Unquoted(tok), n) = NamedIds(tok, n)
  BY <1>1, <1>2 DEF NamedIds
<1>4. \A v \in {2, 3, 4} : \A pr : SomeProtected(Unquoted(tok), v, pr) <=> SomeProtected(tok, v, pr)
  BY <1>1, <1>2 DEF SomeProtected
<1> QED
  BY <1>3, <1>4

(* A row that lets a line through has read its verb, which then is not quoted; *)
(* a vzdump line has none.                                                     *)
LEMMA PermittedVerb ==
  ASSUME NEW tok, NEW tool, Len(tok) # 1, tool # "vzdump",
         ProxRow(tok, tool, "") \in {"GREEN", "YELLOW"}
  PROVE  FALSE
<1>1. PveshTier(tok, "") = "RED"
  BY DEF PveshTier
<1>2. "" \notin {"list", "status", "nodes"} \cup PROX_GUEST_GREEN_VERBS \cup PROX_GUEST_YELLOW_VERBS
  BY DEF PROX_GUEST_GREEN_VERBS, PROX_GUEST_YELLOW_VERBS
<1>3. ProxRow(tok, tool, "") = "RED"
  BY <1>1, <1>2, ZenonT(60) DEF ProxRow
<1> QED
  BY <1>3

(* The guard for guest numbers reads a token with or without its quotes, except *)
(* the number it expects, which has none.                                       *)
LEMMA SameGuard ==
  ASSUME NEW tok \in Seq(Token), NEW pr, tok # <<>>,
         BareWord(tok[1]) # "", BareWord(tok[1]) = "vzdump" \/ Len(tok) < 2 \/ BareWord(tok[2]) # "",
         linux_prox_self_protect(tok, pr) # "bad"
  PROVE  linux_prox_self_protect(Unquoted(tok), pr) = linux_prox_self_protect(tok, pr)
<1> DEFINE u == Unquoted(tok)
           tool == BareWord(tok[1])
<1>1. Len(u) = Len(tok) /\ 1 \in DOMAIN tok
  BY UnquotedKeeps, Positions
<1>2. BareWord(u[1]) = tool /\ Text(u[1]) = Text(tok[1])
  BY <1>1, UnquotedReads
<1>3. Len(tok) >= 2 => ~(Len(tok) < 2)
  BY Positions
<1>4. Len(tok) >= 2 => 2 \in DOMAIN tok
  BY Positions
<1>5. Len(tok) >= 3 => 3 \in DOMAIN tok
  BY Positions
<1>6. CASE tool = "vzdump"
  <2>1. \A s : BareWord(s[1]) = "vzdump" =>
          linux_prox_self_protect(s, pr) =
             IF IsProtected(pr, NamedIds(s, TRUE)) THEN "protected" ELSE Verdict(pr, NamedIds(s, TRUE) # {})
    BY DEF linux_prox_self_protect, ProtectVzdump, NamedIds
  <2> QED
    BY <1>2, <1>6, <2>1, SameScans
<1>7. CASE tool = "pvesh" /\ Len(tok) >= 3
  <2> DEFINE scope(s) == s[3].by = "/" /\ (StartsWith(PathSegs(s[3])[1], "cluster") \/ StartsWith(PathSegs(s[3])[1], "pools"))
  <2>1. PathSegs(u[3]) = PathSegs(tok[3]) /\ u[3].by = tok[3].by
    BY <1>5, <1>7, UnquotedReads, UnquotedKeeps
  <2>2. \A s : BareWord(s[1]) = "pvesh" /\ Len(s) >= 3 =>
          linux_prox_self_protect(s, pr) = PathVerdict(PathSegs(s[3]), NamedIds(s, scope(s)), NamedIds(s, FALSE), pr)
    BY ZenonT(60) DEF linux_prox_self_protect, ProtectPvesh, PathVerdict, NamedIds
  <2>3. scope(u) = scope(tok)
    BY <2>1
  <2> HIDE DEF scope
  <2> QED
    BY <1>1, <1>2, <1>7, <2>1, <2>2, <2>3, SameScans
<1>8. CASE tool \in {"qm", "pct"} /\ Len(tok) >= 2
  <2>1. BareWord(u[2]) = BareWord(tok[2])
    <3>1. BareWord(tok[2]) # ""
      BY <1>3, <1>8
    <3> QED
      BY <1>4, <1>8, <3>1, UnquotedReads
  <2>2. CASE BareWord(tok[2]) # "list"
    <3> DEFINE vpos == IF Text(tok[1]) = "qm" /\ BareWord(tok[2]) = "guest" THEN 4 ELSE 3
    <3>1. \A s : BareWord(s[1]) \in {"qm", "pct"} /\ Len(s) >= 2 /\ BareWord(s[2]) # "list" =>
            linux_prox_self_protect(s, pr) =
              VerdictOn(s, IF Text(s[1]) = "qm" /\ BareWord(s[2]) = "guest" THEN 4 ELSE 3, pr)
      BY ZenonT(60) DEF linux_prox_self_protect, ProtectQm, VerdictOn, SomeProtected
    <3>2. linux_prox_self_protect(tok, pr) = VerdictOn(tok, vpos, pr)
      BY <1>8, <2>2, <3>1
    <3>3. linux_prox_self_protect(u, pr) = VerdictOn(u, vpos, pr)
      BY <1>1, <1>2, <1>8, <2>1, <2>2, <3>1
    <3>4. ~(Len(tok) < vpos) /\ prox_parse_vmid(tok[vpos]) # {}
      BY <3>2 DEF VerdictOn
    <3>5. vpos \in {2, 3, 4}
      OBVIOUS
    <3> HIDE DEF vpos
    <3>6. vpos \in DOMAIN tok
      BY <3>4, <3>5, Positions
    <3>7. u[vpos].by = tok[vpos].by /\ u[vpos].form = "bare" /\ Text(u[vpos]) = Text(tok[vpos])
      BY <3>6, UnquotedReads, UnquotedKeeps
    <3>8. prox_parse_vmid(u[vpos]) = prox_parse_vmid(tok[vpos])
      BY <3>4, <3>7 DEF prox_parse_vmid
    <3> QED
      BY <1>1, <3>2, <3>3, <3>5, <3>8, SameScans DEF VerdictOn
  <2>3. CASE BareWord(tok[2]) = "list"
    <3>1. \A s : BareWord(s[1]) \in {"qm", "pct"} /\ BareWord(s[2]) = "list"
                 => linux_prox_self_protect(s, pr) = "none"
      BY DEF linux_prox_self_protect
    <3> QED
      BY <1>2, <1>8, <2>1, <2>3, <3>1
  <2> QED
    BY <2>2, <2>3
<1>9. CASE /\ tool # "vzdump" /\ ~(tool = "pvesh" /\ Len(tok) >= 3)
           /\ ~(tool \in {"qm", "pct"} /\ Len(tok) >= 2)
  <2>1. \A s : /\ BareWord(s[1]) # "vzdump" /\ ~(BareWord(s[1]) = "pvesh" /\ Len(s) >= 3)
               /\ ~(BareWord(s[1]) \in {"qm", "pct"} /\ Len(s) >= 2)
               => linux_prox_self_protect(s, pr) = "none"
    BY DEF linux_prox_self_protect
  <2> QED
    BY <1>1, <1>2, <1>9, <2>1
<1> QED
  BY <1>6, <1>7, <1>8, <1>9

(* What a row lets through quoted it lets through unquoted. *)
LEMMA SameRow ==
  ASSUME NEW tok \in Seq(Token), NEW tool, NEW verb, ProxRow(tok, tool, verb) \in {"GREEN", "YELLOW"}
  PROVE  ProxRow(Unquoted(tok), tool, verb) \in {"GREEN", "YELLOW"}
<1> DEFINE u == Unquoted(tok)
           GY == {"GREEN", "YELLOW"}
<1>1. Len(u) = Len(tok)
  BY UnquotedKeeps
<1>2. Len(tok) >= 3 \/ Len(tok) = 3 => 3 \in DOMAIN tok
  BY <1>1, SMTT(60)
<1>3. Len(tok) = 3 /\ prox_is_storage_id(tok[3]) => prox_is_storage_id(u[3])
  BY <1>2, UnquotedReads DEF prox_is_storage_id
<1>4. PveshTier(tok, verb) \in GY => PveshTier(u, verb) \in GY
  <2> DEFINE ok(s) == Len(s) >= 3 /\ s[3].form = "bare" /\ s[3].by = "/"
             access(s) == ok(s) /\ StartsWith(s[3].parts[1], "access")
             tier(s) == CASE verb = "get" /\ Len(s) = 3 /\ ok(s) -> IF access(s) THEN "YELLOW" ELSE "GREEN"
                          [] verb \in {"create", "set"} /\ ok(s) -> IF access(s) THEN "RED" ELSE "YELLOW"
                          [] OTHER -> "RED"
  <2>1. \A s : PveshTier(s, verb) = tier(s)
    BY DEF PveshTier
  <2>2. ok(tok) => (ok(u) /\ (access(u) <=> access(tok)))
    BY <1>1, <1>2, UnquotedKeeps
  <2> HIDE DEF ok, access
  <2>3. ~ok(tok) => tier(tok) = "RED"
    OBVIOUS
  <2>4. ok(tok) => tier(u) = tier(tok)
    BY <1>1, <2>2
  <2> HIDE DEF tier
  <2>5. "RED" \notin GY
    OBVIOUS
  <2> QED
    BY <2>1, <2>3, <2>4, <2>5
<1> DEFINE exact(s) == \/ tool = "pveversion" /\ Len(s) = 1
                       \/ tool \in {"qm", "pct"} /\ verb = "list" /\ Len(s) = 2
                       \/ tool = "pvecm" /\ verb \in {"status", "nodes"} /\ Len(s) = 2
                       \/ tool = "pvesm" /\ verb = "status" /\ Len(s) = 2
                       \/ tool = "pvesm" /\ verb = "list" /\ Len(s) = 3 /\ prox_is_storage_id(s[3])
                       \/ tool \in {"qm", "pct"} /\ verb \in PROX_GUEST_GREEN_VERBS /\ Len(s) = 3
           row(s) == CASE exact(s) -> "GREEN"
                       [] tool = "pvesh" /\ Len(s) >= 2 -> PveshTier(s, verb)
                       [] tool \in {"qm", "pct"} /\ verb \in PROX_GUEST_YELLOW_VERBS /\ Len(s) >= 3 -> "YELLOW"
                       [] tool = "vzdump" -> "YELLOW"
                       [] OTHER -> "RED"
<1>5. \A s : ProxRow(s, tool, verb) = row(s)
  BY DEF ProxRow
<1>6. exact(tok) => exact(u)
  BY <1>1, <1>3
<1> HIDE DEF exact, GY
<1>7. "GREEN" \in GY /\ "YELLOW" \in GY /\ "RED" \notin GY
  BY DEF GY
<1>8. row(tok) \in GY => row(u) \in GY
  <2>1. CASE exact(u)
    <3>1. tool # "pvesh"
      BY <2>1 DEF exact
    <3>2. row(u) \in GY
      BY <1>7, <2>1, <3>1
    <3> QED
      BY <3>2
  <2>2. CASE ~exact(u) /\ tool = "pvesh" /\ Len(tok) >= 2
    <3>1. row(u) = PveshTier(u, verb) /\ row(tok) = PveshTier(tok, verb)
      BY <1>1, <1>6, <2>2
    <3> QED
      BY <1>4, <3>1
  <2>3. CASE ~exact(u) /\ ~(tool = "pvesh" /\ Len(tok) >= 2)
    <3>1. row(u) = row(tok)
      BY <1>1, <1>6, <2>3
    <3> QED
      BY <3>1
  <2> QED
    BY <2>1, <2>2, <2>3
<1> QED
  BY <1>5, <1>8 DEF GY

LEMMA SameClass ==
  ASSUME NEW tok \in Seq(Token), NEW pr, tok # <<>>, Text(tok[1]) \in LINUX_PROX_TOOLS,
         \A i \in DOMAIN tok : ~NeedsQuotes(tok[i]),
         BareWord(tok[1]) \in LINUX_PROX_TOOLS,
         linux_prox_classify(tok, pr) \in {"GREEN", "YELLOW"}
  PROVE  linux_prox_classify(Unquoted(tok), pr) \in {"GREEN", "YELLOW"}
<1> DEFINE u == Unquoted(tok)
           tool == BareWord(tok[1])
           verb(s) == IF Len(s) >= 2 THEN BareWord(s[2]) ELSE ""
           class(s, t, v) ==
             IF ~linux_prox_tokenize(s) \/ linux_prox_self_protect(s, pr) \in {"bad", "unconfigured"} THEN "RED"
             ELSE IF linux_prox_self_protect(s, pr) = "protected" \/ ProxBlack(s, t, v) THEN "BLACK"
             ELSE IF ProxOpaque(s, t, v) THEN "RED"
             ELSE ProxRow(s, t, v)
<1>1. \A s : linux_prox_classify(s, pr) = class(s, BareWord(s[1]), verb(s))
  BY DEF linux_prox_classify
<1>2. Len(u) = Len(tok) /\ 1 \in DOMAIN tok /\ (Len(tok) >= 2 => 2 \in DOMAIN tok) /\ (Len(tok) >= 3 => 3 \in DOMAIN tok)
  BY UnquotedKeeps, Positions
<1>3. tool # "" /\ BareWord(u[1]) = tool
  BY <1>2, UnquotedReads DEF LINUX_PROX_TOOLS
<1>4. /\ linux_prox_tokenize(tok) /\ linux_prox_self_protect(tok, pr) \notin {"bad", "unconfigured", "protected"}
      /\ ~ProxBlack(tok, tool, verb(tok)) /\ ~ProxOpaque(tok, tool, verb(tok))
      /\ ProxRow(tok, tool, verb(tok)) \in {"GREEN", "YELLOW"}
  BY <1>1
<1>5. linux_prox_tokenize(u)
  <2>1. ASSUME NEW i \in DOMAIN u
        PROVE  u[i].form = "bare" /\ Parts(u[i]) \cap OddWord = {} /\ u[i].by # " "
    BY <2>1, UnquotedKeeps, UnquotedReads DEF NeedsQuotes
  <2> QED
    BY <1>2, <1>4, <2>1 DEF linux_prox_tokenize
<1>6. tool = "vzdump" \/ Len(tok) < 2 \/ BareWord(tok[2]) # ""
  <2> SUFFICES ASSUME tool # "vzdump", ~(Len(tok) < 2), BareWord(tok[2]) = "" PROVE FALSE
    OBVIOUS
  <2>1. Len(tok) >= 2 /\ Len(tok) # 1
    BY Positions
  <2>2. verb(tok) = ""
    BY <2>1
  <2> QED
    BY <1>4, <2>1, <2>2, PermittedVerb
<1>7. linux_prox_self_protect(u, pr) = linux_prox_self_protect(tok, pr)
  BY <1>3, <1>4, <1>6, SameGuard
<1>8. CASE tool # "vzdump"
  <2>1. verb(u) = verb(tok)
    <3>1. CASE Len(tok) >= 2
      <4>1. BareWord(tok[2]) # ""
        BY <1>6, <1>8, <3>1, Positions
      <4> QED
        BY <1>2, <3>1, <4>1, UnquotedReads
    <3> QED
      BY <1>2, <3>1
  <2> HIDE DEF verb
  <2>2. ~ProxBlack(u, tool, verb(tok))
    BY <1>4, <1>8 DEF ProxBlack
  <2>3. ~ProxOpaque(u, tool, verb(tok))
    <3>1. Len(tok) >= 3 => \A S : prox_path_has_seg_in(u[3], S) <=> prox_path_has_seg_in(tok[3], S)
      BY <1>2, UnquotedReads
    <3> QED
      BY <1>2, <1>4, <1>8, <3>1 DEF ProxOpaque
  <2>4. ProxRow(u, tool, verb(tok)) \in {"GREEN", "YELLOW"}
    <3>1. ProxRow(tok, tool, verb(tok)) \in {"GREEN", "YELLOW"}
      BY <1>4
    <3> HIDE DEF tool
    <3> QED
      BY <3>1, SameRow, SMTT(60)
  <2> QED
    BY <1>1, <1>3, <1>4, <1>5, <1>7, <2>1, <2>2, <2>3, <2>4
<1>9. CASE tool = "vzdump"
  <2>1. \A i \in 2..Len(tok) : \A S : prox_flag_in(u[i], S) <=> prox_flag_in(tok[i], S)
    <3>1. \A i \in 2..Len(tok) : i \in DOMAIN tok
      BY Positions
    <3> QED
      BY <3>1, UnquotedReads
  <2>2. ~ProxBlack(u, tool, verb(u))
    BY <1>2, <1>4, <1>9, <2>1 DEF ProxBlack
  <2>3. ~ProxOpaque(u, tool, verb(u))
    BY <1>2, <1>4, <1>9, <2>1 DEF ProxOpaque
  <2>4. ProxRow(u, tool, verb(u)) = "YELLOW"
    BY <1>9 DEF ProxRow
  <2> QED
    BY <1>1, <1>3, <1>4, <1>5, <1>7, <2>2, <2>3, <2>4
<1> QED
  BY <1>8, <1>9

(* No line whose first word is a Proxmox tool is one of the never tier's. *)
LEMMA ToolIsHarmless ==
  ASSUME NEW tok \in Seq(Token), tok # <<>>, Text(tok[1]) \in LINUX_PROX_TOOLS
  PROVE  ~linux_black_seg_verdict(tok)
<1>1. tok[1] \in Token
  BY Positions, SMTT(60)
<1>2. tok[1].by = ""
  BY DEF Text, LINUX_PROX_TOOLS
<1>3. Program(tok[1]) = Text(tok[1])
  BY <1>2 DEF Program, Text
<1>4. linux_tok_basename(RawWords(tok)[1]) = Text(tok[1])
  BY <1>1, <1>2, <1>3, RawWordsAre, FirstWord
<1>5. Text(tok[1]) \notin LINUX_BLACK_HALT_CMDS \cup {"systemctl"} \cup LINUX_BLACK_KILLERS
  BY DEF LINUX_PROX_TOOLS, LINUX_BLACK_HALT_CMDS, LINUX_BLACK_KILLERS
<1> QED
  BY <1>4, <1>5 DEF linux_black_seg_verdict

LEMMA QuotingClass ==
  ASSUME NEW c \in Commands["linux"], NEW pr, Len(c.segs) = 1, c.segs[1] # <<>>,
         \A i \in DOMAIN c.segs[1] : ~NeedsQuotes(c.segs[1][i]),
         Text(c.segs[1][1]) \in LINUX_PROX_TOOLS,
         linux_gate_classify(c, pr) \in {"GREEN", "YELLOW"}
  PROVE  linux_gate_classify([c EXCEPT !.segs[1] = Unquoted(@)], pr) \in {"GREEN", "YELLOW"}
<1> DEFINE tok == c.segs[1]
           u == Unquoted(tok)
           d == [c EXCEPT !.segs[1] = Unquoted(@)]
<1>1. c.segs \in Seq(Seq(Token)) /\ DOMAIN c = {"segs", "meta"}
  BY InputsAssumption
<1>2. tok \in Seq(Token) /\ DOMAIN c.segs = {1}
  BY <1>1, SMTT(60)
<1>3. d.segs = [c.segs EXCEPT ![1] = u] /\ d.meta = c.meta
  BY <1>1
<1>4. Len(d.segs) = 1 /\ DOMAIN d.segs = {1} /\ d.segs[1] = u
  <2> HIDE DEF d, u
  <2>1. DOMAIN d.segs = {1} /\ d.segs[1] = u
    BY <1>2, <1>3
  <2>2. Len(d.segs) = 1
    BY <1>1, <1>3, SMTT(60)
  <2> QED
    BY <2>1, <2>2
<1>5. 1 \in DOMAIN tok /\ 1 \in DOMAIN u /\ u # <<>>
  BY <1>2, Positions, UnquotedKeeps, SMTT(60)
<1>6. Text(u[1]) = Text(tok[1]) /\ BareWord(u[1]) = Text(tok[1]) /\ u \in Seq(Token)
  BY <1>2, <1>5, UnquotedReads, UnquotedKeeps
<1>7. ~linux_black_self_harm(d)
  <2>1. ~linux_black_seg_verdict(u)
    BY <1>5, <1>6, ToolIsHarmless
  <2> QED
    BY <1>4, <2>1 DEF linux_black_self_harm
<1>8. BareWord(tok[1]) # "vtysh" /\ ~ExactGreen(tok)
  <2>1. BareWord(tok[1]) = Text(tok[1]) \/ BareWord(tok[1]) = ""
    BY BareText
  <2>2. \A w \in GreenWords \cup {"vtysh"} : w # "" /\ w \notin LINUX_PROX_TOOLS
    BY DEF GreenWords, LINUX_PROX_TOOLS
  <2> QED
    BY <1>2, <2>1, <2>2, ExactGreenWord
<1>9. /\ ~c.meta /\ BareWord(tok[1]) \in LINUX_PROX_TOOLS
      /\ linux_prox_classify(tok, pr) \in {"GREEN", "YELLOW"}
  BY <1>8 DEF linux_gate_classify
<1>10. linux_prox_classify(u, pr) \in {"GREEN", "YELLOW"}
  BY <1>2, <1>9, SameClass
<1>11. linux_gate_classify(d, pr) = linux_prox_classify(u, pr)
  <2>1. BareWord(u[1]) # "vtysh" /\ BareWord(u[1]) \in LINUX_PROX_TOOLS
    BY <1>6 DEF LINUX_PROX_TOOLS
  <2> HIDE DEF d, u
  <2> QED
    BY <1>3, <1>4, <1>5, <1>7, <1>9, <2>1 DEF linux_gate_classify
<1> QED
  BY <1>10, <1>11

(* Quotes buy nothing at the Proxmox gate, for lines of any length and any     *)
(* protected set: what linux_gate_classify() lets through with quotes it lets  *)
(* through without them.                                                       *)
THEOREM QuotingIsNoPass == Spec => []QuotingNeverPermits
<1>1. Requested => QuotingNeverPermits
  <2> SUFFICES ASSUME Requested, req.kind = "linux", Len(req.c.segs) = 1, req.c.segs[1] # <<>>,
                      \A i \in DOMAIN req.c.segs[1] : ~NeedsQuotes(req.c.segs[1][i]),
                      Text(req.c.segs[1][1]) \in LINUX_PROX_TOOLS,
                      linux_gate_classify(req.c, prot) \in {"GREEN", "YELLOW"}
               PROVE  linux_gate_classify([req.c EXCEPT !.segs[1] = Unquoted(@)], prot) \in {"GREEN", "YELLOW"}
    BY DEF QuotingNeverPermits
  <2>1. req.c \in Commands["linux"]
    BY AsAsked DEF Rewritten, CliKinds
  <2> QED
    BY <2>1, QuotingClass
<1> QED
  BY <1>1, RequestedInvariant, PTL

-----------------------------------------------------------------------------
(* The body filter. *)
TextOnly(b) == IsSequence(b) /\ \A i \in DOMAIN b : b[i].k = "text"

(* What is left of a payload. *)
Allowed(line, was) ==
    /\ line.k = "json"
    /\ DOMAIN line.o[1] \subseteq EnvelopeAllow \cup {ArrayKey}
    /\ \A i \in (2..Len(line.o)) \ was.whole : DOMAIN line.o[i] \subseteq ItemAllow
    /\ line.removed = UNION {DOMAIN was.o[i] \ DOMAIN line.o[i] : i \in DOMAIN was.o}

JsonLine(line, was) ==
    DOMAIN line = {"k", "o", "whole", "removed"} /\ IsSequence(line.o) /\ line.o # <<>> /\ DOMAIN line.o = DOMAIN was.o

FilteredBody ==
    /\ IsSequence(body)
    /\ \A i \in 1..(Len(body) - 1) : body[i].k = "text"
    /\ body # <<>> => LET line == body[Len(body)] IN
                      line = Stub \/ (JsonLine(line, raw[Len(raw)]) /\ Allowed(line, raw[Len(raw)]))

Filtering ==
    match_rule(req.kind, req.c) =>
        /\ phase = "captured" => RestReply(raw) /\ (body = raw \/ TextOnly(body))
        /\ phase = "filtered" => FilteredBody
        /\ phase = "signed" => FilteredIsAllowlisted

LEMMA SequenceIs ==
  ASSUME NEW s, IsSequence(s)
  PROVE  Len(s) \in Nat /\ DOMAIN s = 1..Len(s) /\ s = [i \in 1..Len(s) |-> s[i]] /\ (s = <<>> <=> Len(s) = 0)
<1>1. s \in Seq(Range(s))
  BY DEF IsSequence
<1> QED
  BY <1>1, SMTT(60)

LEMMA IsSequenceOf ==
  ASSUME NEW S, NEW s \in Seq(S)
  PROVE  IsSequence(s)
<1>1. s = [i \in 1..Len(s) |-> s[i]] /\ Len(s) \in Nat /\ DOMAIN s = 1..Len(s)
  BY SMTT(60)
<1>2. \A i \in 1..Len(s) : s[i] \in Range(s)
  BY <1>1 DEF Range
<1>3. s \in Seq(Range(s))
  BY <1>1, <1>2, SMTT(60)
<1> QED
  BY <1>3 DEF IsSequence

LEMMA GreatestFit ==
  ASSUME NEW n \in Nat, NEW S, S \subseteq 0..n, S # {}
  PROVE  Max(S) \in 0..n
<1> DEFINE T == {n - x : x \in S}
<1>1. T \subseteq Nat /\ T # {}
  <2>1. \A x \in S : x \in Nat /\ n - x \in Nat
    BY SMTT(60)
  <2> QED
    BY <2>1
<1>2. PICK t \in T : \A u \in T : t <= u
  <2> HIDE DEF T
  <2> QED
    BY <1>1, Least
<1>3. PICK x \in S : t = n - x
  BY <1>2
<1>4. \A y \in S : x >= y
  BY <1>2, <1>3, SMTT(60)
<1>5. \E y \in S : \A z \in S : y >= z
  BY <1>4
<1>6. Max(S) \in S
  BY <1>5 DEF Max
<1> QED
  BY <1>6

LEMMA StoredIs ==
  ASSUME NEW b, RestReply(b)
  PROVE  store_output(b, FALSE) = b \/ TextOnly(store_output(b, FALSE))
<1> DEFINE n == Max({0} \cup {k \in 1..Len(b) : BodyWidth(SubSeq(b, 1, k)) <= Cap})
<1>1. Len(b) \in Nat /\ DOMAIN b = 1..Len(b) /\ b \in Seq(Range(b))
  <2>1. IsSequence(b)
    BY DEF RestReply
  <2>2. b \in Seq(Range(b))
    BY <2>1 DEF IsSequence
  <2> QED
    BY <2>1, <2>2, SequenceIs
<1>2. n \in 0..Len(b)
  <2> DEFINE S == {0} \cup {k \in 1..Len(b) : BodyWidth(SubSeq(b, 1, k)) <= Cap}
  <2>1. S \subseteq 0..Len(b) /\ S # {}
    BY <1>1, SMTT(60)
  <2>2. Max(S) \in 0..Len(b)
    <3> HIDE DEF S
    <3> QED
      BY <1>1, <2>1, GreatestFit
  <2> QED
    BY <2>2
<1>3. store_output(b, FALSE) = b \/ store_output(b, FALSE) = SubSeq(b, 1, n)
  BY DEF store_output
<1> HIDE DEF n
<1>4. CASE n = Len(b)
  <2>1. SubSeq(b, 1, Len(b)) = b
    BY <1>1, SMTT(60)
  <2> QED
    BY <1>3, <1>4, <2>1
<1>5. CASE n < Len(b)
  <2> DEFINE s == SubSeq(b, 1, n)
  <2>1. s \in Seq(Range(b)) /\ DOMAIN s = 1..n /\ \A i \in 1..n : s[i] = b[i]
    BY <1>1, <1>2, SMTT(60)
  <2>2. \A i \in 1..n : b[i].k = "text"
    BY <1>1, <1>2, <1>5, SMTT(60) DEF RestReply
  <2>3. IsSequence(s)
    BY <2>1, IsSequenceOf
  <2>4. TextOnly(s)
    <3> HIDE DEF s
    <3> QED
      BY <2>1, <2>2, <2>3 DEF TextOnly
  <2> QED
    BY <1>3, <2>4, ZenonT(60)
<1>6. n = Len(b) \/ n < Len(b)
  <2>1. Len(b) \in Nat
    BY <1>1
  <2> QED
    BY <1>2, <2>1, SMTT(60)
<1> QED
  BY <1>4, <1>5, <1>6

(* The two ways to leave a JSON payload. *)
LEMMA KeptIs ==
  ASSUME NEW was, was = [k |-> "json", o |-> was.o, whole |-> was.whole, removed |-> {}],
         IsSequence(was.o), was.o # <<>>, was.whole \subseteq 2..Len(was.o)
  PROVE  /\ JsonLine(was, was) /\ (RemovedKeys(was) = {} => Allowed(was, was))
         /\ LET kept == [was EXCEPT !.o = filter_object(was), !.removed = RemovedKeys(was)]
            IN  JsonLine(kept, was) /\ Allowed(kept, was)
<1> DEFINE o == was.o
           f == filter_object(was)
           kept == [was EXCEPT !.o = filter_object(was), !.removed = RemovedKeys(was)]
           Rest == (2..Len(o)) \ was.whole
           Env == EnvelopeAllow \cup {ArrayKey}
<1>1. Len(o) \in Nat /\ DOMAIN o = 1..Len(o) /\ Len(o) > 0 /\ 1 \in DOMAIN o
  BY SequenceIs, SMTT(60)
<1>2. DOMAIN was = {"k", "o", "whole", "removed"} /\ was.k = "json" /\ was.removed = {}
  BY SMTT(60)
<1>3. DOMAIN kept = {"k", "o", "whole", "removed"} /\ kept.k = "json" /\ kept.o = f /\ kept.removed = RemovedKeys(was)
  BY <1>2
<1>4. /\ DOMAIN f = DOMAIN o
      /\ DOMAIN f[1] = DOMAIN o[1] \cap Env
      /\ \A i \in Rest : DOMAIN f[i] = DOMAIN o[i] \cap ItemAllow
      /\ \A i \in was.whole : f[i] = o[i]
  <2>1. 1 \notin was.whole /\ was.whole \subseteq DOMAIN o /\ Rest \subseteq DOMAIN o /\ 1 \notin Rest
    BY <1>1, SMTT(60)
  <2> HIDE DEF Env
  <2>2. \A i \in DOMAIN o : f[i] = IF i \in was.whole THEN o[i] ELSE Without(o[i], IF i = 1 THEN Env ELSE ItemAllow)
    BY DEF filter_object, Env
  <2>3. \A x, S : DOMAIN Without(x, S) = DOMAIN x \cap S
    BY DEF Without
  <2>4. DOMAIN f = DOMAIN o
    BY DEF filter_object
  <2>5. \A i \in Rest : i # 1 /\ i \notin was.whole
    BY <2>1
  <2> HIDE DEF f, o, Rest
  <2> QED
    BY <1>1, <2>1, <2>2, <2>3, <2>4, <2>5
<1>5. f = [i \in 1..Len(o) |-> f[i]]
  BY <1>1 DEF filter_object
<1> HIDE DEF f
<1>6. IsSequence(f) /\ Len(f) = Len(o) /\ f # <<>>
  <2>1. f \in Seq({f[i] : i \in 1..Len(o)}) /\ Len(f) = Len(o) /\ f # <<>>
    BY <1>1, <1>5, SMTT(60)
  <2> QED
    BY <2>1, IsSequenceOf
<1>7. RemovedKeys(was) = (DOMAIN o[1] \ Env) \cup UNION {DOMAIN o[i] \ ItemAllow : i \in Rest}
  BY DEF RemovedKeys
<1>8. RemovedKeys(was) = UNION {DOMAIN o[i] \ DOMAIN f[i] : i \in DOMAIN o}
  <2>1. DOMAIN o[1] \ DOMAIN f[1] = DOMAIN o[1] \ Env
    BY <1>4
  <2>2. \A i \in Rest : DOMAIN o[i] \ DOMAIN f[i] = DOMAIN o[i] \ ItemAllow
    BY <1>4
  <2>3. DOMAIN o = {1} \cup Rest \cup was.whole
    BY <1>1, SMTT(60)
  <2>4. \A i \in was.whole : DOMAIN o[i] \ DOMAIN f[i] = {}
    BY <1>4
  <2>5. UNION {DOMAIN o[i] \ DOMAIN f[i] : i \in DOMAIN o}
          = (DOMAIN o[1] \ DOMAIN f[1]) \cup UNION {DOMAIN o[i] \ DOMAIN f[i] : i \in Rest}
    <3> HIDE DEF o, Env, Rest
    <3> QED
      BY <2>3, <2>4, ZenonT(60)
  <2>6. UNION {DOMAIN o[i] \ DOMAIN f[i] : i \in Rest} = UNION {DOMAIN o[i] \ ItemAllow : i \in Rest}
    <3> HIDE DEF o, Env, Rest
    <3> QED
      BY <2>2, ZenonT(60)
  <2> HIDE DEF o, Env, Rest
  <2> QED
    BY <1>7, <2>1, <2>5, <2>6
<1>9. JsonLine(kept, was)
  BY <1>3, <1>4, <1>6 DEF JsonLine
<1>10. Allowed(kept, was)
  <2>1. \A i \in (2..Len(kept.o)) \ was.whole : DOMAIN kept.o[i] \subseteq ItemAllow
    <3>1. (2..Len(kept.o)) \ was.whole = Rest
      BY <1>3, <1>6
    <3>2. \A i \in Rest : DOMAIN f[i] \subseteq ItemAllow
      BY <1>4
    <3> HIDE DEF kept, Rest
    <3> QED
      BY <1>3, <3>1, <3>2
  <2>2. DOMAIN kept.o[1] \subseteq Env
    BY <1>3, <1>4
  <2>3. kept.removed = UNION {DOMAIN was.o[i] \ DOMAIN kept.o[i] : i \in DOMAIN was.o}
    BY <1>3, <1>8
  <2> HIDE DEF kept
  <2> QED
    BY <1>3, <2>1, <2>2, <2>3 DEF Allowed
<1>11. JsonLine(was, was)
  BY <1>2 DEF JsonLine
<1>12. ASSUME RemovedKeys(was) = {} PROVE Allowed(was, was)
  <2>1. DOMAIN o[1] \subseteq Env /\ \A i \in Rest : DOMAIN o[i] \subseteq ItemAllow
    <3>1. /\ DOMAIN o[1] \ Env = {}
          /\ \A i \in Rest : DOMAIN o[i] \ ItemAllow = {}
      <4> HIDE DEF o, Env, Rest
      <4> QED
        BY <1>7, <1>12, ZenonT(60)
    <3> HIDE DEF o, Env, Rest
    <3> QED
      BY <3>1
  <2>2. UNION {DOMAIN o[i] \ DOMAIN o[i] : i \in DOMAIN o} = {}
    OBVIOUS
  <2> QED
    BY <1>2, <2>1, <2>2 DEF Allowed
<1> QED
  BY <1>9, <1>10, <1>11, <1>12, SMTT(60)

LEMMA FilteredIs ==
  ASSUME NEW b, NEW was, RestReply(was), b = was \/ TextOnly(b)
  PROVE  LET out == virp_body_filter_apply(b, TRUE) IN
         /\ IsSequence(out)
         /\ \A i \in 1..(Len(out) - 1) : out[i].k = "text"
         /\ out # <<>> => LET line == out[Len(out)] IN
                          line = Stub \/ (JsonLine(line, was[Len(was)]) /\ Allowed(line, was[Len(was)]))
<1> DEFINE out == virp_body_filter_apply(b, TRUE)
           last == Len(b)
           payload == b[last]
           stub == SubSeq(b, 1, last - 1) \o <<Stub>>
           kept == [payload EXCEPT !.o = filter_object(payload), !.removed = RemovedKeys(payload)]
           with == [b EXCEPT ![last] = kept]
           Good(x) == /\ IsSequence(x)
                      /\ \A i \in 1..(Len(x) - 1) : x[i].k = "text"
                      /\ x # <<>> => \/ x[Len(x)] = Stub
                                     \/ JsonLine(x[Len(x)], was[Len(was)]) /\ Allowed(x[Len(x)], was[Len(was)])
<1>1. IsSequence(b) /\ \A i \in DOMAIN b : i # Len(b) => b[i].k = "text"
  BY DEF RestReply, TextOnly
<1>2. last \in Nat /\ DOMAIN b = 1..last /\ b = [i \in 1..last |-> b[i]] /\ (b = <<>> <=> last = 0)
  BY <1>1, SequenceIs
<1>3. CASE last = 0
  <2>1. out = b
    BY <1>3 DEF virp_body_filter_apply
  <2>2. b = <<>> /\ 1..(last - 1) = {}
    BY <1>2, <1>3, SMTT(60)
  <2> HIDE DEF out
  <2>3. Good(out)
    BY <1>1, <2>1, <2>2
  <2> QED
    BY <2>3 DEF out
<1>4. CASE last # 0
  <2>0. last > 0 /\ last \in DOMAIN b /\ last - 1 \in Nat
    BY <1>2, <1>4, SMTT(60)
  <2>1. \A i \in 1..(last - 1) : b[i].k = "text"
    BY <1>1, <1>2, SMTT(60)
  <2>2. Good(stub)
    <3>1. PICK S : b \in Seq(S)
      BY <1>1 DEF IsSequence
    <3>2. stub \in Seq(S \cup {Stub}) /\ Len(stub) = last /\ stub[last] = Stub /\ \A i \in 1..(last - 1) : stub[i] = b[i]
      BY <2>0, <3>1, SMTT(60)
    <3>3. IsSequence(stub)
      BY <3>2, IsSequenceOf
    <3> HIDE DEF stub
    <3> QED
      BY <2>0, <2>1, <3>2, <3>3
  <2>3. CASE payload.k # "json"
    <3>1. out = stub
      BY <1>4, <2>3, SMTT(60) DEF virp_body_filter_apply
    <3> QED
      BY <2>2, <3>1
  <2>4. CASE payload.k = "json"
    <3>1. b = was /\ payload = [k |-> "json", o |-> payload.o, whole |-> payload.whole, removed |-> {}]
          /\ IsSequence(payload.o) /\ payload.o # <<>> /\ payload.whole \subseteq 2..Len(payload.o)
      BY <2>0, <2>4 DEF RestReply, TextOnly
    <3>2. /\ JsonLine(payload, payload) /\ (RemovedKeys(payload) = {} => Allowed(payload, payload))
          /\ JsonLine(kept, payload) /\ Allowed(kept, payload)
      <4> HIDE DEF payload
      <4> QED
        BY <3>1, KeptIs, ZenonT(60)
    <3>3. was[Len(was)] = payload
      BY <3>1
    <3>4. RemovedKeys(payload) = {} => Good(b)
      BY <1>1, <2>1, <3>2, <3>3, SMTT(60)
    <3>5. Good(with)
      <4> HIDE DEF kept
      <4>1. DOMAIN with = 1..last /\ with[last] = kept /\ \A i \in 1..(last - 1) : with[i] = b[i]
        BY <1>2, <2>0, SMTT(60)
      <4>2. with = [i \in 1..last |-> with[i]]
        BY <1>2, <4>1
      <4> HIDE DEF with
      <4>3. with \in Seq({with[i] : i \in 1..last}) /\ Len(with) = last
        BY <1>2, <4>2, SMTT(60)
      <4>4. IsSequence(with)
        BY <4>3, IsSequenceOf
      <4> QED
        BY <2>0, <2>1, <3>2, <3>3, <4>1, <4>3, <4>4, SMTT(60)
    <3>6. \/ RemovedKeys(payload) = {} /\ out = b
          \/ out = with
          \/ out = stub
      BY <1>4, <2>4 DEF virp_body_filter_apply
    <3> HIDE DEF Good, with, stub, out
    <3>7. Good(out)
      BY <2>2, <3>4, <3>5, <3>6
    <3> QED
      BY <3>7 DEF Good, out
  <2> QED
    BY <2>3, <2>4, ZenonT(60)
<1> QED
  BY <1>3, <1>4, ZenonT(60)

(* scrub_line() leaves a stub alone and the keys of an object as they are. *)
LEMMA ScrubbedLine ==
  ASSUME NEW line, NEW was, line = Stub \/ (JsonLine(line, was) /\ Allowed(line, was))
  PROVE  line.k # "pem" /\ (scrub_line(line) = Stub \/ Allowed(scrub_line(line), was))
<1>1. CASE line = Stub
  <2>1. line.k = "stub"
    BY <1>1 DEF Stub
  <2>2. line.k # "text" /\ line.k # "json" /\ line.k # "pem"
    BY <2>1
  <2>3. scrub_line(line) = line
    BY <2>2 DEF scrub_line
  <2> QED
    BY <1>1, <2>2, <2>3
<1>2. CASE JsonLine(line, was) /\ Allowed(line, was)
  <2> DEFINE o == line.o
             r == rule_json_labeled_secret(o)
             new == [line EXCEPT !.o = rule_json_labeled_secret(@)]
  <2>1. line.k = "json"
    BY <1>2 DEF Allowed
  <2>2. line.k # "text" /\ line.k # "pem"
    BY <2>1
  <2>3. scrub_line(line) = new
    BY <2>1, <2>2 DEF scrub_line
  <2>4. new.k = "json" /\ new.o = r /\ new.removed = line.removed
    BY <1>2, <2>1 DEF JsonLine
  <2>5. Len(o) \in Nat /\ DOMAIN o = 1..Len(o) /\ Len(o) > 0
    BY <1>2, SequenceIs, SMTT(60) DEF JsonLine
  <2>6. r = [i \in 1..Len(o) |-> r[i]] /\ \A i \in DOMAIN o : DOMAIN r[i] = DOMAIN o[i]
    BY <2>5 DEF rule_json_labeled_secret
  <2>7. Len(r) = Len(o)
    <3> HIDE DEF r
    <3> QED
      BY <2>5, <2>6, SMTT(60)
  <2>8. UNION {DOMAIN was.o[i] \ DOMAIN o[i] : i \in DOMAIN was.o} = UNION {DOMAIN was.o[i] \ DOMAIN r[i] : i \in DOMAIN was.o}
    <3>1. \A i \in DOMAIN was.o : DOMAIN r[i] = DOMAIN o[i]
      BY <1>2, <2>6 DEF JsonLine
    <3> HIDE DEF r, o
    <3> QED
      BY <3>1
  <2> HIDE DEF r, new
  <2>9. /\ DOMAIN r[1] \subseteq EnvelopeAllow \cup {ArrayKey}
        /\ \A i \in (2..Len(r)) \ was.whole : DOMAIN r[i] \subseteq ItemAllow
    <3>1. /\ DOMAIN o[1] \subseteq EnvelopeAllow \cup {ArrayKey}
          /\ \A i \in (2..Len(o)) \ was.whole : DOMAIN o[i] \subseteq ItemAllow
      BY <1>2 DEF Allowed
    <3> HIDE DEF o
    <3> QED
      BY <2>5, <2>6, <2>7, <3>1, SMTT(60)
  <2>10. Allowed(new, was)
    BY <1>2, <2>4, <2>8, <2>9 DEF Allowed
  <2> QED
    BY <2>2, <2>3, <2>10
<1> QED
  BY <1>1, <1>2

(* Without a line of PEM no block is ever open. *)
LEMMA NeverInPem ==
  ASSUME NEW b, Len(b) \in Nat, \A j \in 1..Len(b) : ~line_opens_pem(b[j]), NEW i \in 1..Len(b)
  PROVE  ~InPem(b, i)
<1> DEFINE n == Len(b)
           G(g, j) == IF j = 0 THEN FALSE ELSE IF g[j - 1] THEN ~line_closes_pem(b[j]) ELSE line_opens_pem(b[j])
           in_pem == CHOOSE g : g = [j \in 0..n |-> G(g, j)]
<1>1. InPem(b, i) = in_pem[i - 1]
  BY DEF InPem
<1>2. in_pem = [j \in 0..n |-> G(in_pem, j)]
  <2> DEFINE g == [j \in 0..n |-> FALSE]
  <2>1. \A j \in 0..n : j = 0 \/ (j \in 1..n /\ j - 1 \in 0..n)
    BY SMTT(60)
  <2>2. \A j \in 0..n : G(g, j) = FALSE
    <3>1. \A j \in 1..n : line_opens_pem(b[j]) = FALSE
      BY DEF line_opens_pem
    <3> QED
      BY <2>1, <3>1
  <2>3. g = [j \in 0..n |-> G(g, j)]
    <3> HIDE DEF G
    <3> QED
      BY <2>2
  <2> HIDE DEF g, G
  <2> QED
    BY <2>3
<1> HIDE DEF in_pem
<1>3. \A j \in 0..n : in_pem[j] = G(in_pem, j)
  <2> HIDE DEF G
  <2> QED
    BY <1>2
<1> DEFINE T == {j \in 0..n : in_pem[j]}
<1>4. T = {}
  <2>1. SUFFICES ASSUME T # {} PROVE FALSE
    OBVIOUS
  <2>2. PICK m \in T : \A j \in T : m <= j
    <3>1. T \subseteq Nat
      BY SMTT(60)
    <3> HIDE DEF T
    <3> QED
      BY <2>1, <3>1, Least
  <2>3. m # 0
    BY <1>3, <2>2
  <2>4. m \in 1..n /\ m - 1 \in 0..n /\ ~(m <= m - 1)
    BY <2>2, <2>3, SMTT(60)
  <2>5. ~in_pem[m - 1]
    BY <2>2, <2>4
  <2> QED
    BY <1>3, <2>2, <2>3, <2>4, <2>5
<1>5. i - 1 \in 0..n
  BY SMTT(60)
<1> QED
  BY <1>1, <1>4, <1>5

(* The last line of what virp_scrub_body() makes of a filtered payload. *)
LEMMA ScrubbedIs ==
  ASSUME NEW b, NEW was, IsSequence(b), b # <<>>,
         \A i \in 1..(Len(b) - 1) : b[i].k = "text",
         b[Len(b)] = Stub \/ (JsonLine(b[Len(b)], was) /\ Allowed(b[Len(b)], was))
  PROVE  LET out == virp_scrub_field(b, Cap) IN
         out # <<>> => out[Len(out)] \in {Stub, ScrubError} \/ Allowed(out[Len(out)], was)
<1> DEFINE ss == [i \in DOMAIN b |->
                    IF InPem(b, i) THEN IF line_closes_pem(b[i]) THEN <<b[i]>> ELSE <<>>
                    ELSE IF ~line_opens_pem(b[i]) THEN <<scrub_line(b[i])>>
                    ELSE IF b[i].open THEN <<[b[i] EXCEPT !.w = Append(@, Mark)]>>
                    ELSE <<b[i], Words(<<Mark>>)>>]
           out == virp_scrub_field(b, Cap)
           n == Len(b)
           S == {scrub_line(b[i]) : i \in 1..n}
<1>1. n \in Nat /\ n > 0 /\ DOMAIN b = 1..n
  BY SequenceIs, SMTT(60)
<1>2. b[n].k # "pem" /\ (scrub_line(b[n]) = Stub \/ Allowed(scrub_line(b[n]), was))
  <2> HIDE DEF n
  <2> QED
    BY ScrubbedLine DEF n
<1>3. \A i \in 1..n : ~line_opens_pem(b[i])
  <2>1. \A i \in 1..(n - 1) : b[i].k # "pem"
    OBVIOUS
  <2>2. \A i \in 1..n : b[i].k # "pem"
    BY <1>1, <1>2, <2>1, SMTT(60)
  <2> QED
    BY <2>2 DEF line_opens_pem
<1>4. \A i \in 1..n : ~InPem(b, i)
  BY <1>1, <1>3, NeverInPem
<1>5. \A i \in 1..n : ss[i] = <<scrub_line(b[i])>>
  BY <1>1, <1>3, <1>4
<1>6. ss = [i \in 1..n |-> ss[i]]
  BY <1>1
<1>7. virp_scrub_body(b) = Concat(ss)
  BY DEF virp_scrub_body
<1> HIDE DEF ss
<1>8. ss \in Seq(Seq(S)) /\ Len(ss) = n /\ ss # <<>> /\ ss[n] = <<scrub_line(b[n])>>
  <2>1. \A i \in 1..n : ss[i] \in Seq(S)
    <3> TAKE i \in 1..n
    <3>1. scrub_line(b[i]) \in S /\ ss[i] = <<scrub_line(b[i])>>
      BY <1>5
    <3>2. \A x \in S : <<x>> \in Seq(S)
      <4> HIDE DEF S
      <4> QED
        BY SMTT(60)
    <3> QED
      BY <3>1, <3>2
  <2> HIDE DEF S
  <2> QED
    BY <1>1, <1>5, <1>6, <2>1, SMTT(60)
<1>9. Concat(ss)[Len(Concat(ss))] = scrub_line(b[n])
  <2>1. ss[n] # <<>> /\ ss[n][Len(ss[n])] = scrub_line(b[n])
    BY <1>8, SMTT(60)
  <2> HIDE DEF S, n
  <2> QED
    BY <1>8, <2>1, ConcatKeeps
<1>10. out = Concat(ss) \/ out = <<ScrubError>>
  BY <1>7 DEF virp_scrub_field
<1>11. CASE out = Concat(ss)
  <2> HIDE DEF out, n
  <2>1. out[Len(out)] = Stub \/ Allowed(out[Len(out)], was)
    BY <1>2, <1>9, <1>11
  <2> QED
    BY <2>1 DEF out
<1>12. CASE out = <<ScrubError>>
  <2> HIDE DEF out
  <2>1. out[Len(out)] = ScrubError
    BY <1>12
  <2> QED
    BY <2>1 DEF out
<1> QED
  BY <1>10, <1>11, <1>12, SMTT(60)

LEMMA FilteringInvariant == Spec => []Filtering
<1>1. Init => Filtering
  BY DEF Init, Filtering
<1>2. Filtering /\ [Next]_vars => Filtering'
  <2> SUFFICES ASSUME Filtering, [Next]_vars, match_rule(req.kind, req.c)' PROVE Filtering'
    BY DEF Filtering
  <2>1. CASE LoadDevice
    <3>1. UNCHANGED <<req, raw, body>> /\ phase = "load" /\ phase' \in {"load", "fatal"}
      BY <2>1 DEF LoadDevice, LoadLinux, LoadWazuh
    <3> QED
      BY <3>1 DEF Filtering
  <2>2. CASE Start \/ Answered \/ \E mode \in {"enforced", "open", "policy"} : Request(mode)
    <3>1. phase' \in {"up", "fatal", "sent", "refused"}
      <4>1. Start => phase' \in {"up", "fatal"}
        BY DEF Start
      <4>2. Answered => phase' = "up"
        BY DEF Answered
      <4>3. ASSUME NEW mode, Request(mode) PROVE phase' \in {"sent", "refused"}
        BY <4>3 DEF Request
      <4> QED
        BY <2>2, <4>1, <4>2, <4>3
    <3> QED
      BY <3>1 DEF Filtering
  <2>3. CASE Capture
    <3>1. req' = req /\ phase' = "captured" /\ req.kind = "librenms"
      BY <2>3 DEF Capture, match_rule
    <3>2. ~returns_config(req.kind, req.c)
      BY <3>1 DEF returns_config
    <3>3. PICK b \in Bodies["librenms"][Class("librenms", req.c)] : raw' = b /\ body' = store_output(b, FALSE)
      BY <2>3, <3>1, <3>2 DEF Capture
    <3>4. Class("librenms", req.c) \in {"config", "rest", "text"}
      BY DEF Class
    <3>5. RestReply(b)
      BY <3>3, <3>4, InputsAssumption
    <3>6. body' = b \/ TextOnly(body')
      BY <3>3, <3>5, StoredIs
    <3>7. RestReply(raw') /\ (body' = raw' \/ TextOnly(body'))
      BY <3>3, <3>5, <3>6
    <3> QED
      BY <3>1, <3>7 DEF Filtering, RestReply, TextOnly, IsSequence
  <2>4. CASE Filter
    <3>1. req' = req /\ raw' = raw /\ phase = "captured" /\ phase' = "filtered"
      BY <2>4 DEF Filter
    <3>2. match_rule(req.kind, req.c) = TRUE
      BY <3>1 DEF match_rule
    <3>3. body' = virp_body_filter_apply(body, TRUE)
      BY <2>4, <3>2 DEF Filter
    <3>4. RestReply(raw) /\ (body = raw \/ TextOnly(body))
      BY <3>1, <3>2 DEF Filtering
    <3>5. FilteredBody'
      BY <3>1, <3>3, <3>4, FilteredIs, ZenonT(60) DEF FilteredBody
    <3> QED
      BY <3>1, <3>5 DEF Filtering
  <2>5. CASE ScrubAndSign
    <3>1. req' = req /\ raw' = raw /\ phase = "filtered" /\ phase' = "signed"
      BY <2>5 DEF ScrubAndSign
    <3>2. match_rule(req.kind, req.c) /\ FilteredBody
      BY <3>1 DEF Filtering
    <3>3. CASE body = <<>>
      <4>1. body' = <<>>
        BY <2>5, <3>3 DEF ScrubAndSign
      <4> QED
        BY <3>1, <4>1 DEF Filtering, FilteredIsAllowlisted
    <3>4. CASE body # <<>>
      <4>1. body' = virp_scrub_field(body, Cap)
        BY <2>5, <3>4 DEF ScrubAndSign
      <4>2. body' # <<>> => body'[Len(body')] \in {Stub, ScrubError} \/ Allowed(body'[Len(body')], raw[Len(raw)])
        BY <3>2, <3>4, <4>1, ScrubbedIs, ZenonT(60) DEF FilteredBody
      <4>3. FilteredIsAllowlisted'
        BY <3>1, <4>2 DEF FilteredIsAllowlisted, Allowed
      <4> QED
        BY <3>1, <4>3 DEF Filtering
    <3> QED
      BY <3>3, <3>4
  <2>6. CASE UNCHANGED vars
    <3>1. UNCHANGED <<phase, req, raw, body>>
      BY <2>6 DEF vars
    <3>2. FilteredBody' = FilteredBody /\ FilteredIsAllowlisted' = FilteredIsAllowlisted
      BY <3>1, SMTT(60) DEF FilteredBody, FilteredIsAllowlisted
    <3> QED
      BY <3>1, <3>2 DEF Filtering
  <2> QED
    BY <2>1, <2>2, <2>3, <2>4, <2>5, <2>6, SMTT(60) DEF Next
<1> QED
  BY <1>1, <1>2, PTL DEF Spec

(* A payload that a rule of virp_body_filter.c matches is signed with allowed
   keys only and a record of every key removed, or as a stub, whatever the
   device answered and wherever the driver or the scrub cut it; but for what the
   array key holds that is no array of objects, which is kept. *)
THEOREM FilteredStaysAllowlisted == Spec => []FilteredIsAllowlisted
<1>1. Filtering => FilteredIsAllowlisted
  BY DEF Filtering, FilteredIsAllowlisted
<1> QED
  BY <1>1, FilteringInvariant, PTL

=============================================================================
