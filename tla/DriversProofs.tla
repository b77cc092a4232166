--------------------------- MODULE DriversProofs ---------------------------
(***************************************************************************)
(* The contract of the device drivers, for any number of calls,            *)
(* connections, log lines and host keys.  Every handler sends a line or    *)
(* learns the prompt and comes back at call.then, so the invariants speak  *)
(* of the handler the driver is in (Place): the channel steps keep it.     *)
(***************************************************************************)
EXTENDS Drivers, TLAPS

USE ChannelAssumption, ConnectAssumption
USE ZenonT(20)

(* Where a send-and-read, and where the learning of a prompt, comes back. *)
SendThens == {"ios.ran", "ios.rebooted", "ios.step", "asa.ran", "junos.ran", "panos.pager",
              "panos.ran", "panos.kept"}
LearnThens == {"up", "up.again", "enabled", "ios.again", "ios.moved", "ios.settled",
               "asa.verified", "asa.enabled", "junos.refused", "junos.moved", "junos.settled",
               "panos.learned"}
Chan == {"send", "read", "learn", "probe1", "probe2"}

Place == IF pc \in Chan THEN call.then ELSE pc

(* A call is served and nothing of it has been written ... *)
Before_ == {"ios.start", "ios.again", "asa.start", "asa.verified", "asa.enabled", "junos.start",
            "junos.refuse", "linux.open", "linux.exec", "fg.shell", "pbs", "zammad", "librenms",
            "wazuh", "wazuh.request", "gns3", "mock"}

(* ... or it may have been, and no path from here says no_dispatch. *)
Sending == {"ios.ran", "ios.rebooted", "ios.moved", "ios.step", "ios.settled", "asa.ran",
            "junos.ran", "junos.moved", "junos.settled", "junos.refused", "panos.ran",
            "linux.read", "fg.read"}

(* PAN-OS makes its session ready, for the thread or for a call. *)
Warming == {"panos.learned", "panos.pager", "panos.kept"}

Opening == {"login", "greeted"}

Places == Chan \cup SendThens \cup LearnThens \cup Before_ \cup Sending \cup Opening \cup {"idle"}

(* The call that is or will be served. *)
Current == result.id + 1

(* The fields of the records; what they hold is in the invariants. *)
Shape ==
    /\ DOMAIN call = DOMAIN NoCall
    /\ DOMAIN conn = DOMAIN NoConn
    /\ DOMAIN login = DOMAIN NoLogin
    /\ kind \in Kinds /\ result.id \in Nat /\ pc \in Places
    /\ pc \in {"send", "read"} => call.then \in SendThens
    /\ pc \in {"learn", "probe1", "probe2"} => call.then \in LearnThens

(***************************************************************************)
(* Who uses the connection, and under which number.                        *)
(***************************************************************************)
Numbers ==
    /\ Place \in Before_ \cup Sending => call.id = Current
    /\ Place \in Opening /\ call.again => call.id = Current /\ login.up
    /\ Place \in {"panos.pager", "panos.kept"} => call.id = 0
    /\ keepalive = "locked" => Place \in Warming
    /\ waiting # None =>
          /\ kind = "panos" /\ login.up /\ waiting.id = Current
          /\ pc = "idle" \/ keepalive = "locked"

(* Nothing of the current call was written before its handler says so: in
   particular a reconnected Cisco session has seen nothing of it. *)
Unwritten ==
    /\ \A c \in sent : c \in Nat /\ c <= Current
    /\ Current \in sent => Place \in Sending
    /\ pc = "send" /\ Place \in {"ios.ran", "asa.ran", "junos.ran", "panos.ran"} => Current \notin sent
    /\ pc = "ios.ran" /\ call.rerr = "closed" => Current \notin sent

Flow == Shape /\ Numbers /\ Unwritten /\ NotSentIsTrue

(***************************************************************************)
(* What the device has been told in the name of a call, read or not.       *)
(***************************************************************************)
IsSeq(s) == \E S : s \in Seq(S)

Words(c) ==
    {ch.line[i].word : i \in {k \in DOMAIN ch.line : ch.line[k].id = c}}
    \cup (IF c \in Calls THEN {ran[c][k][1] : k \in DOMAIN ran[c]} ELSE {})

Lines ==
    /\ DOMAIN ch = DOMAIN NoChannel /\ IsSeq(ch.line)
    /\ DOMAIN ran = Calls /\ \A c \in Calls : IsSeq(ran[c])
    /\ \A i, j \in DOMAIN ch.line :
          i # j /\ ch.line[i].id = ch.line[j].id /\ ch.line[i].id # 0 => ch.line[i].word # ch.line[j].word
    /\ \A i \in DOMAIN ch.line : ch.line[i].id \in Calls =>
          \A k \in DOMAIN ran[ch.line[i].id] : ran[ch.line[i].id][k][1] # ch.line[i].word
    /\ RanAtMostOnce
    /\ \A i \in DOMAIN ch.line : ch.line[i].id \in sent \cup {0}
    /\ \A c \in Calls \ sent : ran[c] = <<>>

(* Within a call: the next line is none of those. *)
Fresh ==
    /\ pc = "send" /\ call.id # 0 => call.line \notin Words(call.id)
    /\ Place = "ios.ran" => Words(Current) \subseteq {call.cmd} /\ (pc = "send" => call.line = call.cmd)
    /\ Place = "ios.rebooted" => Words(Current) \subseteq {"reload", "y"}
    /\ Place = "ios.rebooted" /\ pc = "send" => Words(Current) \subseteq {"reload"} /\ call.line = "y"
    /\ Place \in {"ios.step", "ios.settled"} =>
          call.step \in 1..4 /\ Words(Current) \subseteq {Steps[j] : j \in 1..call.step}
    /\ Place = "ios.step" /\ pc = "send" =>
          Words(Current) \subseteq {Steps[j] : j \in 1..(call.step - 1)} /\ call.line = Steps[call.step]

-----------------------------------------------------------------------------
(* What a channel step leaves alone: the driver stays in its handler, either
   still in the channel or back in the handler itself. *)
Stays ==
    /\ DOMAIN call' = DOMAIN NoCall
    /\ pc \in Chan /\ pc' \in (Chan \ {"send"}) \cup {call.then}
    /\ pc = "send" => pc' \in {"read", call.then}
    /\ pc = "read" => pc' = call.then
    /\ pc \in {"learn", "probe1", "probe2"} => pc' \in {"probe1", "probe2", call.then}
    /\ call'.then = call.then /\ call'.id = call.id /\ call'.cmd = call.cmd
    /\ call'.line = call.line /\ call'.again = call.again /\ call'.step = call.step
    /\ call'.failed = call.failed

LEMMA FinishesStays ==
    ASSUME Shape, pc \in Chan, NEW r, NEW b, Finishes(r, b)
    PROVE  Stays /\ pc' = call.then /\ call'.rerr = r /\ call'.body = b
BY DEF Shape, Finishes, At, Stays, NoCall, Chan

LEMMA ChannelStays ==
    ASSUME Shape, ChannelStep
    PROVE  Stays
<1>1. CASE Send
  BY <1>1, FinishesStays DEF Send, At, Stays, Chan, Shape, NoCall
<1>2. CASE ReadPrompt
  BY <1>2, FinishesStays DEF ReadPrompt, At, Stays, Chan, Shape, NoCall
<1>3. CASE ReadFails
  BY <1>3, FinishesStays DEF ReadFails, At, Stays, Chan, Shape, NoCall
<1>4. CASE Learn
  BY <1>4, FinishesStays DEF Learn, At, Stays, Chan, Shape, NoCall
<1>5. CASE Probe1
  BY <1>5, FinishesStays DEF Probe1, At, Stays, Chan, Shape, NoCall
<1>6. CASE Probe2
  BY <1>6, FinishesStays DEF Probe2, At, Stays, Chan, Shape, NoCall
<1> QED
  BY <1>1, <1>2, <1>3, <1>4, <1>5, <1>6 DEF ChannelStep

(* Only Send writes; a read never ends in "closed". *)
LEMMA ChannelWrites ==
    ASSUME Shape, ChannelStep
    PROVE  /\ UNCHANGED <<kind, result, ran, conns>>
           /\ sent' = sent \/ (pc = "send" /\ pc' = "read" /\ sent' = sent \cup {call.id})
           /\ pc = "read" => call'.rerr \in {"ok", "noprompt"}
           /\ DOMAIN conn' = DOMAIN conn
<1>1. CASE Send
  BY <1>1 DEF Send, At
<1>2. CASE ReadPrompt
  BY <1>2, FinishesStays DEF ReadPrompt, Chan
<1>3. CASE ReadFails
  BY <1>3, FinishesStays DEF ReadFails, Chan
<1>4. CASE Learn
  BY <1>4 DEF Learn
<1>5. CASE Probe1
  BY <1>5 DEF Probe1
<1>6. CASE Probe2
  BY <1>6 DEF Probe2
<1> QED
  BY <1>1, <1>2, <1>3, <1>4, <1>5, <1>6 DEF ChannelStep

(* The channel keeps the place, and with it what the place stands for. *)
LEMMA ChannelFlow ==
    ASSUME Flow, ChannelStep, UNCHANGED threads
    PROVE  Flow'
<1>0. Stays /\ Shape
  BY ChannelStays DEF Flow
<1>1. Place' = Place /\ pc # "idle" /\ pc' # "idle"
  BY <1>0 DEF Stays, Place, Shape, Chan, SendThens, LearnThens
<1>2. Shape'
  <2>1. pc' \in Places /\ call'.then = call.then
    BY <1>0 DEF Stays, Shape, Chan, Places, SendThens, LearnThens
  <2>2. pc' \in {"send", "read"} => pc = "send"
    BY <1>0 DEF Stays, Shape, Chan, SendThens, LearnThens
  <2>3. pc' \in {"learn", "probe1", "probe2"} => pc \in {"learn", "probe1", "probe2"}
    BY <1>0 DEF Stays, Shape, Chan, SendThens, LearnThens
  <2> QED
    BY <1>0, <2>1, <2>2, <2>3, ChannelWrites, threads' = threads DEF Stays, Shape, threads
<1>3. Numbers'
  BY <1>0, <1>1, ChannelWrites DEF Flow, Numbers, Stays, threads, Current, Opening, Shape
<1>4. Unwritten'
  <2>1. CASE sent' = sent
    BY <2>1, <1>0, <1>1, ChannelWrites
       DEF Flow, Unwritten, Stays, Current, Shape, Chan, Place, SendThens, LearnThens
  <2>2. CASE pc = "send" /\ pc' = "read" /\ sent' = sent \cup {call.id}
    <3>1. Place \in SendThens /\ result' = result /\ result.id \in Nat
      BY <2>2, <1>0, ChannelWrites DEF Place, Chan, Shape
    <3>2. \/ call.id = 0
          \/ call.id = Current /\ Place \in Sending
      BY <3>1 DEF Flow, Numbers, SendThens, Sending, Before_
    <3> QED
      BY <2>2, <3>1, <3>2, <1>1, SMTT(60) DEF Flow, Unwritten, Current
  <2> QED
    BY <2>1, <2>2, <1>0, ChannelWrites
<1>5. NotSentIsTrue'
  BY <1>0, <1>1, ChannelWrites, SMTT(60) DEF Flow, NotSentIsTrue, Returned, Unwritten, Numbers, Current,
     Shape, Place, Chan, SendThens, Sending, Before_, Stays
<1> QED
  BY <1>2, <1>3, <1>4, <1>5 DEF Flow

-----------------------------------------------------------------------------
(* The kinds of handler steps.  Alone: nobody waits for the session and the
   keepalive thread is not in its section. *)
Alone == waiting = None /\ keepalive # "locked" /\ result.id \in Nat

LEMMA ServingAlone ==
    ASSUME Flow, Place \in Before_ \cup Sending
    PROVE  Alone /\ call.id = Current
BY DEF Flow, Numbers, Shape, Place, Before_, Sending, Warming, Chan, Alone

LEMMA IdleAlone ==
    ASSUME Flow, pc = "idle", kind # "panos"
    PROVE  Alone /\ Current \notin sent
BY DEF Flow, Numbers, Unwritten, Shape, Place, Sending, Warming, Chan, Alone

(* The handler goes on with its call. *)
LEMMA GoesOnThen ==
    ASSUME Flow, Shape', waiting' = None, keepalive' # "locked", sent' = sent,
           Place' \in Before_ \cup Sending, call'.id = Current,
           result'.id = result.id, result' = result \/ ~result'.no_dispatch,
           Place' \in Sending \/ Current \notin sent,
           pc' = "send" /\ Place' \in {"ios.ran", "asa.ran", "junos.ran", "panos.ran"} => Current \notin sent,
           pc' # "ios.ran"
    PROVE  Flow'
<1>2. Current' = Current
  BY DEF Current
<1>3. Numbers'
  BY <1>2 DEF Numbers, Before_, Sending, Opening
<1>4. Unwritten'
  BY <1>2 DEF Flow, Unwritten
<1>5. NotSentIsTrue'
  BY DEF Flow, NotSentIsTrue, Returned
<1> QED
  BY <1>3, <1>4, <1>5 DEF Flow

LEMMA GoesOn ==
    ASSUME Flow, Alone, Shape', UNCHANGED <<keepalive, waiting, sent>>,
           Place' \in Before_ \cup Sending, call'.id = Current,
           result'.id = result.id, result' = result \/ ~result'.no_dispatch,
           Place' \in Sending \/ Current \notin sent,
           pc' = "send" /\ Place' \in {"ios.ran", "asa.ran", "junos.ran", "panos.ran"} => Current \notin sent,
           pc' # "ios.ran"
    PROVE  Flow'
BY GoesOnThen DEF Alone

(* The call returns. *)
LEMMA EndsThen ==
    ASSUME Flow, Shape', waiting' = None, keepalive' # "locked", pc' = "idle",
           result'.id = Current, sent' \subseteq sent \cup {Current},
           result'.no_dispatch => Current \notin sent'
    PROVE  Flow'
<1>2. Current' = Current + 1 /\ Current \in Nat
  BY DEF Current, Flow, Shape
<1>3. Numbers'
  BY DEF Numbers, Place, Chan, Before_, Sending, Opening
<1>4. Unwritten'
  BY <1>2, SMTT(60) DEF Flow, Unwritten
<1>5. NotSentIsTrue'
  BY DEF Flow, NotSentIsTrue, Returned
<1> QED
  BY <1>3, <1>4, <1>5 DEF Flow

LEMMA Ends ==
    ASSUME Flow, Alone, Shape', UNCHANGED <<keepalive, waiting>>, pc' = "idle",
           result'.id = Current, sent' \subseteq sent \cup {Current},
           result'.no_dispatch => Current \notin sent'
    PROVE  Flow'
BY EndsThen DEF Alone

(* The session is made ready; a call that waits keeps waiting. *)
LEMMA Warms ==
    ASSUME Flow, Shape', UNCHANGED <<kind, result, sent>>, login'.up = login.up,
           Place' \in Warming, Place' \in {"panos.pager", "panos.kept"} => call'.id = 0,
           Current \notin sent,
           waiting' = None \/ (waiting' = waiting /\ keepalive' = "locked")
    PROVE  Flow'
<1>2. Current' = Current
  BY DEF Current
<1>3. Numbers'
  BY <1>2 DEF Flow, Numbers, Before_, Sending, Opening, Warming
<1>4. Unwritten'
  BY <1>2 DEF Flow, Unwritten, Warming, Place, Chan
<1>5. NotSentIsTrue'
  BY DEF Flow, NotSentIsTrue, Returned
<1> QED
  BY <1>3, <1>4, <1>5 DEF Flow

(* No call is served: at rest, or connecting. *)
LEMMA Rests ==
    ASSUME Flow, Shape', UNCHANGED <<kind, result, sent>>, Current \notin sent,
           Place' \in {"idle", "up", "up.again", "enabled"}, keepalive' # "locked",
           waiting' = None \/ (waiting' = waiting /\ pc' = "idle" /\ login'.up = login.up)
    PROVE  Flow'
<1>2. Current' = Current
  BY DEF Current
<1>3. Numbers'
  BY <1>2 DEF Flow, Numbers, Before_, Sending, Opening
<1>4. Unwritten'
  BY <1>2 DEF Flow, Unwritten, Place, Chan
<1>5. NotSentIsTrue'
  BY DEF Flow, NotSentIsTrue, Returned
<1> QED
  BY <1>3, <1>4, <1>5 DEF Flow

(* A connection is being opened, perhaps in the middle of a call. *)
LEMMA Opens ==
    ASSUME Flow, Shape', UNCHANGED <<result, sent>>, Current \notin sent,
           pc' \in Opening, keepalive' # "locked", waiting' = None,
           call'.again => call'.id = Current /\ login'.up
    PROVE  Flow'
<1>2. Current' = Current /\ Place' = pc'
  BY DEF Current, Place, Chan, Opening
<1>3. Numbers'
  BY <1>2 DEF Flow, Numbers, Before_, Sending, Opening
<1>4. Unwritten'
  BY <1>2 DEF Flow, Unwritten, Opening
<1>5. NotSentIsTrue'
  BY DEF Flow, NotSentIsTrue, Returned
<1> QED
  BY <1>3, <1>4, <1>5 DEF Flow

(* What Begins leaves. *)
LEMMA Beginning ==
    ASSUME Flow, kind # "panos", NEW cmd, Begins(cmd)
    PROVE  /\ Alone /\ Current \notin sent /\ pc = "idle" /\ login.up
           /\ DOMAIN call' = DOMAIN NoCall
           /\ call'.id = Current /\ call'.cmd = cmd /\ ~call'.again /\ Current \in Calls
           /\ call'.body = <<>> /\ call'.step = 0 /\ call'.rerr = "ok" /\ ~call'.failed
BY IdleAlone DEF Begins, Current, NoCall

LEMMA SendsCall ==
    ASSUME Shape, NEW line, NEW then, Sends(line, then)
    PROVE  /\ DOMAIN call' = DOMAIN NoCall /\ pc' = "send"
           /\ call'.line = line /\ call'.then = then
           /\ call'.id = call.id /\ call'.cmd = call.cmd /\ call'.again = call.again
           /\ call'.rerr = call.rerr /\ call'.body = call.body
           /\ call'.step = call.step /\ call'.failed = call.failed
BY DEF Shape, Sends, At, NoCall

LEMMA LearnsCall ==
    ASSUME Shape, NEW then, Learns(then)
    PROVE  /\ DOMAIN call' = DOMAIN NoCall /\ pc' = "learn"
           /\ call'.line = call.line /\ call'.then = then
           /\ call'.id = call.id /\ call'.cmd = call.cmd /\ call'.again = call.again
           /\ call'.rerr = call.rerr /\ call'.body = call.body
           /\ call'.step = call.step /\ call'.failed = call.failed
BY DEF Shape, Learns, At, NoCall

(* A handler that is not in the channel is at its place. *)
LEMMA AtPlace ==
    ASSUME pc \notin Chan
    PROVE  Place = pc
BY DEF Place

(* A step of the interface transaction sends a later line or returns. *)
LEMMA CiscoStepCases ==
    ASSUME Shape, CiscoStep
    PROVE  /\ UNCHANGED <<kind, login, keepalive, waiting, ch, dev, sent, ran>>
           /\ pc \in {"ios.step", "ios.settled"} /\ DOMAIN conn' = DOMAIN NoConn
           /\ \/ /\ pc' = "idle" /\ UNCHANGED call /\ result'.id = call.id /\ ~result'.no_dispatch
                 /\ \E f : result'.success = ~f /\ (~f => call.rerr = "ok")
              \/ /\ pc' = "send" /\ UNCHANGED result /\ call.step # 4
                 /\ DOMAIN call' = DOMAIN NoCall /\ call'.id = call.id /\ call'.then = "ios.step"
                 /\ call'.cmd = call.cmd /\ call'.again = call.again
                 /\ call'.step \in {4, call.step + 1} /\ call'.line = Steps[call'.step]
<1> USE DEF At, Same, counters, threads
<1> DEFINE ok == call.rerr = "ok" /\ Mode # "unknown"
           c == IF ok THEN Settled ELSE conn
           failed == call.failed \/ ~ok \/ c.mode # StepMode[call.step] \/ Has("err")
           next == IF failed THEN 4 ELSE call.step + 1
           d == IF call.step = 4 /\ (~ok \/ c.mode # "exec") THEN [c EXCEPT !.connected = FALSE] ELSE c
<1>1. DOMAIN c = DOMAIN NoConn /\ DOMAIN d = DOMAIN NoConn
  BY DEF Settled, Shape
<1>2. \/ UNCHANGED call /\ TransactionEnds(failed, d)
      \/ /\ call.step # 4
         /\ call' = [call EXCEPT !.step = next, !.failed = failed, !.line = Steps[next],
                                 !.then = "ios.step"]
         /\ pc' = "send" /\ conn' = c /\ UNCHANGED result
  BY DEF CiscoStep
<1>3. next \in {4, call.step + 1} /\ (~failed => call.rerr = "ok")
  OBVIOUS
<1>4. UNCHANGED <<kind, login, keepalive, waiting, ch, dev, sent, ran>> /\ pc \in {"ios.step", "ios.settled"}
  BY DEF CiscoStep
<1> HIDE DEF ok, c, failed, next, d
<1>5. CASE UNCHANGED call /\ TransactionEnds(failed, d)
  BY <1>1, <1>3, <1>4, <1>5 DEF TransactionEnds, Return, Result, Outcome
<1>6. CASE /\ call.step # 4
           /\ call' = [call EXCEPT !.step = next, !.failed = failed, !.line = Steps[next],
                                   !.then = "ios.step"]
           /\ pc' = "send" /\ conn' = c /\ UNCHANGED result
  BY <1>1, <1>3, <1>4, <1>6 DEF Shape, NoCall
<1> QED
  BY <1>2, <1>5, <1>6

LEMMA CiscoFlow ==
    ASSUME Flow, CiscoNext
    PROVE  Flow'
<1> USE DEF At, Same, counters, threads
<1>0. Shape
  BY DEF Flow
<1>1. ASSUME NEW cmd \in Commands, CiscoExecute(cmd) PROVE Flow'
  <2>1. /\ Alone /\ Current \notin sent /\ pc = "idle"
        /\ DOMAIN call' = DOMAIN NoCall /\ call'.id = Current
    BY <1>1, Beginning DEF CiscoExecute
  <2>2. CASE pc' = "idle"
    <3>1. Shape'
      BY <1>0, <1>1, <2>1, <2>2, SMTT(60) DEF CiscoExecute, Return, Refused, Result, Outcome, Shape, Places, Current, Alone
    <3> QED
      BY <1>1, <2>1, <2>2, <3>1, Ends, SMTT(60) DEF CiscoExecute, Return, Refused, Result, Outcome, Clears
  <2>3. CASE pc' # "idle"
    <3>1. Shape' /\ pc' = "ios.start"
      BY <1>0, <1>1, <2>1, <2>3, SMTT(60) DEF CiscoExecute, Return, Shape, Places, Clears, Before_
    <3>2. Place' = "ios.start"
      BY <3>1 DEF Place, Chan
    <3> QED
      BY <1>1, <2>1, <2>3, <3>1, <3>2, GoesOn, SMTT(60) DEF CiscoExecute, Return, Clears, Before_
  <2> QED
    BY <2>2, <2>3
<1>2. CASE CiscoStart
  <2>1. Place = "ios.start" /\ Alone /\ call.id = Current /\ Current \notin sent
    BY <1>2, AtPlace, ServingAlone DEF CiscoStart, Chan, Before_, Sending, Flow, Unwritten
  <2>2. CASE pc' = "idle"
    <3>1. Shape' /\ result'.id = Current
      BY <1>0, <1>2, <2>1, <2>2, SMTT(60) DEF CiscoStart, Return, Sends, Refused, Result, Outcome, Shape, Places, Current, Alone
    <3> QED
      BY <1>2, <2>1, <2>2, <3>1, Ends DEF CiscoStart, Return, Sends
  <2>3. CASE pc' # "idle"
    <3>1. Shape' /\ pc' = "send" /\ Place' \in {"ios.ran", "ios.step"} /\ call'.id = Current
      BY <1>0, <1>2, <2>1, <2>3, SendsCall, ZenonT(60) DEF CiscoStart, Return, Shape, Places, Chan, SendThens, Place, NoCall
    <3> QED
      BY <1>2, <2>1, <2>3, <3>1, GoesOn DEF CiscoStart, Return, Sending
  <2> QED
    BY <2>2, <2>3
<1>3. CASE CiscoReconnect
  <2>1. Place = "ios.ran" /\ Alone /\ call.id = Current /\ Current \notin sent
    BY <1>3, AtPlace, ServingAlone DEF CiscoReconnect, Chan, Sending, Flow, Unwritten
  <2>2. Shape' /\ Place' = "login" /\ pc' = "login" /\ call'.id = Current /\ login'.up
    BY <1>0, <1>3, <2>1 DEF CiscoReconnect, Shape, Places, Chan, Place, NoCall, NoLogin, NoConn, Opening
  <2> QED
    BY <1>3, <2>1, <2>2, Opens DEF CiscoReconnect, Alone, Opening
<1>4. CASE CiscoAgain
  <2>1. Place = "ios.again" /\ Alone /\ call.id = Current /\ Current \notin sent
    BY <1>4, AtPlace, ServingAlone DEF CiscoAgain, Chan, Before_, Sending, Flow, Unwritten
  <2>2. CASE call.rerr = "ok"
    <3>1. Shape' /\ pc' = "send" /\ Place' = "ios.ran" /\ call'.id = Current
      BY <1>0, <1>4, <2>1, <2>2, SendsCall
         DEF CiscoAgain, Settled, Shape, Places, Chan, SendThens, Place, NoCall
    <3> QED
      BY <1>4, <2>1, <2>2, <3>1, GoesOn DEF CiscoAgain, Sending
  <2>3. CASE call.rerr # "ok"
    <3>1. Shape' /\ result'.id = Current /\ ~result'.no_dispatch /\ pc' = "idle"
      BY <1>0, <1>4, <2>1, <2>3, SMTT(60)
         DEF CiscoAgain, GivesUp, Return, Result, Outcome, Shape, Places, Current, Alone
    <3> QED
      BY <1>4, <2>1, <2>3, <3>1, Ends DEF CiscoAgain
  <2> QED
    BY <2>2, <2>3
<1>5. CASE CiscoConfirm \/ CiscoModeChanged \/ CiscoStepMoved
  <2>1. Place \in {"ios.ran", "ios.step"} /\ Alone /\ call.id = Current
    BY <1>5, AtPlace, ServingAlone
       DEF CiscoConfirm, CiscoModeChanged, CiscoStepMoved, Chan, Sending, Flow, Unwritten
  <2>2. /\ Shape' /\ call'.id = Current /\ pc' \in {"send", "learn"}
        /\ Place' \in {"ios.rebooted", "ios.moved", "ios.settled"}
    BY <1>0, <1>5, <2>1, SendsCall, LearnsCall
       DEF CiscoConfirm, CiscoModeChanged, CiscoStepMoved, Shape, Places, Chan, Place, SendThens,
           LearnThens
  <2> QED
    BY <1>5, <2>1, <2>2, GoesOn DEF CiscoConfirm, CiscoModeChanged, CiscoStepMoved, Sending
<1>6. CASE CiscoRebooted
  <2>1. Place = "ios.rebooted" /\ Alone /\ call.id = Current
    BY <1>6, AtPlace, ServingAlone DEF CiscoRebooted, Chan, Sending
  <2>2. Shape' /\ result'.id = Current /\ ~result'.no_dispatch /\ pc' = "idle"
    BY <1>0, <1>6, <2>1, SMTT(60) DEF CiscoRebooted, GivesUp, Return, Result, Outcome, Shape, Places, Current, Alone
  <2> QED
    BY <1>6, <2>1, <2>2, Ends DEF CiscoRebooted
<1>7. CASE CiscoRan \/ CiscoMoved
  <2>1. Place \in {"ios.ran", "ios.moved"} /\ Alone /\ call.id = Current
    BY <1>7, AtPlace, ServingAlone DEF CiscoRan, CiscoMoved, Chan, Sending
  <2>2. PICK r, c : CiscoOutcome(r, c) /\ DOMAIN c = DOMAIN NoConn /\ UNCHANGED call /\ Same
    BY <1>0, <1>7 DEF CiscoRan, CiscoMoved, Settled, Shape
  <2>3. Shape' /\ result'.id = Current /\ ~result'.no_dispatch /\ pc' = "idle"
    BY <1>0, <2>1, <2>2, SMTT(60)
       DEF CiscoOutcome, GivesUp, Return, Withheld, Result, Outcome, Shape, Places, Current, Alone
  <2> QED
    BY <1>7, <2>1, <2>2, <2>3, Ends DEF CiscoRan, CiscoMoved
<1>8. CASE CiscoStep
  <2>1. Place \in {"ios.step", "ios.settled"} /\ Alone /\ call.id = Current
    BY <1>8, AtPlace, ServingAlone DEF CiscoStep, Chan, Sending
  <2>2. \/ /\ pc' = "idle" /\ UNCHANGED call /\ result'.id = Current /\ ~result'.no_dispatch
           /\ DOMAIN conn' = DOMAIN NoConn
        \/ /\ pc' = "send" /\ UNCHANGED result /\ DOMAIN conn' = DOMAIN NoConn
           /\ DOMAIN call' = DOMAIN NoCall /\ call'.id = Current /\ call'.then = "ios.step"
    BY <1>0, <1>8, <2>1, CiscoStepCases
  <2>3. CASE pc' = "idle"
    <3>1. Shape' /\ result'.id = Current /\ ~result'.no_dispatch
      BY <1>0, <1>8, <2>1, <2>2, <2>3, SMTT(60) DEF CiscoStep, Shape, Places, Current, Alone
    <3> QED
      BY <1>8, <2>1, <2>3, <3>1, Ends DEF CiscoStep
  <2>4. CASE pc' = "send"
    <3>1. Shape' /\ Place' = "ios.step" /\ call'.id = Current /\ UNCHANGED result
      BY <1>0, <1>8, <2>1, <2>2, <2>4 DEF CiscoStep, Shape, Places, Chan, SendThens, Place
    <3> QED
      BY <1>8, <2>1, <2>4, <3>1, GoesOn DEF CiscoStep, Sending
  <2> QED
    BY <2>2, <2>3, <2>4
<1> QED
  BY <1>1, <1>2, <1>3, <1>4, <1>5, <1>6, <1>7, <1>8 DEF CiscoNext

LEMMA AsaFlow ==
    ASSUME Flow, AsaNext
    PROVE  Flow'
<1> USE DEF At, Same, counters, threads
<1>0. Shape
  BY DEF Flow
<1>1. ASSUME NEW cmd \in Commands, AsaExecute(cmd) PROVE Flow'
  <2>1. /\ Alone /\ Current \notin sent /\ pc = "idle"
        /\ DOMAIN call' = DOMAIN NoCall /\ call'.id = Current
    BY <1>1, Beginning DEF AsaExecute
  <2>2. CASE pc' = "idle"
    <3>1. Shape'
      BY <1>0, <1>1, <2>1, <2>2, SMTT(60) DEF AsaExecute, Return, Refused, Result, Outcome, Shape, Places, Current, Alone
    <3> QED
      BY <1>1, <2>1, <2>2, <3>1, Ends, SMTT(60) DEF AsaExecute, Return, Refused, Result, Outcome, Clears
  <2>3. CASE pc' # "idle"
    <3>1. Shape' /\ pc' = "asa.start"
      BY <1>0, <1>1, <2>1, <2>3, SMTT(60) DEF AsaExecute, Return, Shape, Places, Clears, Before_
    <3>2. Place' = "asa.start"
      BY <3>1 DEF Place, Chan
    <3> QED
      BY <1>1, <2>1, <2>3, <3>1, <3>2, GoesOn, SMTT(60) DEF AsaExecute, Return, Clears, Before_
  <2> QED
    BY <2>2, <2>3
<1>2. CASE AsaStart \/ AsaVerified
  <2>1. /\ Place \in {"asa.start", "asa.verified", "asa.enabled"}
        /\ Alone /\ call.id = Current /\ Current \notin sent
    BY <1>2, AtPlace, ServingAlone
       DEF AsaStart, AsaVerified, Chan, Before_, Sending, Flow, Unwritten
  <2>2. /\ Shape' /\ call'.id = Current
        /\ Place' \in {"asa.verified", "asa.enabled", "asa.ran"} /\ pc' \in {"send", "learn"}
    BY <1>0, <1>2, <2>1, SendsCall, LearnsCall
       DEF AsaStart, AsaVerified, Shape, Places, Chan, Place, SendThens, LearnThens, Settled
  <2> QED
    BY <1>2, <2>1, <2>2, GoesOn DEF AsaStart, AsaVerified, Sending, Before_
<1>3. CASE AsaRan
  <2>1. Place = "asa.ran" /\ Alone /\ call.id = Current
    BY <1>3, AtPlace, ServingAlone DEF AsaRan, Chan, Sending
  <2>2. Shape' /\ result'.id = Current /\ ~result'.no_dispatch /\ pc' = "idle"
    BY <1>0, <1>3, <2>1, SMTT(60)
       DEF AsaRan, GivesUp, Return, Withheld, Result, Outcome, Shape, Places, Current, Alone
  <2> QED
    BY <1>3, <2>1, <2>2, Ends DEF AsaRan
<1> QED
  BY <1>1, <1>2, <1>3 DEF AsaNext

LEMMA JunosFlow ==
    ASSUME Flow, JunosNext
    PROVE  Flow'
<1> USE DEF At, Same, counters, threads
<1>0. Shape
  BY DEF Flow
<1>1. ASSUME NEW cmd \in Commands, JunosExecute(cmd) PROVE Flow'
  <2>1. /\ Alone /\ Current \notin sent /\ pc = "idle"
        /\ DOMAIN call' = DOMAIN NoCall /\ call'.id = Current
    BY <1>1, Beginning DEF JunosExecute
  <2>2. CASE pc' = "idle"
    <3>1. Shape'
      BY <1>0, <1>1, <2>1, <2>2, SMTT(60) DEF JunosExecute, Return, Refused, Result, Outcome, Shape, Places, Current, Alone
    <3> QED
      BY <1>1, <2>1, <2>2, <3>1, Ends, SMTT(60) DEF JunosExecute, Return, Refused, Result, Outcome, Clears
  <2>3. CASE pc' # "idle"
    <3>1. Shape' /\ pc' \in {"junos.start", "junos.refuse"}
      BY <1>0, <1>1, <2>1, <2>3, SMTT(60) DEF JunosExecute, Return, Shape, Places, Clears, Before_
    <3>2. Place' = pc'
      BY <3>1 DEF Place, Chan
    <3> QED
      BY <1>1, <2>1, <2>3, <3>1, <3>2, GoesOn, SMTT(60) DEF JunosExecute, Return, Clears, Before_
  <2> QED
    BY <2>2, <2>3
<1>2. CASE JunosStart \/ JunosRefuse
  <2>1. /\ Place \in {"junos.start", "junos.refuse"}
        /\ Alone /\ call.id = Current /\ Current \notin sent
    BY <1>2, AtPlace, ServingAlone, ZenonT(60)
       DEF JunosStart, JunosRefuse, Chan, Before_, Sending, Flow, Unwritten
  <2>2. /\ Shape' /\ call'.id = Current
        /\ Place' \in {"junos.ran", "junos.refused"} /\ pc' \in {"send", "learn"}
    BY <1>0, <1>2, <2>1, SendsCall, LearnsCall, ZenonT(60)
       DEF JunosStart, JunosRefuse, Shape, Places, Chan, Place, SendThens, LearnThens
  <2> QED
    BY <1>2, <2>1, <2>2, GoesOn DEF JunosStart, JunosRefuse, Sending
<1>3. CASE JunosRefused
  <2>1. Place = "junos.refused" /\ Alone /\ call.id = Current
    BY <1>3, AtPlace, ServingAlone DEF JunosRefused, Chan, Sending
  <2>2. Shape' /\ result'.id = Current /\ ~result'.no_dispatch /\ pc' = "idle"
    BY <1>0, <1>3, <2>1, SMTT(60)
       DEF JunosRefused, Return, Result, Outcome, Settled, Shape, Places, Current, Alone
  <2> QED
    BY <1>3, <2>1, <2>2, Ends DEF JunosRefused
<1>4. CASE JunosMoved
  <2>1. Place \in {"junos.ran", "junos.moved"} /\ Alone /\ call.id = Current
    BY <1>4, AtPlace, ServingAlone DEF JunosMoved, Chan, Sending
  <2>2. /\ Shape' /\ call'.id = Current /\ pc' = "learn"
        /\ Place' \in {"junos.moved", "junos.settled"}
    BY <1>0, <1>4, <2>1, LearnsCall DEF JunosMoved, Shape, Places, Chan, Place, LearnThens
  <2> QED
    BY <1>4, <2>1, <2>2, GoesOn DEF JunosMoved, Sending
<1>5. CASE JunosRan
  <2>1. Place \in {"junos.ran", "junos.moved", "junos.settled"} /\ Alone /\ call.id = Current
    BY <1>5, AtPlace, ServingAlone DEF JunosRan, Chan, Sending
  <2>2. \/ /\ pc' = "idle" /\ UNCHANGED call /\ result'.id = Current /\ ~result'.no_dispatch
           /\ DOMAIN conn' = DOMAIN NoConn
        \/ /\ Learns("junos.refused") /\ UNCHANGED result /\ DOMAIN conn' = DOMAIN NoConn
    <3>1. CASE call.rerr # "ok"
      BY <1>0, <1>5, <2>1, <3>1, SMTT(60) DEF JunosRan, GivesUp, Return, Result, Outcome, Shape
    <3>2. CASE call.rerr = "ok"
      <4>1. PICK success, check_ok :
              /\ conn' = [Settled EXCEPT !.check_ok = check_ok]
              /\ \/ Learns("junos.refused") /\ UNCHANGED result
                 \/ /\ UNCHANGED call
                    /\ \E stored \in Cuts : Return(Outcome(success, FALSE, "UNSET", "ok", stored))
        BY <1>5, <3>2 DEF JunosRan, JunosReply
      <4> QED
        BY <1>0, <2>1, <4>1, SMTT(60) DEF Return, Outcome, Settled, Shape
    <3> QED
      BY <3>1, <3>2
  <2>3. CASE pc' = "idle"
    <3>1. Shape' /\ result'.id = Current /\ ~result'.no_dispatch
      BY <1>0, <1>5, <2>1, <2>2, <2>3, SMTT(60) DEF JunosRan, Shape, Places, Current, Alone, Learns
    <3> QED
      BY <1>5, <2>1, <2>3, <3>1, Ends DEF JunosRan
  <2>4. CASE Learns("junos.refused") /\ UNCHANGED result
    <3>1. Shape' /\ Place' = "junos.refused" /\ call'.id = Current /\ pc' = "learn"
      BY <1>0, <1>5, <2>1, <2>2, <2>4, LearnsCall DEF JunosRan, Shape, Places, Chan, LearnThens, Place
    <3> QED
      BY <1>5, <2>1, <2>4, <3>1, GoesOn DEF JunosRan, Sending
  <2> QED
    BY <2>2, <2>3, <2>4
<1> QED
  BY <1>1, <1>2, <1>3, <1>4, <1>5 DEF JunosNext

LEMMA EnsureReadyFlow ==
    ASSUME Flow, UNCHANGED <<kind, result, sent>>, DOMAIN conn' = DOMAIN NoConn,
           DOMAIN login' = DOMAIN NoLogin, login'.up = login.up, Current \notin sent,
           waiting' = None \/ (waiting' = waiting /\ keepalive' = "locked"),
           NEW c, DOMAIN c = DOMAIN NoCall, EnsureReady(c)
    PROVE  Flow'
<1>1. /\ Shape' /\ Place' \in {"panos.learned", "panos.pager"}
      /\ Place' = "panos.pager" => call'.id = 0
  BY DEF Flow, Shape, EnsureReady, At, NoCall, Place, Places, Chan, SendThens, LearnThens
<1> QED
  BY <1>1, Warms DEF Warming

LEMMA BecomesReadyFlow ==
    ASSUME Flow, UNCHANGED <<kind, sent, waiting, login>>, DOMAIN conn' = DOMAIN NoConn,
           Current \notin sent, waiting = None \/ keepalive = "locked", BecomesReady(call)
    PROVE  Flow'
<1>1. CASE keepalive = "locked"
  <2>1. Shape' /\ Place' = "idle" /\ keepalive' = "sleep" /\ pc' = "idle" /\ UNCHANGED result
    BY <1>1 DEF BecomesReady, Flow, Shape, At, NoCall, Place, Places, Chan
  <2> QED
    BY <2>1, Rests
<1>2. CASE keepalive # "locked"
  <2>1. /\ Shape' /\ Place' = "panos.ran" /\ pc' = "send" /\ call'.id = Current
        /\ keepalive' # "locked" /\ UNCHANGED result
    BY <1>2 DEF BecomesReady, Flow, Shape, At, NoCall, Place, Places, Chan, SendThens, Current
  <2> QED
    BY <1>2, <2>1, GoesOnThen DEF Sending
<1> QED
  BY <1>1, <1>2

LEMMA NeverReadyFlow ==
    ASSUME Flow, UNCHANGED <<kind, sent, waiting, login>>,
           Current \notin sent, waiting = None \/ keepalive = "locked", NeverReady
    PROVE  Flow'
<1>1. CASE keepalive = "locked"
  <2>1. Shape' /\ Place' = "idle" /\ keepalive' = "gone" /\ pc' = "idle" /\ UNCHANGED result
    BY <1>1 DEF NeverReady, Flow, Shape, At, NoCall, Place, Places, Chan
  <2> QED
    BY <2>1, Rests
<1>2. CASE keepalive # "locked"
  <2>1. Shape' /\ result'.id = Current /\ keepalive' # "locked" /\ pc' = "idle"
    BY <1>2, SMTT(60) DEF NeverReady, Return, Refused, Result, Outcome, Flow, Shape, At, NoCall, Places, Current
  <2> QED
    BY <1>2, <2>1, EndsThen
<1> QED
  BY <1>1, <1>2

LEMMA PanosFlow ==
    ASSUME Flow, PanosNext
    PROVE  Flow'
<1> USE DEF At, Same, counters, threads
<1>0. Shape
  BY DEF Flow
<1>1. ASSUME NEW cmd \in Commands, PanosExecute(cmd) PROVE Flow'
  <2>1. /\ kind = "panos" /\ login.up /\ waiting = None /\ (pc = "idle" \/ keepalive = "locked")
        /\ UNCHANGED <<ch, dev, conn, pc, call, sent, ran, kind, keepalive, login>>
    BY <1>1 DEF PanosExecute, Locked
  <2>2. Current \notin sent /\ Place \in Warming \cup {"idle"} /\ Place' = Place
    BY <2>1 DEF Flow, Numbers, Unwritten, Warming, Sending, Place, Chan
  <2>3. \/ result'.id = Current /\ UNCHANGED waiting
        \/ waiting'.id = Current /\ result'.id = result.id /\ ~result'.no_dispatch
    BY <1>1, SMTT(60) DEF PanosExecute, Clears, Current
  <2>4. Shape' /\ result.id \in Nat
    BY <1>0, <2>1, <2>3, SMTT(60) DEF Shape, Current
  <2>5. Numbers'
    BY <2>1, <2>2, <2>3 DEF Flow, Numbers, Current, Warming, Before_, Sending, Opening
  <2>6. Unwritten'
    BY <2>1, <2>2, <2>3, <2>4, SMTT(60) DEF Flow, Unwritten, Current, Warming, Place, Chan, Sending
  <2>7. NotSentIsTrue'
    BY <2>1, <2>2, <2>3 DEF Flow, NotSentIsTrue, Returned
  <2> QED
    BY <2>4, <2>5, <2>6, <2>7 DEF Flow
<1>2. CASE PanosLocked
  <2> DEFINE c == [NoCall EXCEPT !.id = waiting.id, !.cmd = waiting.cmd]
  <2>1. /\ pc = "idle" /\ Place = "idle" /\ waiting.id = Current /\ keepalive # "locked"
        /\ waiting' = None /\ UNCHANGED <<kind, sent, keepalive, login>> /\ Current \notin sent
    BY <1>2 DEF PanosLocked, Locked, Place, Chan, Flow, Numbers, Warming, Unwritten, Sending
  <2>2. DOMAIN c = DOMAIN NoCall /\ c.id = Current
    BY <2>1 DEF NoCall
  <2>3. \/ call' = c /\ GivesUp(Refused("UNSET"))
        \/ UNCHANGED <<conn, result>> /\ EnsureReady(c)
        \/ /\ UNCHANGED <<conn, result>>
           /\ call' = [c EXCEPT !.line = c.cmd, !.then = "panos.ran"] /\ pc' = "send"
    BY <1>2 DEF PanosLocked
  <2> HIDE DEF c
  <2>4. CASE call' = c /\ GivesUp(Refused("UNSET"))
    <3>1. Shape' /\ result'.id = Current /\ pc' = "idle"
      BY <1>0, <2>1, <2>2, <2>4, SMTT(60) DEF GivesUp, Return, Refused, Result, Outcome, Shape, Places, Current
    <3> QED
      BY <2>1, <3>1, EndsThen
  <2>5. CASE UNCHANGED <<conn, result>> /\ EnsureReady(c)
    BY <1>0, <2>1, <2>2, <2>5, EnsureReadyFlow DEF Shape
  <2>6. CASE /\ UNCHANGED <<conn, result>>
             /\ call' = [c EXCEPT !.line = c.cmd, !.then = "panos.ran"] /\ pc' = "send"
    <3>1. Shape' /\ Place' = "panos.ran" /\ call'.id = Current
      BY <1>0, <2>1, <2>2, <2>6 DEF Shape, Places, Chan, Place, SendThens, NoCall
    <3> QED
      BY <2>1, <2>6, <3>1, GoesOnThen DEF Sending
  <2> QED
    BY <2>3, <2>4, <2>5, <2>6
<1>3. CASE PanosReady
  <2>1. /\ pc \in {"panos.learned", "panos.pager"} /\ Place = pc
        /\ UNCHANGED <<kind, sent, waiting, login>> /\ (waiting = None \/ keepalive = "locked")
        /\ Current \notin sent
    BY <1>3 DEF PanosReady, Place, Chan, Flow, Numbers, Unwritten, Sending
  <2>2. \/ EnsureReady(call) /\ UNCHANGED <<conn, result, keepalive>>
        \/ BecomesReady(call) /\ DOMAIN conn' = DOMAIN NoConn
        \/ Learns("panos.learned") /\ UNCHANGED <<conn, result, keepalive>>
        \/ NeverReady
    BY <1>0, <1>3 DEF PanosReady, Shape
  <2>3. CASE EnsureReady(call) /\ UNCHANGED <<conn, result, keepalive>>
    BY <1>0, <2>1, <2>3, EnsureReadyFlow DEF Shape
  <2>4. CASE BecomesReady(call) /\ DOMAIN conn' = DOMAIN NoConn
    BY <2>1, <2>4, BecomesReadyFlow
  <2>5. CASE Learns("panos.learned") /\ UNCHANGED <<conn, result, keepalive>>
    <3>1. Shape' /\ Place' = "panos.learned"
      BY <1>0, <2>1, <2>5, LearnsCall DEF Shape, Places, Chan, Place, LearnThens
    <3> QED
      BY <2>1, <2>5, <3>1, Warms DEF Warming
  <2>6. CASE NeverReady
    BY <2>1, <2>6, NeverReadyFlow
  <2> QED
    BY <2>2, <2>3, <2>4, <2>5, <2>6
<1>4. CASE PanosRan
  <2>1. Place = "panos.ran" /\ Alone /\ call.id = Current
    BY <1>4, AtPlace, ServingAlone DEF PanosRan, Chan, Sending
  <2>2. Shape' /\ result'.id = Current /\ ~result'.no_dispatch /\ pc' = "idle"
    BY <1>0, <1>4, <2>1, SMTT(60) DEF PanosRan, GivesUp, Return, Result, Outcome, Shape, Places, Current, Alone
  <2> QED
    BY <1>4, <2>1, <2>2, Ends DEF PanosRan
<1>5. CASE Keepalive
  <2>1. /\ pc = "idle" /\ Place = "idle" /\ Current \notin sent
        /\ UNCHANGED <<kind, result, sent, waiting, login>> /\ DOMAIN conn' = DOMAIN NoConn
    BY <1>0, <1>5 DEF Keepalive, Locked, Place, Chan, Flow, Unwritten, Sending, Shape
  <2>2. \/ keepalive' = "locked" /\ EnsureReady(NoCall)
        \/ keepalive' # "locked" /\ UNCHANGED <<pc, call>>
        \/ /\ keepalive' = "locked" /\ pc' = "send"
           /\ call' = [NoCall EXCEPT !.line = "", !.then = "panos.kept"]
    BY <1>5 DEF Keepalive
  <2>3. CASE keepalive' = "locked" /\ EnsureReady(NoCall)
    BY <1>0, <2>1, <2>3, EnsureReadyFlow DEF Shape
  <2>4. CASE keepalive' # "locked" /\ UNCHANGED <<pc, call>>
    <3>1. Shape' /\ Place' = "idle"
      BY <1>0, <2>1, <2>4 DEF Shape, Place
    <3> QED
      BY <2>1, <2>4, <3>1, Rests
  <2>5. CASE /\ keepalive' = "locked" /\ pc' = "send"
             /\ call' = [NoCall EXCEPT !.line = "", !.then = "panos.kept"]
    <3>1. Shape' /\ Place' = "panos.kept" /\ call'.id = 0
      BY <1>0, <2>1, <2>5 DEF Shape, Place, Places, Chan, SendThens, NoCall
    <3> QED
      BY <2>1, <2>5, <3>1, Warms DEF Warming
  <2> QED
    BY <2>2, <2>3, <2>4, <2>5
<1>6. CASE Kept
  <2>1. Place = "panos.kept" /\ Current \notin sent
    BY <1>6 DEF Kept, Place, Chan, Flow, Unwritten, Sending
  <2>2. Shape' /\ Place' = "idle" /\ keepalive' # "locked"
    BY <1>0, <1>6 DEF Kept, Shape, Place, Places, Chan
  <2> QED
    BY <1>6, <2>1, <2>2, Rests DEF Kept
<1> QED
  BY <1>1, <1>2, <1>3, <1>4, <1>5, <1>6 DEF PanosNext

LEMMA EnvironmentFlow ==
    ASSUME Flow, Environment, UNCHANGED threads
    PROVE  Flow'
<1>1. UNCHANGED <<kind, conn, pc, call, result, sent, login, keepalive, waiting>>
  BY DEF Environment, DeviceStep, Log, Stall, PeerCloses, threads
<1>2. Place' = Place /\ Current' = Current
  BY <1>1 DEF Place, Current
<1> QED
  BY <1>1, <1>2, SMTT(60) DEF Flow, Shape, Numbers, Unwritten, NotSentIsTrue, Returned

LEMMA AdvancesLogin ==
    ASSUME NEW l, DOMAIN l = DOMAIN NoLogin, Advances(l)
    PROVE  /\ DOMAIN login' = DOMAIN NoLogin /\ pc' = IF AtLast THEN "greeted" ELSE "login"
           /\ login'.step = l.step + 1 /\ login'.held = l.held \cup ({Doing} \cap Resources)
           /\ login'.up = l.up /\ login'.trusted = l.trusted /\ login'.shown = l.shown
BY DEF Advances, At, NoLogin

LEMMA FailsLogin ==
    ASSUME NEW l, DOMAIN l = DOMAIN NoLogin, Fails(l)
    PROVE  /\ DOMAIN login' = DOMAIN NoLogin /\ pc' = IF call.again THEN "ios.again" ELSE "idle"
           /\ login'.held = l.held \ Stages[kind][login.step].frees
           /\ login'.up = l.up /\ login'.trusted = l.trusted /\ login'.shown = l.shown
BY DEF Fails, At, NoLogin

(* Every stage of a login goes on to the next or fails; l is what it found. *)
LEMMA LoginCases ==
    ASSUME Shape, LoginNext
    PROVE  /\ pc = "login" /\ UNCHANGED <<kind, ch, dev, conn, call, result, sent, ran, conns, logs>>
           /\ \E l : /\ DOMAIN l = DOMAIN NoLogin
                     /\ l.step = login.step /\ l.up = login.up /\ l.held = login.held
                     /\ Advances(l) \/ Fails(l)
                     /\ l.trusted = login.trusted \/ (Doing = "hostkey" /\ l.trusted)
                     /\ Doing = "hostkey" => l.trusted \/ Fails(l)
                     /\ l.shown = login.shown \/ Doing = "auth"
<1>1. CASE LoginStep
  BY <1>1 DEF LoginStep, Shape
<1>2. CASE Handshake
  <2>1. PICK key \in Keys : Advances([login EXCEPT !.key = key]) \/ Fails(login)
    BY <1>2 DEF Handshake
  <2> QED
    BY <1>2, <2>1, SMTT(60) DEF Handshake, Shape, NoLogin
<1>3. CASE VerifyHostKey
  <2>1. Advances([login EXCEPT !.trusted = TRUE]) \/ Fails(login)
    BY <1>3 DEF VerifyHostKey
  <2> QED
    BY <1>3, <2>1, SMTT(60) DEF VerifyHostKey, Shape, NoLogin
<1>4. CASE Authenticate
  <2>1. \E b : Advances([login EXCEPT !.shown = b]) \/ Fails([login EXCEPT !.shown = b])
    BY <1>4 DEF Authenticate
  <2> QED
    BY <1>4, <2>1 DEF Authenticate, Shape, NoLogin
<1> QED
  BY <1>1, <1>2, <1>3, <1>4 DEF LoginNext

LEMMA ConnectFlow ==
    ASSUME Flow,
           \/ Connect /\ keepalive \in {"off", "gone"} /\ UNCHANGED <<keepalive, waiting>>
           \/ LoginNext /\ UNCHANGED <<keepalive, waiting>>
           \/ Disconnect \/ Greeted \/ Connected \/ Enabled_ \/ Up
    PROVE  Flow'
<1> USE DEF At, Same, counters, threads
<1>0. Shape
  BY DEF Flow
<1>1. CASE Connect /\ keepalive \in {"off", "gone"} /\ UNCHANGED <<keepalive, waiting>>
  <2>1. pc = "idle" /\ Current \notin sent /\ waiting = None
    BY <1>1 DEF Connect, Flow, Numbers, Unwritten, Place, Chan, Sending
  <2>2. Shape' /\ pc' = "login" /\ ~call'.again
    BY <1>0, <1>1 DEF Connect, Shape, Places, Opening, NoCall, NoLogin
  <2> QED
    BY <1>1, <2>1, <2>2, Opens DEF Connect, Opening
<1>2. CASE LoginNext /\ UNCHANGED <<keepalive, waiting>>
  <2>1. /\ pc = "login" /\ UNCHANGED <<kind, conn, call, result, sent>>
        /\ DOMAIN login' = DOMAIN NoLogin /\ login'.up = login.up
        /\ \/ pc' \in Opening
           \/ pc' = IF call.again THEN "ios.again" ELSE "idle"
    BY <1>0, <1>2, LoginCases, AdvancesLogin, FailsLogin DEF Opening
  <2>2. Place = "login" /\ Current \notin sent /\ waiting = None /\ keepalive # "locked"
    BY <2>1 DEF Flow, Numbers, Unwritten, Place, Chan, Sending, Warming
  <2>3. Shape'
    BY <1>0, <2>1 DEF Shape, Places, Opening, LearnThens
  <2>4. call.again => call.id = Current /\ login.up
    BY <2>2 DEF Flow, Numbers, Opening
  <2>5. CASE pc' \in Opening
    BY <1>2, <2>1, <2>2, <2>3, <2>4, <2>5, Opens
  <2>6. CASE pc' = "ios.again" /\ call.again
    <3>1. Place' = "ios.again"
      BY <2>6 DEF Place, Chan
    <3> QED
      BY <1>2, <2>1, <2>2, <2>3, <2>4, <2>6, <3>1, GoesOnThen DEF Before_
  <2>7. CASE pc' = "idle"
    <3>1. Place' = "idle"
      BY <2>7 DEF Place, Chan
    <3> QED
      BY <1>2, <2>1, <2>2, <2>3, <2>7, <3>1, Rests
  <2> QED
    BY <2>1, <2>5, <2>6, <2>7
<1>3. CASE Disconnect
  <2>1. pc = "idle" /\ Place = "idle" /\ Current \notin sent
    BY <1>3 DEF Disconnect, Flow, Unwritten, Place, Chan, Sending
  <2>2. Shape' /\ Place' = "idle" /\ pc' = "idle" /\ keepalive' # "locked"
    BY <1>0, <1>3, <2>1 DEF Disconnect, Shape, Place
  <2> QED
    BY <1>3, <2>1, <2>2, Rests DEF Disconnect
<1>4. CASE Greeted
  <2>1. Place = "greeted" /\ Current \notin sent /\ waiting = None /\ keepalive # "locked"
    BY <1>4 DEF Greeted, Flow, Numbers, Unwritten, Place, Chan, Sending, Warming
  <2>2. call.again => call.id = Current
    BY <2>1 DEF Flow, Numbers, Opening
  <2>3. CASE kind = "panos"
    <3>1. Shape' /\ Place' = "idle" /\ pc' = "idle" /\ keepalive' # "locked"
      BY <1>0, <1>4, <2>3 DEF Greeted, Shape, Place, Chan, Places, NoConn, NoLogin
    <3> QED
      BY <1>4, <2>1, <3>1, Rests DEF Greeted
  <2>4. CASE kind # "panos"
    <3>1. /\ Shape' /\ pc' = "learn" /\ Place' = IF call.again THEN "ios.again" ELSE "up"
          /\ call'.id = call.id /\ keepalive' = keepalive
      BY <1>0, <1>4, <2>4
         DEF Greeted, Shape, Place, Chan, Places, NoConn, NoLogin, NoCall, LearnThens
    <3>2. CASE call.again
      BY <1>4, <2>1, <2>2, <3>1, <3>2, GoesOnThen DEF Greeted, Before_
    <3>3. CASE ~call.again
      BY <1>4, <2>1, <3>1, <3>3, Rests DEF Greeted
    <3> QED
      BY <3>2, <3>3
  <2> QED
    BY <2>3, <2>4
<1>5. CASE Connected \/ Enabled_
  <2>1. /\ Place \in {"up", "up.again", "enabled"} /\ Current \notin sent
        /\ waiting = None /\ keepalive # "locked"
    BY <1>5 DEF Connected, Enabled_, Flow, Numbers, Unwritten, Place, Chan, Sending, Warming
  <2>2. Shape' /\ Place' \in {"idle", "up.again", "enabled"}
    BY <1>0, <1>5, LearnsCall DEF Connected, Enabled_, NotConnected, Settled, Shape, Place,
       Chan, Places, LearnThens
  <2> QED
    BY <1>5, <2>1, <2>2, Rests DEF Connected, Enabled_
<1>6. CASE Up
  <2>1. Place = "greeted" /\ Current \notin sent /\ waiting = None /\ keepalive # "locked"
    BY <1>6 DEF Up, Flow, Numbers, Unwritten, Place, Chan, Sending, Warming
  <2>2. Shape' /\ Place' = "idle" /\ pc' = "idle"
    BY <1>0, <1>6 DEF Up, Shape, Place, Chan, Places, NoConn, NoLogin
  <2> QED
    BY <1>6, <2>1, <2>2, Rests DEF Up
<1> QED
  BY <1>1, <1>2, <1>3, <1>4, <1>5, <1>6

(* A request of a REST driver either was never written, or does not claim so. *)
LEMMA PerformsHonest ==
    ASSUME NEW rc \in Before \cup After, Performs(rc), call'.id = Current
    PROVE  /\ sent' \subseteq sent \cup {Current}
           /\ rc \in Before => sent' = sent
BY DEF Performs, Unsent, Dispatch, Before, After

LEMMA RestEnds ==
    ASSUME Flow, Idle, Place \in Before_, NEW rc, NEW b, NEW nothing,
           \/ /\ UNCHANGED call /\ rc \in Before \cup After /\ Performs(rc)
              /\ nothing \subseteq Before
              /\ result'.no_dispatch => rc \in nothing
           \/ /\ call' = [call EXCEPT !.body = b] /\ \E may : Dispatch(may)
              /\ ~result'.no_dispatch,
           result'.id = call'.id, pc' = "idle", DOMAIN conn' = DOMAIN NoConn
    PROVE  Flow'
<1>1. Alone /\ call.id = Current /\ Current \notin sent /\ Shape
  BY ServingAlone DEF Flow, Unwritten, Before_, Sending
<1>2. call'.id = Current /\ DOMAIN call' = DOMAIN NoCall
  BY <1>1 DEF Shape, NoCall
<1>3. sent' \subseteq sent \cup {Current} /\ (result'.no_dispatch => Current \notin sent')
  BY <1>1, <1>2, PerformsHonest DEF Dispatch
<1>4. Shape'
  BY <1>1, <1>2, SMTT(60) DEF Shape, Places, Idle, threads, counters, Current
<1> QED
  BY <1>1, <1>2, <1>3, <1>4, Ends DEF Idle, threads

LEMMA RestBeginsFlow ==
    ASSUME Flow, kind \in ExecKinds, kind # "linux", kind # "fortigate",
           NEW cmd, NEW refuses, RestBegins(cmd, refuses)
    PROVE  Flow'
<1> USE DEF Idle, Unsent, At, threads, counters
<1>0. Shape /\ kind # "panos"
  BY DEF Flow, ExecKinds, ShellKinds
<1>1. /\ Alone /\ Current \notin sent /\ pc = "idle"
      /\ DOMAIN call' = DOMAIN NoCall /\ call'.id = Current
  BY <1>0, Beginning DEF RestBegins
<1>2. CASE pc' = "idle" /\ result'.id = Current
  <2>1. Shape'
    BY <1>0, <1>1, <1>2, SMTT(60) DEF RestBegins, Shape, Places, Current, Alone
  <2> QED
    BY <1>1, <1>2, <2>1, Ends DEF RestBegins
<1>3. CASE pc' = kind /\ kind # "idle" /\ Clears
  <2>1. kind \in Before_ /\ kind \notin Chan
    BY <1>0 DEF ExecKinds, Kinds, Stages, ShellKinds, Before_, Chan
  <2>2. Shape' /\ Place' = kind
    BY <1>0, <1>1, <1>3, <2>1 DEF RestBegins, Shape, Places, Clears, Place, Chan
  <2> QED
    BY <1>1, <1>3, <2>1, <2>2, GoesOn DEF RestBegins, Clears, Before_
<1>4. kind # "idle"
  BY <1>0 DEF Shape, Kinds, Stages
<1> QED
  BY <1>1, <1>2, <1>3, <1>4, SMTT(60) DEF RestBegins, Return, Refused, Result, Outcome, Goes

LEMMA RestAnswersFlow ==
    ASSUME Flow, Place \in Before_, NEW nothing, nothing \subseteq Before, NEW down,
           RestAnswers(nothing, down)
    PROVE  Flow'
<1>1. Shape /\ Idle
  BY DEF Flow, RestAnswers
<1>2. CASE \E rc \in Before \cup After :
              /\ UNCHANGED call /\ Performs(rc) /\ Down(rc, down)
              /\ Return(Result(FALSE, rc \in nothing, "UNSET", "ok"))
  <2>1. PICK rc \in Before \cup After :
              /\ UNCHANGED call /\ Performs(rc) /\ Down(rc, down)
              /\ Return(Result(FALSE, rc \in nothing, "UNSET", "ok"))
    BY <1>2
  <2>2. /\ result'.id = call'.id /\ pc' = "idle" /\ DOMAIN conn' = DOMAIN NoConn
        /\ result'.no_dispatch => rc \in nothing
    BY <1>1, <2>1 DEF Return, Result, Outcome, At, Down, Shape
  <2> QED
    BY <1>1, <2>1, <2>2, RestEnds
<1>3. CASE \E a \in Answered :
              /\ \E body \in Captured(a) : call' = [call EXCEPT !.body = body]
              /\ Performed(a)
              /\ conn' = IF a.status = 401 THEN [conn EXCEPT !.authenticated = FALSE] ELSE conn
              /\ Return(Outcome(Succeeds(a), FALSE, "UNSET", "ok", Kept_(a)))
  <2>1. PICK a, body :
              /\ a \in Answered /\ call' = [call EXCEPT !.body = body]
              /\ Performed(a)
              /\ conn' = IF a.status = 401 THEN [conn EXCEPT !.authenticated = FALSE] ELSE conn
              /\ Return(Outcome(Succeeds(a), FALSE, "UNSET", "ok", Kept_(a)))
    BY <1>3
  <2>2. /\ result'.id = call'.id /\ pc' = "idle" /\ DOMAIN conn' = DOMAIN NoConn
        /\ ~result'.no_dispatch
    BY <1>1, <2>1 DEF Return, Outcome, At, Shape
  <2>3. \E may : Dispatch(may)
    BY <2>1, SMTT(60) DEF Performed
  <2> QED
    BY <1>1, <2>1, <2>2, <2>3, RestEnds
<1> QED
  BY <1>2, <1>3 DEF RestAnswers

LEMMA LinuxFlow ==
    ASSUME Flow, LinuxNext \/ FgNext
    PROVE  Flow'
<1> USE DEF At, Idle, Unsent, counters, threads
<1>0. Shape
  BY DEF Flow
<1>1. ASSUME NEW cmd \in ExecCommands, LinuxExecute(cmd) \/ FgExecute(cmd) PROVE Flow'
  <2>1. /\ Alone /\ Current \notin sent /\ pc = "idle"
        /\ DOMAIN call' = DOMAIN NoCall /\ call'.id = Current
    BY <1>1, Beginning DEF LinuxExecute, FgExecute
  <2>2. CASE pc' = "idle"
    <3>1. Shape'
      BY <1>0, <1>1, <2>1, <2>2, SMTT(60) DEF LinuxExecute, FgExecute, Goes, Return, Refused, Result, Outcome, Shape, Places, Current, Alone
    <3> QED
      BY <1>1, <2>1, <2>2, <3>1, Ends, SMTT(60) DEF LinuxExecute, FgExecute, Goes, Return, Refused, Result, Outcome
  <2>3. CASE pc' # "idle"
    <3>1. Shape' /\ pc' \in {"linux.open", "fg.shell"} /\ Place' = pc'
      BY <1>0, <1>1, <2>1, <2>3, SMTT(60)
         DEF LinuxExecute, FgExecute, Goes, Return, Shape, Places, Clears, Before_, Place, Chan
    <3> QED
      BY <1>1, <2>1, <2>3, <3>1, GoesOn, SMTT(60) DEF LinuxExecute, FgExecute, Goes, Return, Clears, Before_
  <2> QED
    BY <2>2, <2>3
<1>2. CASE LinuxOpen \/ (FgShell /\ Unsent)
  <2>1. Place \in {"linux.open", "fg.shell"} /\ Alone /\ call.id = Current /\ Current \notin sent
    BY <1>2, AtPlace, ServingAlone DEF LinuxOpen, FgShell, Chan, Before_, Sending, Flow, Unwritten
  <2>2. CASE pc' = "idle"
    <3>1. Shape' /\ result'.id = Current
      BY <1>0, <1>2, <2>1, <2>2, SMTT(60) DEF LinuxOpen, FgShell, Goes, GivesUp, Return, Refused, Result, Outcome,
         Shape, Places, Current, Alone
    <3> QED
      BY <1>2, <2>1, <2>2, <3>1, Ends DEF LinuxOpen, FgShell
  <2>3. CASE pc' # "idle"
    <3>0. pc' \in {"linux.exec", "fg.read"} /\ Clears /\ UNCHANGED <<conn, call, kind, login>>
      BY <1>2, <2>3, ZenonT(60) DEF LinuxOpen, FgShell, Goes, GivesUp, Return
    <3>1. Shape' /\ Place' = pc'
      BY <1>0, <3>0 DEF Shape, Places, Clears, Before_, Sending, Place, Chan
    <3> QED
      BY <1>2, <2>1, <2>3, <3>0, <3>1, GoesOn DEF LinuxOpen, FgShell, Clears, Before_, Sending
  <2> QED
    BY <2>2, <2>3
<1>3. CASE (LinuxExec \/ FgShell) /\ Dispatch(BOOLEAN)
  <2>1. Place \in {"linux.exec", "fg.shell"} /\ Alone /\ call.id = Current /\ Current \notin sent
    BY <1>3, AtPlace, ServingAlone DEF LinuxExec, FgShell, Chan, Before_, Sending, Flow, Unwritten
  <2>2. sent' = sent \cup {Current} /\ UNCHANGED <<call, kind, keepalive, waiting>>
    BY <1>3, <2>1, ZenonT(60) DEF LinuxExec, FgShell, Dispatch
  <2>3. CASE pc' = "idle"
    <3>1. Shape' /\ result'.id = Current /\ ~result'.no_dispatch
      BY <1>0, <1>3, <2>1, <2>2, <2>3, SMTT(60) DEF LinuxExec, FgShell, Goes, Return, Result, Outcome,
         Shape, Places, Current, Alone
    <3> QED
      BY <2>1, <2>2, <2>3, <3>1, Ends
  <2>4. CASE pc' # "idle"
    <3>0. pc' \in {"linux.read", "fg.read"} /\ Clears /\ UNCHANGED <<conn, call, kind, login>>
      BY <1>3, <2>4 DEF LinuxExec, FgShell, Goes, Return
    <3>1. Shape' /\ Place' = pc'
      BY <1>0, <3>0 DEF Shape, Places, Clears, Sending, Place, Chan
    <3>2. Current' = Current /\ Current \in Nat
      BY <3>0, <2>1, SMTT(60) DEF Clears, Current, Alone
    <3>3. Numbers'
      BY <2>1, <2>2, <3>0, <3>1, <3>2 DEF Numbers, Alone, Before_, Sending, Opening
    <3>4. Unwritten'
      BY <2>1, <2>2, <3>0, <3>1, <3>2, SMTT(60) DEF Flow, Unwritten, Sending
    <3>5. NotSentIsTrue'
      BY <3>0 DEF NotSentIsTrue, Clears
    <3> QED
      BY <3>1, <3>3, <3>4, <3>5 DEF Flow
  <2> QED
    BY <2>3, <2>4
<1>4. CASE LinuxRead \/ FgRead
  <2>1. Place \in {"linux.read", "fg.read"} /\ Alone /\ call.id = Current
    BY <1>4, AtPlace, ServingAlone, ZenonT(60) DEF LinuxRead, FgRead, Chan, Sending
  <2>2. /\ UNCHANGED <<conn, sent, kind, keepalive, waiting, login>>
        /\ UNCHANGED call \/ \E b : call' = [call EXCEPT !.body = b]
        /\ pc' = "idle" /\ result'.id = call'.id /\ ~result'.no_dispatch
    <3>1. CASE LinuxRead
      <4>1. \E b : call' = [call EXCEPT !.body = b]
        BY <3>1 DEF LinuxRead
      <4>2. \E how, clean, exit, stored : Return(LinuxJudges(how, clean, exit, stored))
        BY <3>1 DEF LinuxRead
      <4>3. result'.id = call'.id /\ ~result'.no_dispatch /\ pc' = "idle"
        BY <4>2, SMTT(60) DEF LinuxJudges, Withheld, Outcome, Return, At
      <4>4. UNCHANGED conn /\ Unsent /\ Idle
        BY <3>1 DEF LinuxRead
      <4> QED
        BY <4>1, <4>2, <4>3, <4>4 DEF Unsent, Idle, Return, At
    <3>2. CASE FgRead
      <4>1. UNCHANGED call \/ \E b : call' = [call EXCEPT !.body = b]
        BY <3>2 DEF FgRead
      <4>2. \E success, err, stored : Return(Outcome(success, FALSE, "UNSET", err, stored))
        BY <3>2 DEF FgRead, Result
      <4>3. result'.id = call'.id /\ ~result'.no_dispatch /\ pc' = "idle"
        BY <4>2, SMTT(60) DEF Outcome, Return, At
      <4>4. UNCHANGED conn /\ Unsent /\ Idle
        BY <3>2 DEF FgRead
      <4> QED
        BY <4>1, <4>2, <4>3, <4>4, ZenonT(60) DEF Unsent, Idle, Return, At
    <3> QED
      BY <1>4, <3>1, <3>2
  <2>3. Shape' /\ result'.id = Current /\ ~result'.no_dispatch /\ pc' = "idle"
    BY <1>0, <2>1, <2>2, SMTT(60) DEF Shape, Places, Current, Alone, NoCall
  <2> QED
    BY <2>1, <2>2, <2>3, Ends
<1> QED
  BY <1>1, <1>2, <1>3, <1>4 DEF LinuxNext, FgNext, LinuxExec, FgShell

LEMMA PbsFlow ==
    ASSUME Flow, PbsRequest
    PROVE  Flow'
<1>1. Shape /\ Idle /\ Place \in Before_
  BY AtPlace DEF Flow, PbsRequest, Chan, Before_
<1>2. CASE \E rc \in Before \cup After :
              /\ UNCHANGED call /\ Performs(rc)
              /\ Down(rc, {"connect", "timeout", "tls", "verify"})
              /\ Return(Result(FALSE, rc = "verify", "UNSET", "ok"))
  <2>1. PICK rc \in Before \cup After :
              /\ UNCHANGED call /\ Performs(rc)
              /\ Down(rc, {"connect", "timeout", "tls", "verify"})
              /\ Return(Result(FALSE, rc = "verify", "UNSET", "ok"))
    BY <1>2
  <2>2. /\ result'.id = call'.id /\ pc' = "idle" /\ DOMAIN conn' = DOMAIN NoConn
        /\ result'.no_dispatch => rc \in {"verify"}
    BY <1>1, <2>1 DEF Return, Result, Outcome, At, Down, Shape
  <2>3. {"verify"} \subseteq Before
    BY DEF Before
  <2> QED
    BY <1>1, <2>1, <2>2, <2>3, RestEnds
<1>3. CASE \E a \in Answered :
              /\ \E body \in Captured(a) : call' = [call EXCEPT !.body = body]
              /\ Performed(a)
              /\ UNCHANGED conn
              /\ Return(IF a.body = "long" THEN Outcome(FALSE, FALSE, "UNSET", "ok", "withheld")
                        ELSE Result(a.status < 400, FALSE, "UNSET", "ok"))
  <2>1. PICK a, body :
              /\ a \in Answered /\ call' = [call EXCEPT !.body = body]
              /\ Performed(a)
              /\ UNCHANGED conn
              /\ Return(IF a.body = "long" THEN Outcome(FALSE, FALSE, "UNSET", "ok", "withheld")
                        ELSE Result(a.status < 400, FALSE, "UNSET", "ok"))
    BY <1>3
  <2>2. /\ result'.id = call'.id /\ pc' = "idle" /\ DOMAIN conn' = DOMAIN NoConn
        /\ ~result'.no_dispatch
    BY <1>1, <2>1 DEF Return, Result, Outcome, At, Shape
  <2>3. \E may : Dispatch(may)
    BY <2>1, SMTT(60) DEF Performed
  <2> QED
    BY <1>1, <2>1, <2>2, <2>3, RestEnds
<1> QED
  BY <1>2, <1>3 DEF PbsRequest

LEMMA Gns3Flow ==
    ASSUME Flow, Gns3Request
    PROVE  Flow'
<1>1. Shape /\ Idle /\ Place \in Before_ /\ UNCHANGED conn
  BY AtPlace DEF Flow, Gns3Request, Chan, Before_
<1>2. CASE \E rc \in Before \cup After :
              UNCHANGED call /\ Performs(rc) /\ Return(Result(FALSE, FALSE, "UNKNOWN", "ok"))
  <2>1. PICK rc \in Before \cup After :
              UNCHANGED call /\ Performs(rc) /\ Return(Result(FALSE, FALSE, "UNKNOWN", "ok"))
    BY <1>2
  <2>2. /\ result'.id = call'.id /\ pc' = "idle" /\ DOMAIN conn' = DOMAIN NoConn
        /\ ~result'.no_dispatch
    BY <1>1, <2>1 DEF Return, Result, Outcome, At, Shape
  <2>3. {} \subseteq Before
    OBVIOUS
  <2> QED
    BY <1>1, <2>1, <2>2, <2>3, RestEnds
<1>3. CASE \E a \in Answered, matched \in BOOLEAN :
              /\ \E body \in Captured(a) : call' = [call EXCEPT !.body = body]
              /\ Performed(a)
              /\ matched => a.body \in {"text", "err"}
              /\ Return(Gns3Judges(a, matched))
  <2>1. PICK a, matched, body :
              /\ a \in Answered /\ call' = [call EXCEPT !.body = body]
              /\ Performed(a)
              /\ Return(Gns3Judges(a, matched))
    BY <1>3
  <2>2. /\ result'.id = call'.id /\ pc' = "idle" /\ DOMAIN conn' = DOMAIN NoConn
        /\ ~result'.no_dispatch
    BY <1>1, <2>1 DEF Return, Gns3Judges, Outcome, At, Shape
  <2>3. \E may : Dispatch(may)
    BY <2>1, SMTT(60) DEF Performed
  <2> QED
    BY <1>1, <2>1, <2>2, <2>3, RestEnds
<1> QED
  BY <1>2, <1>3 DEF Gns3Request

LEMMA MockFlow ==
    ASSUME Flow, (\E cmd \in ExecCommands : MockExecute(cmd)) \/ MockReply \/ MockHealth
    PROVE  Flow'
<1> USE DEF Idle, Unsent, At, threads, counters
<1>0. Shape
  BY DEF Flow
<1>1. ASSUME NEW cmd \in ExecCommands, MockExecute(cmd) PROVE Flow'
  <2>1. /\ Alone /\ Current \notin sent /\ pc = "idle"
        /\ DOMAIN call' = DOMAIN NoCall /\ call'.id = Current
    BY <1>1, Beginning DEF MockExecute
  <2>2. CASE pc' = "idle"
    <3>1. Shape'
      BY <1>0, <1>1, <2>1, <2>2, SMTT(60) DEF MockExecute, MockHook, Goes, Return, Refused, Result, Outcome, Shape, Places, Current, Alone
    <3> QED
      BY <1>1, <2>1, <2>2, <3>1, Ends, SMTT(60) DEF MockExecute, MockHook, Goes, Return, Refused, Result, Outcome
  <2>3. CASE pc' # "idle"
    <3>1. Shape' /\ pc' = "mock" /\ Place' = pc'
      BY <1>0, <1>1, <2>1, <2>3, SMTT(60)
         DEF MockExecute, Goes, Return, Shape, Places, Clears, Before_, Place, Chan
    <3> QED
      BY <1>1, <2>1, <2>3, <3>1, GoesOn, SMTT(60) DEF MockExecute, Goes, Return, Clears, Before_
  <2> QED
    BY <2>2, <2>3
<1>2. CASE MockReply
  <2>1. Place \in Before_ /\ Idle
    BY <1>2, AtPlace DEF MockReply, Chan, Before_
  <2>2. \E b : call' = [call EXCEPT !.body = b]
    BY <1>2 DEF MockReply
  <2>3. /\ result'.id = call'.id /\ pc' = "idle" /\ DOMAIN conn' = DOMAIN NoConn
        /\ ~result'.no_dispatch
    <3>1. \E success, d : Return(Result(success, FALSE, d, "ok"))
      BY <1>2 DEF MockReply
    <3>2. UNCHANGED conn
      BY <1>2 DEF MockReply
    <3> QED
      BY <1>0, <3>1, <3>2, SMTT(60) DEF Return, Result, Outcome, Shape
  <2>4. \E may : Dispatch(may)
    BY <1>2 DEF MockReply
  <2> QED
    BY <2>1, <2>2, <2>3, <2>4, RestEnds
<1>3. CASE MockHealth
  BY <1>3 DEF MockHealth, Flow, Shape, Numbers, Unwritten, NotSentIsTrue, Returned, Place, Current
<1> QED
  BY <1>1, <1>2, <1>3

LEMMA RestFlow ==
    ASSUME Flow, RestNext
    PROVE  Flow'
<1> USE DEF Idle, Unsent, At, threads, counters
<1>0. Shape
  BY DEF Flow
<1>1. ASSUME NEW cmd \in ExecCommands,
             PbsExecute(cmd) \/ ZammadExecute(cmd) \/ LibrenmsExecute(cmd)
               \/ (WazuhExecute(cmd) /\ ~Black(cmd))
      PROVE  Flow'
  <2>1. kind \in ExecKinds /\ kind # "linux" /\ kind # "fortigate" /\ \E r : RestBegins(cmd, r)
    BY <1>0, <1>1 DEF PbsExecute, ZammadExecute, LibrenmsExecute, WazuhExecute, Shape, ExecKinds, ShellKinds
  <2> QED
    BY <2>1, RestBeginsFlow
<1>2. ASSUME NEW cmd \in ExecCommands, (WazuhExecute(cmd) /\ Black(cmd)) \/ Gns3Execute(cmd)
      PROVE  Flow'
  <2>1. /\ Alone /\ Current \notin sent /\ pc = "idle"
        /\ DOMAIN call' = DOMAIN NoCall /\ call'.id = Current
    BY <1>2, Beginning DEF WazuhExecute, Gns3Execute
  <2>2. CASE pc' = "idle"
    <3>1. Shape'
      BY <1>0, <1>2, <2>1, <2>2, SMTT(60) DEF WazuhExecute, Gns3Execute, Goes, Return, Refused, Result, Outcome,
         Shape, Places, Current, Alone
    <3> QED
      BY <1>2, <2>1, <2>2, <3>1, Ends, SMTT(60) DEF WazuhExecute, Gns3Execute, Goes, Return, Refused, Result, Outcome
  <2>3. CASE pc' # "idle"
    <3>0. pc' = "gns3" /\ Clears /\ UNCHANGED <<conn, kind, login>>
      BY <1>2, <2>3 DEF WazuhExecute, Gns3Execute, Goes, Return
    <3>1. Shape' /\ Place' = pc'
      BY <1>0, <2>1, <3>0 DEF Shape, Places, Clears, Before_, Place, Chan
    <3> QED
      BY <1>2, <2>1, <2>3, <3>0, <3>1, GoesOn DEF WazuhExecute, Gns3Execute, Goes, Return, Clears, Before_
  <2> QED
    BY <2>2, <2>3
<1>3. CASE ZammadRequest \/ LibrenmsRequest \/ WazuhRequest
  <2>1. Place \in Before_
    BY <1>3, AtPlace DEF ZammadRequest, LibrenmsRequest, WazuhRequest, Chan, Before_
  <2>2. {} \subseteq Before /\ {"connect", "resolve", "tls"} \subseteq Before
    BY DEF Before
  <2> QED
    BY <1>3, <2>1, <2>2, RestAnswersFlow DEF ZammadRequest, LibrenmsRequest, WazuhRequest
<1>4. CASE WazuhToken
  <2>1. Place \in Before_ /\ Alone /\ call.id = Current /\ Current \notin sent
    BY <1>4, AtPlace, ServingAlone DEF WazuhToken, Chan, Before_, Sending, Flow, Unwritten
  <2>2. CASE pc' = "idle"
    <3>1. Shape' /\ result'.id = Current
      BY <1>0, <1>4, <2>1, <2>2, SMTT(60) DEF WazuhToken, Goes, Return, Refused, Result, Outcome, Shape,
         Places, Current, Alone
    <3> QED
      BY <1>4, <2>1, <2>2, <3>1, Ends DEF WazuhToken
  <2>3. CASE pc' # "idle"
    <3>1. Shape' /\ pc' = "wazuh.request" /\ Place' = pc'
      BY <1>0, <1>4, <2>1, <2>3, SMTT(60) DEF WazuhToken, Goes, Return, Shape, Places, Clears, Before_, Place, Chan
    <3> QED
      BY <1>4, <2>1, <2>3, <3>1, GoesOn, SMTT(60) DEF WazuhToken, Goes, Return, Clears, Before_
  <2> QED
    BY <2>2, <2>3
<1> QED
  BY <1>1, <1>2, <1>3, <1>4, PbsFlow, Gns3Flow, MockFlow DEF RestNext

LEMMA FlowInit == DriverInit => Flow
<1> SUFFICES ASSUME DriverInit PROVE Flow
  OBVIOUS
<1>1. Shape /\ Place = "idle" /\ Current = 1
  BY SMTT(60) DEF DriverInit, Shape, Places, Place, Chan, Current
<1>2. Numbers
  BY <1>1 DEF DriverInit, Numbers, Before_, Sending, Opening
<1>3. Unwritten
  BY <1>1 DEF DriverInit, Unwritten
<1>4. NotSentIsTrue
  BY DEF DriverInit, NotSentIsTrue
<1> QED
  BY <1>1, <1>2, <1>3, <1>4 DEF Flow

LEMMA FlowStep == Flow /\ [Next]_driverVars => Flow'
<1> SUFFICES ASSUME Flow, [Next]_driverVars PROVE Flow'
  OBVIOUS
<1>1. CASE UNCHANGED driverVars
  BY <1>1, SMTT(60) DEF driverVars, Flow, Shape, Numbers, Unwritten, NotSentIsTrue, Returned, Place, Current
<1>2. CASE ShellNext
  BY <1>2, ChannelFlow, EnvironmentFlow, ConnectFlow, CiscoFlow, AsaFlow, JunosFlow, PanosFlow DEF ShellNext
<1>3. CASE ExecNext
  BY <1>3, ConnectFlow, LinuxFlow, RestFlow DEF ExecNext
<1> QED
  BY <1>1, <1>2, <1>3, ConnectFlow DEF Next

LEMMA FlowHolds == Spec => []Flow
BY FlowInit, FlowStep, PTL DEF Spec

(* For any number of calls and connections, no driver returns no_dispatch for
   a command of which it has written a byte: the node, which runs a command
   again only on no_dispatch, never repeats one the device may have seen. *)
THEOREM DriversNotSentIsTrue == Spec => []NotSentIsTrue
<1>1. Flow => NotSentIsTrue
  BY DEF Flow
<1> QED
  BY FlowHolds, <1>1, PTL

-----------------------------------------------------------------------------
(* Lines on their way to the device *)

LEMMA AppendSeq ==
    ASSUME NEW s, NEW e, IsSeq(s)
    PROVE  /\ IsSeq(Append(s, e)) /\ Len(s) \in Nat /\ DOMAIN s = 1..Len(s)
           /\ DOMAIN Append(s, e) = 1..(Len(s) + 1)
           /\ \A i \in 1..Len(s) : Append(s, e)[i] = s[i]
           /\ Append(s, e)[Len(s) + 1] = e
<1>1. PICK S : s \in Seq(S)
  BY DEF IsSeq
<1>2. s \in Seq(S \cup {e}) /\ e \in S \cup {e}
  BY <1>1, SMTT(60)
<1>3. Append(s, e) \in Seq(S \cup {e})
  BY <1>2, SMTT(60)
<1> QED
  BY <1>2, <1>3, SMTT(60) DEF IsSeq

LEMMA TailSeq ==
    ASSUME NEW s, IsSeq(s), s # <<>>
    PROVE  /\ IsSeq(Tail(s)) /\ Len(s) \in Nat /\ Len(s) > 0 /\ DOMAIN s = 1..Len(s)
           /\ DOMAIN Tail(s) = 1..(Len(s) - 1)
           /\ Head(s) = s[1]
           /\ \A i \in 1..(Len(s) - 1) : Tail(s)[i] = s[i + 1]
<1>1. PICK S : s \in Seq(S)
  BY DEF IsSeq
<1>2. Tail(s) \in Seq(S)
  BY <1>1, SMTT(60)
<1> QED
  BY <1>1, <1>2, SMTT(60) DEF IsSeq

LEMMA NoneSeq == IsSeq(<<>>) /\ DOMAIN <<>> = {}
<1>1. <<>> \in Seq({})
  BY SMTT(60)
<1> QED
  BY <1>1, SMTT(60) DEF IsSeq

LEMMA LinesAre ==
    Lines => /\ DOMAIN ch = DOMAIN NoChannel /\ IsSeq(ch.line)
             /\ DOMAIN ran = Calls /\ \A c \in Calls : IsSeq(ran[c])
BY DEF Lines

LEMMA LinesRest ==
    ASSUME Lines, ran' = ran, sent \subseteq sent'
    PROVE  /\ RanAtMostOnce' /\ DOMAIN ran' = Calls /\ \A c \in Calls : IsSeq(ran'[c])
           /\ \A c \in Calls \ sent' : ran'[c] = <<>>
<1>1. RanAtMostOnce
  BY DEF Lines
<1>2. RanAtMostOnce'
  BY <1>1 DEF RanAtMostOnce
<1>3. \A c \in Calls \ sent' : ran'[c] = <<>>
  BY DEF Lines
<1> QED
  BY <1>2, <1>3, LinesAre

(* A line is added in nobody's name, or all of them are dropped, or none. *)
LEMMA LinesKept ==
    ASSUME Lines, DOMAIN ch' = DOMAIN NoChannel, ran' = ran, sent \subseteq sent',
           \/ ch'.line = ch.line \/ ch'.line = <<>>
           \/ \E w : ch'.line = Append(ch.line, Line(0, w))
    PROVE  Lines' /\ \A c : c # 0 => Words(c)' \subseteq Words(c)
<1>1. CASE ch'.line = ch.line
  <2>1. Lines'
    <3>1. \A i, j \in DOMAIN ch'.line :
             i # j /\ ch'.line[i].id = ch'.line[j].id /\ ch'.line[i].id # 0
                => ch'.line[i].word # ch'.line[j].word
      BY <1>1 DEF Lines
    <3>2. \A i \in DOMAIN ch'.line : ch'.line[i].id \in Calls =>
             \A k \in DOMAIN ran'[ch'.line[i].id] : ran'[ch'.line[i].id][k][1] # ch'.line[i].word
      BY <1>1 DEF Lines
    <3>3. \A i \in DOMAIN ch'.line : ch'.line[i].id \in sent' \cup {0}
      BY <1>1 DEF Lines
    <3> QED
      BY <1>1, <3>1, <3>2, <3>3, LinesAre, LinesRest DEF Lines
  <2> QED
    BY <1>1, <2>1 DEF Words
<1>2. CASE ch'.line = <<>>
  <2>1. Lines'
    <3>1. DOMAIN ch'.line = {} /\ IsSeq(ch'.line)
      BY <1>2, NoneSeq
    <3> QED
      BY <3>1, LinesRest DEF Lines
  <2> QED
    BY <1>2, <2>1, NoneSeq DEF Words
<1>3. CASE \E w : ch'.line = Append(ch.line, Line(0, w))
  <2>1. PICK w : ch'.line = Append(ch.line, Line(0, w))
    BY <1>3
  <2> DEFINE n == Len(ch.line)
  <2>2. /\ IsSeq(ch'.line) /\ n \in Nat /\ DOMAIN ch.line = 1..n
        /\ DOMAIN ch'.line = 1..(n + 1)
        /\ \A i \in 1..n : ch'.line[i] = ch.line[i]
        /\ ch'.line[n + 1].id = 0
    BY <2>1, AppendSeq, LinesAre, SMTT(60) DEF Line
  <2> HIDE DEF n
  <2>3. \A i \in DOMAIN ch'.line : ch'.line[i].id # 0 => i \in DOMAIN ch.line /\ ch'.line[i] = ch.line[i]
    BY <2>2, SMTT(60)
  <2>4. Lines'
    <3>1. \A i, j \in DOMAIN ch'.line :
             i # j /\ ch'.line[i].id = ch'.line[j].id /\ ch'.line[i].id # 0
                => ch'.line[i].word # ch'.line[j].word
      BY <2>3, SMTT(60) DEF Lines
    <3>2. \A i \in DOMAIN ch'.line : ch'.line[i].id \in Calls =>
             \A k \in DOMAIN ran'[ch'.line[i].id] : ran'[ch'.line[i].id][k][1] # ch'.line[i].word
      BY <2>3, SMTT(60) DEF Lines, Calls
    <3>3. \A i \in DOMAIN ch'.line : ch'.line[i].id \in sent' \cup {0}
      BY <2>2, SMTT(60) DEF Lines
    <3> QED
      BY <2>2, <3>1, <3>2, <3>3, LinesRest DEF Lines
  <2> QED
    BY <2>3, <2>4, SMTT(60) DEF Words
<1> QED
  BY <1>1, <1>2, <1>3

(* A line that has not been said yet is written in the name of a call. *)
LEMMA LinesSent ==
    ASSUME Lines, DOMAIN ch' = DOMAIN NoChannel, ran' = ran, NEW id, NEW w,
           sent' = sent \cup {id}, id # 0 => w \notin Words(id),
           ch'.line = Append(ch.line, Line(id, w))
    PROVE  Lines' /\ \A c : c # 0 => Words(c)' \subseteq Words(c) \cup (IF c = id THEN {w} ELSE {})
<1> DEFINE n == Len(ch.line)
<1>1. /\ IsSeq(ch'.line) /\ n \in Nat /\ DOMAIN ch.line = 1..n
      /\ DOMAIN ch'.line = 1..(n + 1)
      /\ \A i \in 1..n : ch'.line[i] = ch.line[i]
      /\ ch'.line[n + 1].id = id /\ ch'.line[n + 1].word = w
  BY AppendSeq, LinesAre, SMTT(60) DEF Line
<1> HIDE DEF n
<1>2. \A i \in DOMAIN ch'.line : \/ i \in DOMAIN ch.line /\ ch'.line[i] = ch.line[i]
                                 \/ i = n + 1 /\ ch'.line[i].id = id /\ ch'.line[i].word = w
  BY <1>1, SMTT(60)
<1>3. \A i \in DOMAIN ch.line : id # 0 /\ ch.line[i].id = id => ch.line[i].word # w
  BY DEF Words
<1>4. id \in Calls => \A k \in DOMAIN ran[id] : ran[id][k][1] # w
  BY SMTT(60) DEF Words, Calls
<1>5. \A i, j \in DOMAIN ch'.line :
         i # j /\ ch'.line[i].id = ch'.line[j].id /\ ch'.line[i].id # 0
            => ch'.line[i].word # ch'.line[j].word
  BY <1>2, <1>3, SMTT(60) DEF Lines
<1>6. \A i \in DOMAIN ch'.line : ch'.line[i].id \in Calls =>
         \A k \in DOMAIN ran[ch'.line[i].id] : ran[ch'.line[i].id][k][1] # ch'.line[i].word
  BY <1>2, <1>4 DEF Lines
<1>7. \A i \in DOMAIN ch'.line : ch'.line[i].id \in sent' \cup {0}
  BY <1>2 DEF Lines
<1>8. Lines'
  <2>1. \A i \in DOMAIN ch'.line : ch'.line[i].id \in Calls =>
           \A k \in DOMAIN ran'[ch'.line[i].id] : ran'[ch'.line[i].id][k][1] # ch'.line[i].word
    BY <1>6
  <2>2. sent \subseteq sent'
    OBVIOUS
  <2> QED
    BY <1>1, <1>5, <1>7, <2>1, <2>2, LinesRest DEF Lines
<1> QED
  BY <1>2, <1>8, SMTT(60) DEF Words

(* The device runs the first line. *)
LEMMA LinesRun ==
    ASSUME Lines, DeviceStep
    PROVE  Lines' /\ \A c : c # 0 => Words(c)' \subseteq Words(c)
<1> DEFINE l == Head(ch.line)
           n == Len(ch.line)
<1>1. ch.line # <<>> /\ sent' = sent
  BY DEF DeviceStep
<1>2. ch'.line = Tail(ch.line) /\ DOMAIN ch' = DOMAIN NoChannel
  BY LinesAre DEF DeviceStep, NoChannel
<1>3. ran' = IF OwnLine(l) THEN [Since(l.id) EXCEPT ![l.id] = Append(@, Ran(l.word))] ELSE ran
  BY DEF DeviceStep
<1>4. /\ IsSeq(ch'.line) /\ n \in Nat /\ n > 0 /\ DOMAIN ch.line = 1..n
      /\ DOMAIN ch'.line = 1..(n - 1)
      /\ \A i \in 1..(n - 1) : ch'.line[i] = ch.line[i + 1]
      /\ l = ch.line[1]
  BY <1>1, <1>2, TailSeq, LinesAre
<1> HIDE DEF l, n
<1>5. \A i \in DOMAIN ch'.line : /\ i + 1 \in DOMAIN ch.line /\ ch'.line[i] = ch.line[i + 1]
                                 /\ i + 1 # 1 /\ i \in Nat
  BY <1>4, SMTT(60)
<1>6. \A i, j \in DOMAIN ch'.line :
         i # j /\ ch'.line[i].id = ch'.line[j].id /\ ch'.line[i].id # 0
            => ch'.line[i].word # ch'.line[j].word
  <2>1. \A i, j \in DOMAIN ch'.line : i # j => i + 1 # j + 1
    BY <1>5, SMTT(60)
  <2> QED
    BY <1>5, <2>1, SMTT(60) DEF Lines
<1>7. \A i \in DOMAIN ch'.line : ch'.line[i].id \in sent' \cup {0}
  BY <1>1, <1>5 DEF Lines
<1>8. \A i \in DOMAIN ch'.line : ch'.line[i].id = l.id /\ l.id # 0 => ch'.line[i].word # l.word
  <2>1. 1 \in DOMAIN ch.line
    BY <1>4, SMTT(60)
  <2> QED
    BY <1>4, <1>5, <2>1, ZenonT(60) DEF Lines
<1>9. CASE ~OwnLine(l)
  <2>1. ran' = ran
    BY <1>3, <1>9
  <2>2. Lines'
    <3>1. \A i \in DOMAIN ch.line : ch.line[i].id \in Calls =>
             \A k \in DOMAIN ran[ch.line[i].id] : ran[ch.line[i].id][k][1] # ch.line[i].word
      BY DEF Lines
    <3>2. \A i \in DOMAIN ch'.line : ch'.line[i].id \in Calls =>
             \A k \in DOMAIN ran'[ch'.line[i].id] : ran'[ch'.line[i].id][k][1] # ch'.line[i].word
      BY <1>5, <2>1, <3>1
    <3>3. sent \subseteq sent'
      BY <1>1
    <3> QED
      BY <1>2, <1>4, <1>6, <1>7, <2>1, <3>2, <3>3, LinesRest DEF Lines
  <2> QED
    BY <1>5, <2>1, <2>2, SMTT(60) DEF Words
<1>10. CASE OwnLine(l)
  <2> DEFINE d == l.id
  <2>1. d \in Calls /\ d # 0 /\ 1 \in DOMAIN ch.line
    <3>1. d \in Calls
      BY <1>10 DEF OwnLine
    <3>2. d # 0
      BY <3>1, SMTT(60) DEF Calls
    <3> QED
      BY <1>4, <3>1, <3>2, SMTT(60)
  <2>2. /\ DOMAIN ran' = Calls
        /\ \A c \in Calls : c # d => ran'[c] = <<>> \/ ran'[c] = ran[c]
        /\ ran'[d] = Append(ran[d], Ran(l.word))
    BY <1>3, <1>10, <2>1, SMTT(60) DEF Since, Calls
  <2>3. d \in sent /\ \A k \in DOMAIN ran[d] : ran[d][k][1] # l.word
    BY <1>4, <2>1 DEF Lines
  <2> DEFINE m == Len(ran[d])
  <2>4. /\ IsSeq(ran'[d]) /\ m \in Nat /\ DOMAIN ran[d] = 1..m
        /\ DOMAIN ran'[d] = 1..(m + 1)
        /\ \A i \in 1..m : ran'[d][i] = ran[d][i]
        /\ ran'[d][m + 1][1] = l.word
    BY <2>1, <2>2, AppendSeq, LinesAre, SMTT(60) DEF Ran
  <2> HIDE DEF m, d
  <2>5. \A k \in DOMAIN ran'[d] : \/ k \in DOMAIN ran[d] /\ ran'[d][k] = ran[d][k]
                                  \/ k = m + 1 /\ ran'[d][k][1] = l.word
    BY <2>4, SMTT(60)
  <2>6. \A c \in Calls : IsSeq(ran'[c])
    BY <2>2, <2>4, NoneSeq, ZenonT(60) DEF Lines
  <2>7. \A c \in Calls : \A i, j \in DOMAIN ran'[c] : i # j => ran'[c][i][1] # ran'[c][j][1]
    <3>1. \A i, j \in DOMAIN ran'[d] : i # j => ran'[d][i][1] # ran'[d][j][1]
      BY <2>1, <2>3, <2>5, SMTT(60) DEF Lines, RanAtMostOnce
    <3> QED
      BY <2>2, <3>1, NoneSeq, SMTT(60) DEF Lines, RanAtMostOnce
  <2>8. \A i \in DOMAIN ch'.line : ch'.line[i].id \in Calls =>
           \A k \in DOMAIN ran'[ch'.line[i].id] : ran'[ch'.line[i].id][k][1] # ch'.line[i].word
    <3> SUFFICES ASSUME NEW i \in DOMAIN ch'.line, ch'.line[i].id \in Calls,
                        NEW k \in DOMAIN ran'[ch'.line[i].id]
                 PROVE  ran'[ch'.line[i].id][k][1] # ch'.line[i].word
      OBVIOUS
    <3>1. CASE ch'.line[i].id = d
      <4>1. i + 1 \in DOMAIN ch.line /\ ch'.line[i] = ch.line[i + 1]
        BY <1>5
      <4>2. \A x \in DOMAIN ran[d] : ran[d][x][1] # ch'.line[i].word
        BY <2>1, <3>1, <4>1 DEF Lines
      <4>3. ch'.line[i].word # l.word
        BY <1>8, <2>1, <3>1 DEF d
      <4> QED
        BY <2>5, <3>1, <4>2, <4>3
    <3>2. CASE ch'.line[i].id # d
      <4>1. i + 1 \in DOMAIN ch.line /\ ch'.line[i] = ch.line[i + 1]
        BY <1>5
      <4>2. \A x \in DOMAIN ran[ch.line[i + 1].id] : ran[ch.line[i + 1].id][x][1] # ch.line[i + 1].word
        BY <4>1 DEF Lines
      <4>3. ran'[ch'.line[i].id] = ran[ch'.line[i].id]
        BY <2>2, <3>2, NoneSeq
      <4> QED
        BY <4>1, <4>2, <4>3
    <3> QED
      BY <3>1, <3>2
  <2>9. \A c \in Calls \ sent : ran'[c] = <<>>
    BY <2>2, <2>3 DEF Lines
  <2>10. Lines'
    BY <1>1, <1>2, <1>4, <1>6, <1>7, <2>2, <2>6, <2>7, <2>8, <2>9 DEF Lines, RanAtMostOnce
  <2>11. ASSUME NEW c, c # 0 PROVE Words(c)' \subseteq Words(c)
    <3>1. CASE c = d
      <4> SUFFICES ASSUME NEW w \in Words(c)' PROVE w \in Words(c)
        OBVIOUS
      <4>1. CASE \E i \in DOMAIN ch'.line : ch'.line[i].id = c /\ w = ch'.line[i].word
        BY <1>5, <4>1 DEF Words
      <4>2. CASE \E k \in DOMAIN ran'[c] : w = ran'[c][k][1]
        <5>1. \/ \E k \in DOMAIN ran[c] : w = ran[c][k][1]
              \/ ch.line[1].id = c /\ w = ch.line[1].word
          BY <1>4, <2>5, <3>1, <4>2 DEF d
        <5> QED
          BY <2>1, <3>1, <5>1 DEF Words
      <4> QED
        BY <4>1, <4>2 DEF Words
    <3>2. CASE c # d
      BY <1>5, <2>2, <3>2, NoneSeq, SMTT(60) DEF Words
    <3> QED
      BY <3>1, <3>2
  <2> QED
    BY <2>10, <2>11
<1> QED
  BY <1>9, <1>10

(* A command leaves a driver that opens something new for each. *)
LEMMA LinesDispatched ==
    ASSUME Lines, DOMAIN ch' = DOMAIN NoChannel, ch'.line = ch.line, NEW may, Dispatch(may),
           call'.id \notin sent, call'.id # 0
    PROVE  Lines'
<1> DEFINE d == call'.id
<1>1. sent' = sent \cup {d}
  BY DEF Dispatch
<1>2. ran' = ran \/ ran' = [ran EXCEPT ![d] = Append(@, <<call'.cmd, FALSE>>)]
  BY DEF Dispatch
<1>3. \A i \in DOMAIN ch.line : ch.line[i].id # d
  BY DEF Lines
<1> HIDE DEF d
<1>4. CASE ran' = ran \/ d \notin Calls
  <2>1. DOMAIN ran' = Calls /\ \A c \in Calls : ran'[c] = ran[c]
    BY <1>2, <1>4 DEF Lines
  <2> QED
    BY <1>1, <2>1, SMTT(60) DEF Lines, RanAtMostOnce
<1>5. CASE ran' = [ran EXCEPT ![d] = Append(@, <<call'.cmd, FALSE>>)] /\ d \in Calls
  <2>1. ran[d] = <<>>
    BY <1>5 DEF Lines, d
  <2>2. /\ DOMAIN ran' = Calls /\ ran'[d] = Append(<<>>, <<call'.cmd, FALSE>>)
        /\ \A c \in Calls : c # d => ran'[c] = ran[c]
    BY <1>5, <2>1, ZenonT(60) DEF Lines
  <2>3. IsSeq(ran'[d]) /\ DOMAIN ran'[d] = 1..1
    <3>1. Len(<<>>) = 0
      OBVIOUS
    <3> DEFINE e == <<call'.cmd, FALSE>>
    <3> HIDE DEF e
    <3>2. IsSeq(Append(<<>>, e)) /\ DOMAIN Append(<<>>, e) = 1..(Len(<<>>) + 1)
      BY NoneSeq, AppendSeq
    <3>3. 0 + 1 = 1
      BY SMTT(60)
    <3> QED
      BY <2>2, <3>1, <3>2, <3>3 DEF e
  <2>4. \A i, j \in DOMAIN ran'[d] : i = j
    BY <2>3, SMTT(60)
  <2>5. \A i \in DOMAIN ch.line : ch.line[i].id \in Calls =>
           \A k \in DOMAIN ran'[ch.line[i].id] : ran'[ch.line[i].id][k][1] # ch.line[i].word
    BY <1>3, <2>2, SMTT(60) DEF Lines
  <2>6. \A c \in Calls : \A i, j \in DOMAIN ran'[c] : i # j => ran'[c][i][1] # ran'[c][j][1]
    BY <2>2, <2>4, SMTT(60) DEF Lines, RanAtMostOnce
  <2>7. /\ \A c \in Calls : IsSeq(ran'[c])
        /\ \A c \in Calls \ sent' : ran'[c] = <<>>
        /\ \A i \in DOMAIN ch.line : ch.line[i].id \in sent' \cup {0}
    BY <1>1, <2>2, <2>3 DEF Lines
  <2> QED
    BY <2>2, <2>5, <2>6, <2>7, SMTT(60) DEF Lines, RanAtMostOnce
<1> QED
  BY <1>2, <1>4, <1>5

(* Nothing has been said in the name of a call that was not sent. *)
LEMMA Unsaid ==
    ASSUME Lines', NEW c, c \notin sent', c # 0
    PROVE  Words(c)' = {}
BY NoneSeq DEF Lines, Words

(* Where only the first line of a call can be about to go. *)
LEMMA FirstIsFresh ==
    ASSUME Flow', Lines', Place' \notin {"ios.rebooted", "ios.step", "ios.settled"},
           Place' = "ios.ran" => pc' = "send" /\ call'.line = call'.cmd
    PROVE  Fresh'
<1>1. ASSUME pc' = "send" PROVE call'.id = 0 \/ (Current' \notin sent' /\ call'.id = Current')
  BY <1>1 DEF Flow, Shape, Numbers, Unwritten, Place, Chan, SendThens, Sending
<1>2. Current' # 0
  BY SMTT(60) DEF Flow, Shape, Current
<1>3. pc' = "send" /\ call'.id # 0 => (Words(call.id))' = {}
  BY <1>1, <1>2, Unsaid
<1>4. Place' = "ios.ran" => (Words(Current))' = {}
  BY <1>2, Unsaid DEF Flow, Unwritten
<1> QED
  BY <1>3, <1>4 DEF Fresh

(* Said no more than before, at the same place: still fresh. *)
LEMMA FreshKept ==
    ASSUME Fresh, Place' = Place, pc' = pc \/ pc' # "send", \A c : c # 0 => Words(c)' \subseteq Words(c),
           Current' = Current, Current # 0,
           call'.id = call.id, call'.cmd = call.cmd, call'.line = call.line, call'.step = call.step
    PROVE  Fresh'
<1>1. (Words(Current))' \subseteq Words(Current)
  <2>1. Words(Current)' = (Words(Current))'
    OBVIOUS
  <2> QED
    BY <2>1
<1>2. pc' = "send" /\ call'.id # 0 => call'.line \notin (Words(call.id))'
  BY DEF Fresh
<1> QED
  BY <1>1, <1>2 DEF Fresh

LEMMA WritesLine ==
    ASSUME NEW c, DOMAIN c = DOMAIN NoChannel, NEW id, NEW w
    PROVE  /\ DOMAIN Writes(c, id, w) = DOMAIN NoChannel
           /\ Writes(c, id, w).line = c.line \/ Writes(c, id, w).line = Append(c.line, Line(id, w))
BY DEF Writes, NoChannel

LEMMA DrainedLine ==
    ASSUME Lines
    PROVE  /\ DOMAIN Emptied = DOMAIN NoChannel /\ Emptied.line = ch.line
           /\ \A n : DOMAIN Drained(n) = DOMAIN NoChannel /\ Drained(n).line = ch.line
BY LinesAre DEF Drained, Emptied, Waited, NoChannel

LEMMA ChannelOnce ==
    ASSUME Flow, Flow', Lines, Fresh, ChannelStep
    PROVE  Lines' /\ Fresh'
<1>0. /\ Stays /\ UNCHANGED <<result, ran>> /\ pc \in Chan
      /\ sent' = sent \/ (pc = "send" /\ pc' = "read" /\ sent' = sent \cup {call.id})
  BY ChannelStays, ChannelWrites DEF Flow, Stays
<1>1. Place' = Place /\ pc' # "send" /\ Current' = Current /\ Current # 0
  BY <1>0, SMTT(60) DEF Stays, Place, Flow, Shape, Chan, SendThens, LearnThens, Current
<1>2. CASE /\ pc = "send" /\ sent' = sent \cup {call.id} /\ pc' = "read"
           /\ \E n \in Reach : ch' = Writes(Drained(n), call.id, call.line)
  <2>1. DOMAIN ch' = DOMAIN NoChannel /\ (ch'.line = ch.line \/ ch'.line = Append(ch.line, Line(call.id, call.line)))
    <3>1. PICK n \in Reach : ch' = Writes(Drained(n), call.id, call.line)
      BY <1>2
    <3> DEFINE d == Drained(n)
               id == call.id
               w == call.line
    <3>2. DOMAIN d = DOMAIN NoChannel /\ d.line = ch.line
      BY DrainedLine
    <3>3. ch' = Writes(d, id, w)
      BY <3>1
    <3> HIDE DEF d, id, w
    <3>4. /\ DOMAIN Writes(d, id, w) = DOMAIN NoChannel
          /\ Writes(d, id, w).line = d.line \/ Writes(d, id, w).line = Append(d.line, Line(id, w))
      BY <3>2, WritesLine
    <3>5. DOMAIN ch' = DOMAIN NoChannel /\ (ch'.line = ch.line \/ ch'.line = Append(ch.line, Line(id, w)))
      BY <3>2, <3>3, <3>4
    <3> QED
      BY <3>5 DEF id, w
  <2>2. CASE ch'.line = ch.line
    <3>1. Lines' /\ \A c : c # 0 => Words(c)' \subseteq Words(c)
      BY <1>0, <1>2, <2>1, <2>2, LinesKept
    <3> QED
      BY <1>0, <1>1, <3>1, FreshKept DEF Stays
  <2>3. CASE ch'.line = Append(ch.line, Line(call.id, call.line))
    <3>1. call.id # 0 => call.line \notin Words(call.id)
      BY <1>2 DEF Fresh
    <3>2. Lines' /\ \A c : c # 0 => Words(c)' \subseteq Words(c) \cup (IF c = call.id THEN {call.line} ELSE {})
      BY <1>0, <1>2, <2>1, <2>3, <3>1, LinesSent
    <3>3. (Words(Current))' \subseteq Words(Current) \cup {call.line}
      BY <1>1, <3>2
    <3>4. CASE Place = "ios.ran"
      BY <1>0, <1>1, <1>2, <3>2, <3>3, <3>4 DEF Fresh, Stays
    <3>5. CASE Place = "ios.rebooted"
      BY <1>0, <1>1, <1>2, <3>2, <3>3, <3>5 DEF Fresh, Stays
    <3>6. CASE Place = "ios.step"
      <4>1. /\ call.step \in 1..4 /\ Words(Current) \subseteq {Steps[j] : j \in 1..(call.step - 1)}
            /\ call.line = Steps[call.step]
        BY <1>2, <3>6 DEF Fresh
      <4>2. (Words(Current))' \subseteq {Steps[j] : j \in 1..call.step}
        BY <3>3, <4>1, SMTT(60)
      <4> QED
        BY <1>0, <1>1, <3>2, <3>6, <4>1, <4>2 DEF Fresh, Stays
    <3>7. CASE Place \notin {"ios.ran", "ios.rebooted", "ios.step"}
      <4>1. Place # "ios.settled"
        BY <1>2 DEF Place, Chan, Flow, Shape, SendThens
      <4> QED
        BY <1>1, <3>2, <3>7, <4>1 DEF Fresh
    <3> QED
      BY <3>2, <3>4, <3>5, <3>6, <3>7
  <2> QED
    BY <2>1, <2>2, <2>3
<1>3. CASE sent' = sent /\ DOMAIN ch' = DOMAIN NoChannel
           /\ (ch'.line = ch.line \/ \E w : ch'.line = Append(ch.line, Line(0, w)))
  <2>1. Lines' /\ \A c : c # 0 => Words(c)' \subseteq Words(c)
    BY <1>0, <1>3, LinesKept
  <2> QED
    BY <1>0, <1>1, <2>1, FreshKept DEF Stays
<1>4. CASE Send
  BY <1>2, <1>3, <1>4, DrainedLine DEF Send, At
<1>5. CASE ReadPrompt \/ ReadFails
  <2>1. DOMAIN ch' = DOMAIN NoChannel /\ ch'.line = ch.line /\ sent' = sent
    BY <1>5, DrainedLine, LinesAre DEF ReadPrompt, ReadFails, NoChannel
  <2> QED
    BY <1>3, <2>1
<1>6. CASE Learn \/ Probe1 \/ Probe2
  <2>1. sent' = sent /\ \E n \in Reach : ch' = Drained(n) \/ ch' = Writes(Drained(n), 0, "")
    BY <1>6 DEF Learn, Probe1, Probe2
  <2>2. PICK n \in Reach : ch' = Drained(n) \/ ch' = Writes(Drained(n), 0, "")
    BY <2>1
  <2> QED
    <3>1. ch' = Drained(n) => DOMAIN ch' = DOMAIN NoChannel /\ ch'.line = ch.line
      BY DrainedLine
    <3>2. ch' = Writes(Drained(n), 0, "") =>
             DOMAIN ch' = DOMAIN NoChannel /\ (ch'.line = ch.line \/ ch'.line = Append(ch.line, Line(0, "")))
      <4>1. DOMAIN Drained(n) = DOMAIN NoChannel /\ Drained(n).line = ch.line
        BY DrainedLine
      <4> QED
        BY <4>1, WritesLine
    <3> QED
      BY <1>3, <2>1, <2>2, <3>1, <3>2
<1> QED
  BY <1>4, <1>5, <1>6 DEF ChannelStep

LEMMA EnvironmentOnce ==
    ASSUME Flow, Lines, Fresh, Environment
    PROVE  Lines' /\ Fresh'
<1>1. /\ UNCHANGED <<pc, call, result, sent>> /\ Place' = Place /\ Current' = Current /\ Current # 0
  <2>1. UNCHANGED <<pc, call, result, sent>>
    BY DEF Environment, DeviceStep, Log, Stall, PeerCloses
  <2> QED
    BY <2>1, SMTT(60) DEF Place, Current, Flow, Shape
<1>2. Lines' /\ \A c : c # 0 => Words(c)' \subseteq Words(c)
  <2>1. CASE DeviceStep
    BY <2>1, LinesRun
  <2>2. CASE Log \/ Stall \/ PeerCloses
    <3>1. DOMAIN ch' = DOMAIN NoChannel /\ ran' = ran /\ (ch'.line = ch.line \/ ch'.line = <<>>)
      BY <2>2, LinesAre DEF Log, Stall, PeerCloses, NoChannel
    <3> QED
      BY <1>1, <3>1, LinesKept
  <2> QED
    BY <2>1, <2>2 DEF Environment
<1> QED
  BY <1>1, <1>2, FreshKept

(* Steps that write nothing in the name of a call. *)
LEMMA OnceMoves ==
    ASSUME Flow', Lines, DOMAIN ch' = DOMAIN NoChannel, ran' = ran, sent' = sent,
           \/ ch'.line = ch.line \/ ch'.line = <<>>
           \/ \E w : ch'.line = Append(ch.line, Line(0, w)),
           Place' \notin {"ios.rebooted", "ios.step", "ios.settled"},
           Place' = "ios.ran" => pc' = "send" /\ call'.line = call'.cmd
    PROVE  Lines' /\ Fresh'
<1>1. Lines'
  BY LinesKept
<1> QED
  BY <1>1, FirstIsFresh

LEMMA SetupSeq ==
    ASSUME NEW words \in Setup
    PROVE  words \in {<<>>, <<"pager">>, <<"pager", "enable", "pager">>}
BY DEF Setup, CiscoSetup, JunosSetup

LEMMA GreetedLines ==
    ASSUME Lines, Greeted
    PROVE  Lines'
<1>1. PICK words \in Setup : ch'.line = [i \in DOMAIN words |-> Line(0, words[i])]
  BY SMTT(60) DEF Greeted
<1>2. DOMAIN ch' = DOMAIN NoChannel /\ UNCHANGED <<sent, ran>>
  BY DEF Greeted, NoChannel
<1>3. words \in Seq({"pager", "enable"})
  <2>1. <<>> \in Seq({"pager", "enable"})
    BY SMTT(60)
  <2>2. <<"pager">> \in Seq({"pager", "enable"})
    BY SMTT(60)
  <2>3. <<"pager", "enable", "pager">> \in Seq({"pager", "enable"})
    BY SMTT(60)
  <2> QED
    BY <2>1, <2>2, <2>3, SetupSeq
<1>4. PICK n \in Nat : DOMAIN words = 1..n /\ \A i \in 1..n : words[i] \in {"pager", "enable"}
  BY <1>3, SMTT(60)
<1>5. ch'.line \in Seq([id : {0}, word : {"pager", "enable"}])
  BY <1>1, <1>4, SMTT(60) DEF Line
<1>6. IsSeq(ch'.line)
  BY <1>5 DEF IsSeq
<1>7. \A i \in DOMAIN ch'.line : ch'.line[i].id = 0
  BY <1>1, <1>4, SMTT(60) DEF Line
<1> QED
  BY <1>2, <1>6, <1>7, SMTT(60) DEF Lines, RanAtMostOnce, Calls

LEMMA ConnectOnce ==
    ASSUME Flow, Flow', Lines, Fresh,
           Connect \/ LoginNext \/ Disconnect \/ Greeted \/ Connected \/ Enabled_ \/ Up
    PROVE  Lines' /\ Fresh'
<1> USE DEF At, Same, counters, threads
<1>0. Shape
  BY DEF Flow
<1>1. CASE Connect \/ Disconnect \/ Up
  <2>1. /\ UNCHANGED <<sent, ran>> /\ (ch' = ch \/ ch' = NoChannel) /\ pc' \in {"idle", "login"}
    BY <1>1 DEF Connect, Disconnect, Up
  <2>2. DOMAIN ch' = DOMAIN NoChannel /\ (ch'.line = ch.line \/ ch'.line = <<>>) /\ Place' = pc'
    BY <2>1, LinesAre, SMTT(60) DEF NoChannel, Place, Chan
  <2> QED
    BY <2>1, <2>2, OnceMoves
<1>2. CASE LoginNext
  <2>1. /\ UNCHANGED <<sent, ran, ch>> /\ pc' \in {"idle", "login", "greeted", "ios.again"}
    BY <1>0, <1>2, LoginCases, AdvancesLogin, FailsLogin, ZenonT(60) DEF Advances, Fails
  <2>2. DOMAIN ch' = DOMAIN NoChannel /\ Place' = pc'
    BY <2>1 DEF Lines, Place, Chan
  <2> QED
    BY <2>1, <2>2, OnceMoves
<1>3. CASE Greeted
  <2>1. /\ pc' \in {"idle", "learn"} /\ Place' \in {"idle", "ios.again", "up"}
    BY <1>0, <1>3 DEF Greeted, Shape, NoCall, Place, Chan
  <2> QED
    BY <1>3, <2>1, GreetedLines, FirstIsFresh
<1>4. CASE Connected \/ Enabled_
  <2>1. UNCHANGED <<sent, ran>>
    BY <1>4 DEF Connected, Enabled_
  <2>2. /\ DOMAIN ch' = DOMAIN NoChannel
        /\ ch'.line = ch.line \/ ch'.line = <<>> \/ \E w : ch'.line = Append(ch.line, Line(0, w))
    BY <1>4, WritesLine, LinesAre, SMTT(60) DEF Connected, NotConnected, Enabled_, NoChannel
  <2>3. Place' \in {"idle", "enabled", "up.again"}
    BY <1>0, <1>4, LearnsCall DEF Connected, NotConnected, Enabled_, Place, Chan
  <2> QED
    BY <2>1, <2>2, <2>3, OnceMoves
<1> QED
  BY <1>1, <1>2, <1>3, <1>4

LEMMA StepsApart == \A i, j \in 1..4 : Steps[i] = Steps[j] => i = j
BY SMTT(60) DEF Steps

LEMMA CiscoOnce ==
    ASSUME Flow, Flow', Lines, Fresh, CiscoNext
    PROVE  Lines' /\ Fresh'
<1> USE DEF At, Same, counters, threads
<1>0. Shape /\ Current \in Nat /\ Current # 0
  BY SMTT(60) DEF Flow, Shape, Current
<1>1. ASSUME NEW cmd \in Commands, CiscoExecute(cmd) PROVE Lines' /\ Fresh'
  <2>1. UNCHANGED <<sent, ran, ch>> /\ pc' \in {"idle", "ios.start"} /\ Place' = pc'
    BY <1>1 DEF CiscoExecute, Return, Place, Chan
  <2> QED
    BY <2>1, OnceMoves, LinesAre
<1>2. CASE (CiscoStart /\ call.cmd # "port") \/ CiscoAgain
  <2>1. UNCHANGED <<sent, ran>> /\ (ch' = ch \/ ch' = NoChannel)
    BY <1>2 DEF CiscoStart, CiscoAgain
  <2>2. DOMAIN ch' = DOMAIN NoChannel /\ (ch'.line = ch.line \/ ch'.line = <<>>)
    BY <2>1, LinesAre, SMTT(60) DEF NoChannel
  <2>3. \/ pc' = "idle" /\ Place' = "idle"
        \/ Place' = "ios.ran" /\ pc' = "send" /\ call'.line = call'.cmd
    BY <1>0, <1>2, SendsCall, ZenonT(60) DEF CiscoStart, CiscoAgain, GivesUp, Return, Place, Chan
  <2> QED
    BY <2>1, <2>2, <2>3, OnceMoves
<1>3. CASE CiscoStart /\ call.cmd = "port"
  <2>1. UNCHANGED <<sent, ran, ch>>
    BY <1>3 DEF CiscoStart
  <2>2. Lines' /\ \A c : c # 0 => Words(c)' \subseteq Words(c)
    BY <2>1, LinesKept, LinesAre
  <2>3. CASE pc' = "idle"
    BY <2>2, <2>3, FirstIsFresh DEF Place, Chan
  <2>4. CASE pc' # "idle"
    <3>1. /\ pc' = "send" /\ call'.then = "ios.step" /\ call'.step = 1 /\ call'.line = "configure"
          /\ call'.id = call.id /\ UNCHANGED result
      BY <1>0, <1>3, <2>4 DEF CiscoStart, Return, Shape, NoCall
    <3>2. call.id = Current /\ Current \notin sent
      BY <1>3, AtPlace, ServingAlone DEF CiscoStart, Chan, Before_, Sending, Flow, Unwritten
    <3>3. Current' = Current /\ Place' = "ios.step"
      BY <3>1 DEF Current, Place, Chan
    <3>4. (Words(Current))' = {} /\ (Words(call.id))' = {}
      BY <1>0, <2>1, <2>2, <3>1, <3>2, <3>3, Unsaid
    <3> QED
      BY <2>2, <3>1, <3>3, <3>4, SMTT(60) DEF Fresh, Steps
  <2> QED
    BY <2>3, <2>4
<1>4. CASE CiscoReconnect
  <2>1. UNCHANGED <<sent, ran>> /\ ch' = NoChannel /\ pc' = "login" /\ Place' = "login"
    BY <1>4 DEF CiscoReconnect, Place, Chan
  <2> QED
    BY <2>1, OnceMoves DEF NoChannel
<1>5. CASE CiscoConfirm
  <2>1. UNCHANGED <<sent, ran, ch, result>> /\ Place = "ios.ran" /\ call.cmd = "reload" /\ call.id = Current
    BY <1>5, AtPlace, ServingAlone DEF CiscoConfirm, Chan, Black, Sending
  <2>2. Lines' /\ \A c : c # 0 => Words(c)' \subseteq Words(c)
    BY <2>1, LinesKept, LinesAre
  <2>3. Place' = "ios.rebooted" /\ call'.line = "y" /\ call'.id = call.id /\ Current' = Current /\ pc' = "send"
    BY <1>0, <1>5, <2>1, SendsCall DEF CiscoConfirm, Place, Chan, Current
  <2>4. (Words(Current))' \subseteq {"reload"} /\ (Words(call.id))' \subseteq {"reload"}
    BY <1>0, <2>1, <2>2, <2>3 DEF Fresh
  <2> QED
    BY <2>2, <2>3, <2>4 DEF Fresh
<1>6. CASE CiscoModeChanged \/ CiscoRebooted \/ CiscoRan \/ CiscoMoved
  <2>1. UNCHANGED <<sent, ran, ch>>
    BY <1>6 DEF CiscoModeChanged, CiscoRebooted, CiscoRan, CiscoMoved
  <2>2. Place' \in {"idle", "ios.moved"}
    <3>1. CASE CiscoModeChanged
      BY <1>0, <3>1, LearnsCall DEF CiscoModeChanged, Place, Chan
    <3>2. CASE CiscoRebooted \/ CiscoRan \/ CiscoMoved
      <4>1. CiscoRebooted \/ \E r, c : CiscoOutcome(r, c)
        BY <3>2 DEF CiscoRan, CiscoMoved
      <4> QED
        BY <4>1, ZenonT(60) DEF CiscoRebooted, CiscoOutcome, GivesUp, Return, Place, Chan
    <3> QED
      BY <1>6, <3>1, <3>2
  <2> QED
    BY <2>1, <2>2, OnceMoves, LinesAre
<1>7. CASE CiscoStepMoved
  <2>1. /\ UNCHANGED <<sent, ran, ch, result>> /\ Place = "ios.step" /\ Place' = "ios.settled"
        /\ call'.step = call.step /\ pc' # "send" /\ Current' = Current
    BY <1>0, <1>7, AtPlace, LearnsCall DEF CiscoStepMoved, Place, Chan, Current
  <2>2. Lines' /\ \A c : c # 0 => Words(c)' \subseteq Words(c)
    BY <2>1, LinesKept, LinesAre
  <2>3. (Words(Current))' \subseteq Words(Current)
    BY <1>0, <2>1, <2>2
  <2> QED
    BY <2>1, <2>2, <2>3 DEF Fresh
<1>8. CASE CiscoStep
  <2>0. UNCHANGED <<sent, ran, ch>> /\ Place \in {"ios.step", "ios.settled"} /\ pc # "send"
    BY <1>0, <1>8, CiscoStepCases, AtPlace DEF Chan
  <2>1. Lines' /\ \A c : c # 0 => Words(c)' \subseteq Words(c)
    BY <2>0, LinesKept, LinesAre, ZenonT(60)
  <2>2. call.step \in 1..4 /\ Words(Current) \subseteq {Steps[j] : j \in 1..call.step} /\ call.id = Current
    BY <2>0, ServingAlone DEF Fresh, Sending
  <2>3. CASE pc' = "idle"
    BY <2>1, <2>3, FirstIsFresh DEF Place, Chan
  <2>4. CASE /\ pc' = "send" /\ UNCHANGED result /\ call.step # 4
             /\ call'.id = call.id /\ call'.then = "ios.step"
             /\ call'.step \in {4, call.step + 1} /\ call'.line = Steps[call'.step]
    <3>1. Place' = "ios.step" /\ Current' = Current /\ call'.step \in 1..4 /\ call.step <= call'.step - 1
      BY <2>2, <2>4, SMTT(60) DEF Place, Chan, Current
    <3>2. (Words(Current))' \subseteq {Steps[j] : j \in 1..(call'.step - 1)}
      <4>1. 1..call.step \subseteq 1..(call'.step - 1)
        BY <2>2, <3>1, SMTT(60)
      <4> QED
        BY <1>0, <2>1, <2>2, <3>1, <4>1
    <3>3. Steps[call'.step] \notin {Steps[j] : j \in 1..(call'.step - 1)}
      BY <3>1, StepsApart, SMTT(60)
    <3>4. 1..(call'.step - 1) \subseteq 1..call'.step
      BY <3>1, SMTT(60)
    <3>5. (Words(call.id))' = (Words(Current))'
      BY <2>2, <2>4, <3>1
    <3> QED
      BY <2>1, <2>4, <3>1, <3>2, <3>3, <3>4, <3>5, SMTT(60) DEF Fresh
  <2> QED
    BY <1>0, <1>8, <2>3, <2>4, CiscoStepCases
<1> QED
  BY <1>1, <1>2, <1>3, <1>4, <1>5, <1>6, <1>7, <1>8 DEF CiscoNext

LEMMA AsaOnce ==
    ASSUME Flow, Flow', Lines, Fresh, AsaNext
    PROVE  Lines' /\ Fresh'
<1> USE DEF At, Same, counters, threads
<1>0. Shape
  BY DEF Flow
<1>1. UNCHANGED <<sent, ran>>
  BY DEF AsaNext, AsaExecute, AsaStart, AsaVerified, AsaRan
<1>2. /\ DOMAIN ch' = DOMAIN NoChannel
      /\ ch'.line = ch.line \/ \E w : ch'.line = Append(ch.line, Line(0, w))
  <2>1. ch' = ch \/ ch' = Writes(ch, 0, "enable")
    BY DEF AsaNext, AsaExecute, AsaStart, AsaVerified, AsaRan
  <2>2. DOMAIN ch = DOMAIN NoChannel
    BY DEF Lines
  <2> QED
    BY <2>1, <2>2, WritesLine
<1>3. Place' \in {"idle", "asa.start", "asa.verified", "asa.enabled", "asa.ran"}
  BY <1>0, SendsCall, LearnsCall DEF AsaNext, AsaExecute, AsaStart, AsaVerified, AsaRan, GivesUp, Return, Place, Chan
<1> QED
  BY <1>1, <1>2, <1>3, OnceMoves

LEMMA JunosOnce ==
    ASSUME Flow, Flow', Lines, Fresh, JunosNext
    PROVE  Lines' /\ Fresh'
<1> USE DEF At, Same, counters, threads
<1>0. Shape
  BY DEF Flow
<1>1. UNCHANGED <<sent, ran>>
  BY ZenonT(60) DEF JunosNext, JunosExecute, JunosStart, JunosRefuse, JunosRefused, JunosMoved, JunosRan
<1>2. \/ ch' \in {ch, RollsBack(ch)}
      \/ \E n \in Reach : ch' = RollsBack(Drained(n))
  BY DEF JunosNext, JunosExecute, JunosStart, JunosRefuse, JunosRefused, JunosMoved, JunosRan, JunosReply
<1>3. /\ DOMAIN ch' = DOMAIN NoChannel
      /\ ch'.line = ch.line \/ \E w : ch'.line = Append(ch.line, Line(0, w))
  <2>1. \E c : DOMAIN c = DOMAIN NoChannel /\ c.line = ch.line /\ (ch' = c \/ ch' = Writes(c, 0, "rollback"))
    BY <1>2, DrainedLine DEF RollsBack, Lines
  <2>2. PICK c : DOMAIN c = DOMAIN NoChannel /\ c.line = ch.line /\ (ch' = c \/ ch' = Writes(c, 0, "rollback"))
    BY <2>1
  <2>3. /\ DOMAIN Writes(c, 0, "rollback") = DOMAIN NoChannel
        /\ \/ Writes(c, 0, "rollback").line = c.line
           \/ Writes(c, 0, "rollback").line = Append(c.line, Line(0, "rollback"))
    BY <2>2, WritesLine
  <2> QED
    BY <2>2, <2>3
<1>4. \/ pc' \in {"idle", "junos.start", "junos.refuse"}
      \/ \E line : Sends(line, "junos.ran")
      \/ Learns("junos.refused") \/ Learns("junos.moved") \/ Learns("junos.settled")
  BY DEF JunosNext, JunosExecute, JunosStart, JunosRefuse, JunosRefused, JunosMoved, JunosRan, JunosReply,
     GivesUp, Return
<1>5. Place' \in {"idle", "junos.start", "junos.refuse", "junos.ran", "junos.refused", "junos.moved", "junos.settled"}
  BY <1>0, <1>4, SendsCall, LearnsCall DEF Place, Chan
<1> QED
  BY <1>1, <1>3, <1>5, OnceMoves

LEMMA PanosOnce ==
    ASSUME Flow, Flow', Lines, Fresh, PanosNext
    PROVE  Lines' /\ Fresh'
<1> USE DEF At, Same, counters, threads
<1>0. Shape /\ Current # 0
  BY SMTT(60) DEF Flow, Shape, Current
<1>1. UNCHANGED <<sent, ran, ch>>
  BY DEF PanosNext, PanosExecute, PanosLocked, PanosReady, PanosRan, Keepalive, Kept
<1>2. Place' \in {"idle"} \cup Warming \cup {"panos.ran"}
  <2>1. CASE \E cmd \in Commands : PanosExecute(cmd)
    <3>1. UNCHANGED <<pc, call>> /\ (pc = "idle" \/ keepalive = "locked")
      BY <2>1 DEF PanosExecute, Locked
    <3>2. Place' = Place
      BY <3>1 DEF Place
    <3> QED
      BY <3>1, <3>2 DEF Flow, Numbers, Place, Chan
  <2>2. CASE PanosLocked \/ PanosReady
    BY <1>0, <2>2, LearnsCall, ZenonT(60) DEF PanosLocked, PanosReady, GivesUp, Return, EnsureReady, BecomesReady, NeverReady,
       NoCall, Shape, Place, Chan, Warming
  <2>3. CASE PanosRan \/ Keepalive \/ Kept
    BY <1>0, <2>3 DEF PanosRan, Keepalive, Kept, Locked, GivesUp, Return, EnsureReady, NoCall, Place, Chan, Warming
  <2> QED
    BY <2>1, <2>2, <2>3 DEF PanosNext
<1> QED
  BY <1>1, <1>2, OnceMoves, LinesAre DEF Warming

LEMMA ExecOnce ==
    ASSUME Flow, Flow', Lines, Fresh, LinuxNext \/ FgNext \/ RestNext
    PROVE  Lines' /\ Fresh'
<1> USE DEF At, Idle, counters, threads
<1>0. Shape /\ Current # 0
  BY SMTT(60) DEF Flow, Shape, Current
<1>1. /\ Place' \in {"idle", "linux.open", "linux.exec", "linux.read", "fg.shell", "fg.read", "pbs", "zammad",
                     "librenms", "wazuh", "wazuh.request", "gns3", "mock"}
  <2>1. pc' \in {"idle", "linux.open", "linux.exec", "linux.read", "fg.shell", "fg.read", "pbs", "zammad",
                 "librenms", "wazuh", "wazuh.request", "gns3", "mock"}
    BY <1>0 DEF LinuxNext, LinuxExecute, LinuxOpen, LinuxExec, LinuxRead, FgNext, FgExecute, FgShell, FgRead,
       RestNext, PbsExecute, ZammadExecute, LibrenmsExecute, WazuhExecute, RestBegins, Gns3Execute, MockExecute,
       PbsRequest, ZammadRequest, LibrenmsRequest, RestAnswers, WazuhToken, WazuhRequest, Gns3Request, MockReply,
       MockHealth, Goes, Return, GivesUp
  <2> QED
    BY <2>1 DEF Place, Chan
<1>2. DOMAIN ch' = DOMAIN NoChannel /\ ch'.line = ch.line
  <2>1. ch' = ch \/ \E o : ch' = [ch EXCEPT !.out = o]
    BY DEF LinuxNext, LinuxExecute, LinuxOpen, LinuxExec, LinuxRead, FgNext, FgExecute, FgShell, FgRead,
       RestNext, PbsExecute, ZammadExecute, LibrenmsExecute, WazuhExecute, RestBegins, Gns3Execute, MockExecute,
       PbsRequest, ZammadRequest, LibrenmsRequest, RestAnswers, WazuhToken, WazuhRequest, Gns3Request, MockReply,
       MockHealth
  <2> QED
    BY <2>1, LinesAre DEF NoChannel
<1>3. CASE UNCHANGED <<sent, ran>>
  BY <1>1, <1>2, <1>3, OnceMoves
<1>4. CASE Place \in Before_ /\ call'.id = call.id /\ \E may : Dispatch(may)
  <2>1. call'.id \notin sent /\ call'.id # 0
    BY <1>0, <1>4, ServingAlone DEF Flow, Unwritten, Before_, Sending
  <2>2. Lines'
    BY <1>2, <1>4, <2>1, LinesDispatched
  <2> QED
    BY <1>1, <2>2, FirstIsFresh
<1>5. CASE LinuxNext
  <2>1. UNCHANGED <<sent, ran>> \/ (pc = "linux.exec" /\ UNCHANGED call /\ Dispatch(BOOLEAN))
    BY <1>5 DEF LinuxNext, LinuxExecute, LinuxOpen, LinuxExec, LinuxRead, Unsent
  <2> QED
    BY <1>3, <1>4, <2>1 DEF Place, Chan, Before_
<1>6. CASE FgNext
  <2>1. UNCHANGED <<sent, ran>> \/ (pc = "fg.shell" /\ UNCHANGED call /\ Dispatch(BOOLEAN))
    BY <1>6 DEF FgNext, FgExecute, FgShell, FgRead, Unsent
  <2> QED
    BY <1>3, <1>4, <2>1 DEF Place, Chan, Before_
<1>7. ASSUME pc \in {"pbs", "zammad", "librenms", "wazuh.request", "gns3", "mock"},
             UNCHANGED call \/ \E b : call' = [call EXCEPT !.body = b],
             \/ \E rc \in Before \cup After : Performs(rc)
             \/ \E a : Performed(a)
             \/ Dispatch({TRUE})
      PROVE  Lines' /\ Fresh'
  <2>1. Place \in Before_ /\ call'.id = call.id
    BY <1>0, <1>7 DEF Place, Chan, Before_, Shape, NoCall
  <2>2. UNCHANGED <<sent, ran>> \/ \E may : Dispatch(may)
    BY <1>7, SMTT(60) DEF Performs, Performed, Unsent
  <2> QED
    BY <1>3, <1>4, <2>1, <2>2
<1>8. CASE \/ \E cmd \in ExecCommands :
                 \/ PbsExecute(cmd) \/ ZammadExecute(cmd) \/ LibrenmsExecute(cmd)
                 \/ WazuhExecute(cmd) \/ Gns3Execute(cmd) \/ MockExecute(cmd)
           \/ WazuhToken \/ MockHealth
  <2>1. UNCHANGED <<sent, ran>>
    BY <1>8 DEF PbsExecute, ZammadExecute, LibrenmsExecute, WazuhExecute, RestBegins, Gns3Execute, MockExecute,
       WazuhToken, MockHealth, Unsent
  <2> QED
    BY <1>3, <2>1
<1>9. CASE ZammadRequest \/ LibrenmsRequest \/ WazuhRequest
  <2>1. pc \in {"zammad", "librenms", "wazuh.request"} /\ \E nothing, down : RestAnswers(nothing, down)
    BY <1>9 DEF ZammadRequest, LibrenmsRequest, WazuhRequest
  <2>2. PICK nothing, down : RestAnswers(nothing, down)
    BY <2>1
  <2>3. /\ UNCHANGED call \/ \E b : call' = [call EXCEPT !.body = b]
        /\ (\E rc \in Before \cup After : Performs(rc)) \/ \E a : Performed(a)
    BY <2>2 DEF RestAnswers
  <2> QED
    BY <1>7, <2>1, <2>3
<1>10. CASE PbsRequest
  <2>1. /\ UNCHANGED call \/ \E b : call' = [call EXCEPT !.body = b]
        /\ (\E rc \in Before \cup After : Performs(rc)) \/ \E a : Performed(a)
    BY <1>10 DEF PbsRequest
  <2> QED
    BY <1>7, <1>10, <2>1 DEF PbsRequest
<1>11. CASE Gns3Request
  <2>1. /\ UNCHANGED call \/ \E b : call' = [call EXCEPT !.body = b]
        /\ (\E rc \in Before \cup After : Performs(rc)) \/ \E a : Performed(a)
    BY <1>11 DEF Gns3Request
  <2> QED
    BY <1>7, <1>11, <2>1 DEF Gns3Request
<1>12. CASE MockReply
  <2>1. \E b : call' = [call EXCEPT !.body = b]
    BY <1>12 DEF MockReply
  <2> QED
    BY <1>7, <1>12, <2>1 DEF MockReply
<1> QED
  BY <1>5, <1>6, <1>8, <1>9, <1>10, <1>11, <1>12 DEF RestNext

LEMMA OnceInit == DriverInit => Lines /\ Fresh
<1> SUFFICES ASSUME DriverInit PROVE Lines /\ Fresh
  OBVIOUS
<1>1. ch.line = <<>> /\ DOMAIN ch = DOMAIN NoChannel /\ DOMAIN ran = Calls /\ \A c \in Calls : ran[c] = <<>>
  BY DEF DriverInit, NoChannel
<1>2. Lines
  BY <1>1, NoneSeq DEF Lines, RanAtMostOnce
<1> QED
  BY <1>2 DEF DriverInit, Fresh, Place, Chan

LEMMA OnceStep == Flow /\ Flow' /\ Lines /\ Fresh /\ [Next]_driverVars => Lines' /\ Fresh'
<1> SUFFICES ASSUME Flow, Flow', Lines, Fresh, [Next]_driverVars PROVE Lines' /\ Fresh'
  OBVIOUS
<1>1. CASE UNCHANGED driverVars
  <2>1. UNCHANGED <<ch, ran, sent, pc, call, result>> /\ Place' = Place /\ Current' = Current /\ Current # 0
    BY <1>1, SMTT(60) DEF driverVars, Place, Current, Flow, Shape
  <2>2. Lines' /\ \A c : c # 0 => Words(c)' \subseteq Words(c)
    BY <2>1, LinesKept, LinesAre
  <2> QED
    BY <2>1, <2>2, FreshKept
<1>2. CASE ShellNext
  BY <1>2, ChannelOnce, EnvironmentOnce, ConnectOnce, CiscoOnce, AsaOnce, JunosOnce, PanosOnce DEF ShellNext
<1>3. CASE ExecNext
  BY <1>3, ConnectOnce, ExecOnce DEF ExecNext
<1> QED
  BY <1>1, <1>2, <1>3, ConnectOnce DEF Next

LEMMA OnceAlways == Spec => [](Lines /\ Fresh)
BY FlowHolds, OnceInit, OnceStep, PTL DEF Spec

(* For any number of calls, connections and log lines, slow devices included:
   no driver makes the device run the same command of one call twice.  The
   Cisco reconnect resends only a line that was never written, the interface
   transaction never goes back a line, and nothing else sends a second one. *)
THEOREM DriversRanAtMostOnce == Spec => []RanAtMostOnce
<1>1. Lines => RanAtMostOnce
  BY DEF Lines
<1> QED
  BY OnceAlways, <1>1, PTL

============================================================================
