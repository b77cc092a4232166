------------------------ MODULE DriversSessionProofs ------------------------
(***************************************************************************)
(* The session of a driver with its device, for any number of calls,       *)
(* connections, log lines and host keys: what connect() has acquired and   *)
(* shown when a stage of it fails, and what the commit check of the JunOS  *)
(* driver stands for when a commit reaches the device.                     *)
(***************************************************************************)
EXTENDS DriversProofs

USE ChannelAssumption, ConnectAssumption
USE ZenonT(20)

(***************************************************************************)
(* What connect() holds: no more than the stages done so far acquired, and *)
(* the outer connection of a Cisco reconnect.                              *)
(***************************************************************************)
Got(k, n) == {Stages[k][i].does : i \in 1..(n - 1)} \cap Resources

Holds ==
    /\ login.shown => login.trusted
    /\ pc = "idle" /\ ~login.up => login.held = {}
    /\ pc = "login" =>
          /\ login.step \in 1..Len(Stages[kind])
          /\ login.step > 1 /\ Stages[kind][login.step - 1].does = "hostkey" => login.trusted
          /\ login.held \subseteq Got(kind, login.step) \cup (IF call.again THEN {"outer"} ELSE {})
    /\ pc = "greeted" /\ ~call.again => login.held \subseteq Got(kind, Len(Stages[kind]) + 1)
    /\ Place \in {"up", "up.again"} => kind \in ShellKinds \ {"panos"} /\ login.held \subseteq Base \cup {"channel"}
    /\ pc \in Opening /\ ~call.again => ~login.up
    /\ Place \notin Opening \cup {"idle"} => login.up
    /\ keepalive \in {"warm", "sleep", "locked"} => login.up /\ kind = "panos"
    /\ Place = "panos.kept" => kind = "panos"

-----------------------------------------------------------------------------
(* connect(): a failure path frees what the stages before it acquired, and
   the host key is checked right before the password is offered. *)

Tidy(stages) ==
    \A n \in 1..Len(stages) :
        /\ \A i \in 1..(n - 1) : stages[i].does \in Resources => stages[i].does \in stages[n].frees
        /\ stages[n].does = "auth" => n > 1 /\ stages[n - 1].does = "hostkey"

LEMMA ShellTidy == Tidy(CiscoLogin) /\ Len(CiscoLogin) = 8
BY SMTT(60) DEF Tidy, CiscoLogin, Stage, Sock, Base, Resources

LEMMA ExecTidy == Tidy(LinuxLogin) /\ Tidy(FortigateLogin) /\ Len(LinuxLogin) = 6 /\ Len(FortigateLogin) = 7
<1>1. Tidy(LinuxLogin) /\ Len(LinuxLogin) = 6
  BY SMTT(60) DEF Tidy, LinuxLogin, Stage, Sock, Base, Resources
<1>2. Tidy(FortigateLogin) /\ Len(FortigateLogin) = 7
  BY SMTT(60) DEF Tidy, FortigateLogin, Stage, Sock, Base, Resources
<1> QED
  BY <1>1, <1>2

LEMMA HttpTidy == Tidy(PbsLogin) /\ Tidy(ZammadLogin) /\ Tidy(WazuhLogin) /\ Tidy(Gns3Login) /\ Tidy(MockLogin)
<1>1. Tidy(PbsLogin)
  BY SMTT(60) DEF Tidy, PbsLogin, Stage, Resources
<1>2. Tidy(ZammadLogin)
  BY SMTT(60) DEF Tidy, ZammadLogin, Stage, Resources
<1>3. Tidy(WazuhLogin)
  BY SMTT(60) DEF Tidy, WazuhLogin, Stage, Resources
<1>4. Tidy(Gns3Login) /\ Tidy(MockLogin)
  BY SMTT(60) DEF Tidy, Gns3Login, MockLogin, Stage, Resources
<1> QED
  BY <1>1, <1>2, <1>3, <1>4

LEMMA HttpLength ==
    \A stages \in {PbsLogin, ZammadLogin, WazuhLogin, Gns3Login, MockLogin} : Len(stages) \in Nat \ {0}
BY SMTT(60) DEF PbsLogin, ZammadLogin, WazuhLogin, Gns3Login, MockLogin

LEMMA StagesTidy ==
    ASSUME NEW k \in Kinds
    PROVE  /\ Tidy(Stages[k]) /\ Len(Stages[k]) \in Nat \ {0}
           /\ k \in ShellKinds => Stages[k] = CiscoLogin
<1>1. CASE k \in ShellKinds
  <2>1. Stages[k] = CiscoLogin
    BY <1>1, SMTT(60) DEF Stages, ShellKinds, AsaLogin, JunosLogin, PanosLogin
  <2> QED
    BY <2>1, ShellTidy, SMTT(60)
<1>2. CASE k \in {"linux", "fortigate"}
  <2>1. Stages[k] \in {LinuxLogin, FortigateLogin} /\ k \notin ShellKinds
    BY <1>2, SMTT(60) DEF Stages, ShellKinds
  <2> QED
    BY <2>1, ExecTidy, SMTT(60)
<1>3. CASE k \in {"pbs", "zammad", "wazuh", "librenms", "gns3", "mock"}
  <2>1. Stages[k] \in {PbsLogin, ZammadLogin, WazuhLogin, Gns3Login, MockLogin} /\ k \notin ShellKinds
    BY <1>3, SMTT(60) DEF Stages, ShellKinds, LibrenmsLogin
  <2> QED
    BY <2>1, HttpTidy, HttpLength
<1> QED
  BY <1>1, <1>2, <1>3 DEF Kinds, Stages, ShellKinds

LEMMA GotFreed ==
    ASSUME NEW k \in Kinds, NEW n \in 1..Len(Stages[k])
    PROVE  /\ Got(k, n) \subseteq Stages[k][n].frees
           /\ Got(k, n + 1) = Got(k, n) \cup ({Stages[k][n].does} \cap Resources)
<1>1. Len(Stages[k]) \in Nat /\ n \in Nat /\ n > 0
  BY StagesTidy, SMTT(60)
<1>2. Got(k, n) \subseteq Stages[k][n].frees
  BY <1>1, StagesTidy DEF Tidy, Got
<1>3. 1..(n + 1 - 1) = 1..(n - 1) \cup {n}
  BY <1>1, SMTT(60)
<1> QED
  BY <1>2, <1>3, SMTT(60) DEF Got

LEMMA GotAll ==
    ASSUME NEW k \in ShellKinds, k \in Kinds
    PROVE  Got(k, Len(Stages[k]) + 1) \subseteq Base \cup {"channel"}
<1>1. Stages[k] = CiscoLogin /\ Len(Stages[k]) = 8
  BY ShellTidy, StagesTidy
<1>2. \A i \in 1..8 : CiscoLogin[i].does \in Resources => CiscoLogin[i].does \in Base \cup {"channel"}
  BY SMTT(60) DEF CiscoLogin, Stage, Sock, Base, Resources
<1> QED
  BY <1>1, <1>2, SMTT(60) DEF Got

(* A connection that is up holds what it likes. *)
LEMMA HoldsUp ==
    ASSUME login'.up, login'.shown => login'.trusted, pc' \notin Opening, Place' \notin {"up", "up.again"},
           Place' = "panos.kept" \/ keepalive' \in {"warm", "sleep", "locked"} => kind' = "panos"
    PROVE  Holds'
BY DEF Holds, Opening

(* A step that leaves the connection, and its place, as they are. *)
LEMMA HoldsSame ==
    ASSUME Holds, UNCHANGED <<kind, login>>, Place' = Place,
           \/ pc' = pc /\ call'.again = call.again
           \/ pc \in Chan /\ pc' \notin Opening \cup {"idle"},
           keepalive' = keepalive \/ (login.up /\ kind = "panos")
    PROVE  Holds'
<1>1. CASE pc' = pc /\ call'.again = call.again
  BY <1>1 DEF Holds, Opening
<1>2. CASE pc \in Chan /\ pc' \notin Opening \cup {"idle"}
  BY <1>2 DEF Holds, Opening
<1> QED
  BY <1>1, <1>2

LEMMA ChannelHolds ==
    ASSUME Flow, Holds, ChannelStep, UNCHANGED threads
    PROVE  Holds'
<1>1. Stays /\ Shape /\ UNCHANGED <<kind, login, keepalive>>
  BY ChannelStays, ChannelWrites DEF Flow, threads
<1>2. Place' = Place /\ pc \in Chan
  BY <1>1 DEF Stays, Place, Shape, Chan, SendThens, LearnThens
<1>3. pc' \notin Opening \cup {"idle"}
  BY <1>1 DEF Stays, Shape, Chan, SendThens, LearnThens, Opening
<1> QED
  BY <1>1, <1>2, <1>3, HoldsSame

LEMMA EnvironmentHolds ==
    ASSUME Holds, Environment, UNCHANGED threads
    PROVE  Holds'
<1>1. UNCHANGED <<kind, pc, call, login, keepalive>>
  BY DEF Environment, DeviceStep, Log, Stall, PeerCloses, threads
<1>2. Place' = Place
  BY <1>1 DEF Place
<1> QED
  BY <1>1, <1>2, HoldsSame

LEMMA LoginHolds ==
    ASSUME Flow, Holds, LoginNext, UNCHANGED <<keepalive, waiting>>
    PROVE  Holds'
<1>0. Shape /\ kind \in Kinds
  BY DEF Flow, Shape
<1>1. pc = "login" /\ UNCHANGED <<kind, call>>
  BY <1>0, LoginCases
<1>2. PICK l : /\ DOMAIN l = DOMAIN NoLogin
               /\ l.step = login.step /\ l.up = login.up /\ l.held = login.held
               /\ Advances(l) \/ Fails(l)
               /\ l.trusted = login.trusted \/ (Doing = "hostkey" /\ l.trusted)
               /\ Doing = "hostkey" => l.trusted \/ Fails(l)
               /\ l.shown = login.shown \/ Doing = "auth"
  BY <1>0, LoginCases
<1> DEFINE n == login.step
<1> DEFINE outer == IF call.again THEN {"outer"} ELSE {}
<1>3. /\ n \in 1..Len(Stages[kind]) /\ login.held \subseteq Got(kind, n) \cup outer
      /\ n > 1 /\ Stages[kind][n - 1].does = "hostkey" => login.trusted
      /\ login.shown => login.trusted
      /\ ~call.again => ~login.up
      /\ keepalive \in {"warm", "sleep", "locked"} => login.up /\ kind = "panos"
  BY <1>1 DEF Holds, Opening
<1>4. Doing = "auth" => login.trusted
  BY <1>0, <1>3, StagesTidy DEF Doing, Tidy
<1>5. Len(Stages[kind]) \in Nat
  BY <1>0, StagesTidy
<1>6. call.again => login.up
  BY <1>1, AtPlace DEF Flow, Numbers, Chan, Opening
<1>7. CASE Advances(l)
  <2>1. /\ pc' = IF AtLast THEN "greeted" ELSE "login"
        /\ login'.step = n + 1 /\ login'.held = login.held \cup ({Doing} \cap Resources)
        /\ login'.up = login.up /\ login'.trusted = l.trusted /\ login'.shown = l.shown
    BY <1>2, <1>7, AdvancesLogin
  <2>2. login'.held \subseteq Got(kind, n + 1) \cup outer
    BY <1>0, <1>3, <2>1, GotFreed, SMTT(60) DEF Doing
  <2>3. login'.shown => login'.trusted
    BY <1>2, <1>3, <1>4, <2>1
  <2>4. CASE AtLast
    <3>1. pc' = "greeted" /\ n = Len(Stages[kind]) /\ Place' = "greeted"
      BY <2>1, <2>4 DEF AtLast, Place, Chan
    <3> QED
      BY <1>1, <1>3, <2>1, <2>2, <2>3, <3>1 DEF Holds, Opening
  <2>5. CASE ~AtLast
    <3>1. pc' = "login" /\ Place' = "login" /\ login'.step \in 1..Len(Stages[kind])
      BY <1>3, <1>5, <2>1, <2>5, SMTT(60) DEF AtLast, Place, Chan
    <3>2. Stages[kind][login'.step - 1].does = "hostkey" => login'.trusted
      <4>1. login'.step - 1 = n
        BY <1>3, <1>5, <2>1, SMTT(60)
      <4>2. Doing = "hostkey" => l.trusted
        BY <1>2, <1>7, <2>1, <2>5 DEF Fails, At, AtLast
      <4> QED
        BY <1>2, <2>1, <4>1, <4>2 DEF Doing
    <3> QED
      BY <1>1, <1>3, <2>1, <2>2, <2>3, <3>1, <3>2 DEF Holds, Opening
  <2> QED
    BY <2>4, <2>5
<1>8. CASE Fails(l)
  <2>1. /\ pc' = IF call.again THEN "ios.again" ELSE "idle"
        /\ login'.held = login.held \ Stages[kind][n].frees
        /\ login'.up = login.up /\ login'.trusted = l.trusted /\ login'.shown = l.shown
    BY <1>2, <1>8, FailsLogin
  <2>2. login'.shown => login'.trusted
    BY <1>2, <1>3, <1>4, <2>1
  <2>3. CASE call.again
    <3>1. pc' = "ios.again" /\ Place' = "ios.again" /\ login'.up
      BY <1>6, <2>1, <2>3 DEF Place, Chan
    <3> QED
      BY <1>1, <1>3, <2>2, <3>1, HoldsUp DEF Opening
  <2>4. CASE ~call.again
    <3>1. pc' = "idle" /\ Place' = "idle" /\ ~login'.up
      BY <1>3, <2>1, <2>4 DEF Place, Chan
    <3>2. login'.held = {}
      BY <1>0, <1>3, <2>1, <2>4, GotFreed
    <3> QED
      BY <1>3, <2>1, <2>2, <3>1, <3>2 DEF Holds, Opening
  <2> QED
    BY <2>3, <2>4
<1> QED
  BY <1>2, <1>7, <1>8

LEMMA ConnectHolds ==
    ASSUME Flow, Holds,
           \/ Connect /\ keepalive \in {"off", "gone"} /\ UNCHANGED <<keepalive, waiting>>
           \/ Disconnect \/ Greeted \/ Connected \/ Enabled_ \/ Up
    PROVE  Holds'
<1> USE DEF At, Same, counters, threads
<1>0. Shape /\ kind \in Kinds
  BY DEF Flow, Shape
<1>1. CASE Connect /\ keepalive \in {"off", "gone"} /\ UNCHANGED <<keepalive, waiting>>
  <2>1. /\ login'.held = {} /\ login'.step = 1 /\ ~login'.shown /\ ~login'.up
        /\ pc' = "login" /\ Place' = "login" /\ kind' = kind /\ ~call'.again
    BY <1>1 DEF Connect, Holds, NoLogin, NoCall, Place, Chan
  <2>2. login'.step \in 1..Len(Stages[kind])
    BY <1>0, <2>1, StagesTidy, SMTT(60)
  <2> QED
    BY <1>1, <2>1, <2>2, SMTT(60) DEF Holds, Opening
<1>2. CASE Disconnect
  <2>1. pc' = "idle" /\ Place' = "idle" /\ login' = NoLogin /\ keepalive' \in {"off", "gone"}
    BY <1>2 DEF Disconnect, Place, Chan
  <2> QED
    BY <2>1 DEF Holds, NoLogin, Opening
<1>3. CASE Greeted
  <2>1. /\ login'.up /\ ~login'.shown /\ login'.held = login.held /\ kind' = kind /\ kind \in ShellKinds
        /\ keepalive' \in {"warm", "sleep", "locked"} => kind = "panos"
    BY <1>3 DEF Greeted, NoLogin, Holds
  <2>2. CASE kind = "panos"
    <3>1. pc' = "idle" /\ Place' = "idle"
      BY <1>3, <2>2 DEF Greeted, Place, Chan
    <3> QED
      BY <2>1, <3>1, HoldsUp DEF Opening
  <2>3. CASE kind # "panos"
    <3>1. pc' = "learn" /\ Place' = IF call.again THEN "ios.again" ELSE "up"
      BY <1>0, <1>3, <2>3 DEF Greeted, Place, Chan, Shape, NoCall
    <3>2. CASE call.again
      BY <2>1, <3>1, <3>2, HoldsUp DEF Opening
    <3>3. CASE ~call.again
      <4>1. login'.held \subseteq Base \cup {"channel"}
        BY <1>0, <1>3, <2>1, <3>3, GotAll DEF Greeted, Holds
      <4> QED
        BY <2>1, <2>3, <3>1, <3>3, <4>1 DEF Holds, Opening
    <3> QED
      BY <3>2, <3>3
  <2> QED
    BY <2>2, <2>3
<1>4. CASE Connected
  <2>0. /\ Place = pc /\ login.up /\ login.held \subseteq Base \cup {"channel"} 
        /\ kind \in ShellKinds \ {"panos"} /\ keepalive \notin {"warm", "sleep", "locked"}
        /\ login.shown => login.trusted
        /\ kind' = kind /\ keepalive' = keepalive
    BY <1>4 DEF Connected, Holds, Place, Chan, Opening
  <2>1. CASE NotConnected
    <3>1. /\ pc' = "idle" /\ Place' = "idle" /\ login'.held = {} /\ ~login'.up
          /\ login'.shown => login'.trusted
      BY <1>0, <2>0, <2>1 DEF NotConnected, Place, Chan, Shape, NoLogin
    <3> QED
      BY <2>0, <3>1 DEF Holds, Opening
  <2>2. CASE UNCHANGED login /\ pc' = "idle"
    <3>1. Place' = "idle"
      BY <2>2 DEF Place, Chan
    <3> QED
      BY <2>0, <2>2, <3>1, HoldsUp DEF Opening
  <2>3. CASE UNCHANGED login /\ (Learns("enabled") \/ Learns("up.again"))
    <3>1. pc' = "learn" /\ Place' \in {"enabled", "up.again"}
      BY <1>0, <2>3, LearnsCall DEF Place, Chan
    <3> QED
      BY <2>0, <2>3, <3>1 DEF Holds, Opening
  <2> QED
    BY <1>4, <2>1, <2>2, <2>3 DEF Connected
<1>5. CASE Enabled_
  <2>1. /\ pc = "enabled" /\ Place = pc /\ pc' = "idle" /\ Place' = "idle"
        /\ UNCHANGED <<login, kind, keepalive>>
    BY <1>5 DEF Enabled_, Place, Chan
  <2> QED
    BY <2>1, HoldsUp DEF Holds, Opening
<1>6. CASE Up
  <2>1. /\ pc' = "idle" /\ Place' = "idle" /\ login'.up /\ ~login'.shown
        /\ keepalive' \in {"warm", "sleep", "locked"} => kind' = "panos"
    BY <1>6 DEF Up, NoLogin, Place, Chan, Holds
  <2> QED
    BY <2>1, HoldsUp DEF Opening
<1> QED
  BY <1>1, <1>2, <1>3, <1>4, <1>5, <1>6

(* A call is served: the connection stays up. *)
LEMMA HoldsServing ==
    ASSUME Holds, UNCHANGED <<kind, login, keepalive>>, login.up \/ Place \notin Opening \cup {"idle"},
           Place' \notin Opening \cup {"up", "up.again", "panos.kept"}, pc' \notin Opening
    PROVE  Holds'
<1>1. login.up /\ (login.shown => login.trusted)
  BY DEF Holds
<1>2. keepalive \in {"warm", "sleep", "locked"} => kind = "panos"
  BY DEF Holds
<1> QED
  BY <1>1, <1>2, HoldsUp

LEMMA CiscoHolds ==
    ASSUME Flow, Holds, CiscoNext
    PROVE  Holds'
<1> USE DEF At, Same, counters, threads
<1>0. Shape /\ kind \in Kinds
  BY DEF Flow, Shape
<1>1. ASSUME NEW cmd \in Commands, CiscoExecute(cmd) PROVE Holds'
  <2>1. /\ UNCHANGED <<kind, login, keepalive>> /\ login.up
        /\ pc' \in {"idle", "ios.start"} /\ Place' = pc'
    BY <1>1 DEF CiscoExecute, Begins, Return, Place, Chan
  <2> QED
    BY <2>1, HoldsServing DEF Opening
<1>2. CASE CiscoStart
  <2>1. UNCHANGED <<kind, login, keepalive>> /\ Place = "ios.start"
    BY <1>2, AtPlace DEF CiscoStart, Chan
  <2>2. pc' \in {"idle", "send"} /\ Place' \in {"idle", "ios.step", "ios.ran"}
    BY <1>0, <1>2, SendsCall DEF CiscoStart, Return, Place, Chan, Shape, NoCall
  <2> QED
    BY <2>1, <2>2, HoldsServing DEF Opening
<1>3. CASE CiscoReconnect
  <2>1. /\ login'.step = 1 /\ login'.up /\ login'.held = {"outer"} /\ ~login'.shown
        /\ call'.again /\ pc' = "login" /\ Place' = "login" /\ UNCHANGED <<kind, keepalive>>
    BY <1>0, <1>3 DEF CiscoReconnect, NoLogin, Shape, NoCall, Place, Chan
  <2>2. login'.step \in 1..Len(Stages[kind])
    BY <1>0, <2>1, StagesTidy, SMTT(60)
  <2>3. keepalive \in {"warm", "sleep", "locked"} => kind = "panos"
    BY DEF Holds
  <2> QED
    BY <2>1, <2>2, <2>3, SMTT(60) DEF Holds, Opening
<1>4. CASE CiscoAgain
  <2>1. Place = "ios.again" /\ UNCHANGED <<kind, keepalive>>
    BY <1>4, AtPlace DEF CiscoAgain, Chan
  <2>2. login.up /\ (login.shown => login.trusted) /\ (keepalive \in {"warm", "sleep", "locked"} => kind = "panos")
    BY <2>1 DEF Holds, Opening
  <2>3. login'.up = login.up /\ login'.shown = login.shown /\ login'.trusted = login.trusted
    BY <1>0, <1>4 DEF CiscoAgain, Shape, NoLogin
  <2>4. pc' \in {"idle", "send"} /\ Place' \in {"idle", "ios.ran"}
    BY <1>0, <1>4, SendsCall DEF CiscoAgain, GivesUp, Return, Place, Chan
  <2> QED
    BY <2>1, <2>2, <2>3, <2>4, HoldsUp DEF Opening
<1>5. CASE CiscoConfirm \/ CiscoModeChanged \/ CiscoStepMoved
  <2>1. UNCHANGED <<kind, login, keepalive>> /\ Place \in {"ios.ran", "ios.step"}
    BY <1>5, AtPlace DEF CiscoConfirm, CiscoModeChanged, CiscoStepMoved, Chan
  <2>2. pc' \in {"send", "learn"} /\ Place' \in {"ios.rebooted", "ios.moved", "ios.settled"}
    BY <1>0, <1>5, SendsCall, LearnsCall DEF CiscoConfirm, CiscoModeChanged, CiscoStepMoved, Place, Chan
  <2> QED
    BY <2>1, <2>2, HoldsServing DEF Opening
<1>6. CASE CiscoRebooted \/ CiscoRan \/ CiscoMoved
  <2>1. UNCHANGED <<kind, login, keepalive>> /\ Place \in {"ios.ran", "ios.rebooted", "ios.moved"}
    BY <1>6, AtPlace DEF CiscoRebooted, CiscoRan, CiscoMoved, Chan
  <2>2. pc' = "idle" /\ Place' = "idle"
    <3>1. CiscoRebooted \/ \E r, c : CiscoOutcome(r, c)
      BY <1>6 DEF CiscoRan, CiscoMoved
    <3>2. pc' = "idle"
      BY <3>1, ZenonT(60) DEF CiscoRebooted, CiscoOutcome, GivesUp, Return
    <3> QED
      BY <3>2 DEF Place, Chan
  <2> QED
    BY <2>1, <2>2, HoldsServing DEF Opening
<1>7. CASE CiscoStep
  <2>1. UNCHANGED <<kind, login, keepalive>> /\ Place \in {"ios.step", "ios.settled"}
    BY <1>0, <1>7, AtPlace, CiscoStepCases DEF Chan
  <2>3. pc' \in {"idle", "send"} /\ Place' \in {"idle", "ios.step"}
    BY <1>0, <1>7, CiscoStepCases DEF Place, Chan
  <2> QED
    BY <2>1, <2>3, HoldsServing DEF Opening
<1> QED
  BY <1>1, <1>2, <1>3, <1>4, <1>5, <1>6, <1>7 DEF CiscoNext

LEMMA AsaHolds ==
    ASSUME Flow, Holds, AsaNext
    PROVE  Holds'
<1> USE DEF At, Same, counters, threads
<1>0. Shape
  BY DEF Flow
<1>1. ASSUME NEW cmd \in Commands, AsaExecute(cmd) PROVE Holds'
  <2>1. /\ UNCHANGED <<kind, login, keepalive>> /\ login.up
        /\ pc' \in {"idle", "asa.start"} /\ Place' = pc'
    BY <1>1 DEF AsaExecute, Begins, Return, Place, Chan
  <2> QED
    BY <2>1, HoldsServing DEF Opening
<1>2. CASE AsaStart \/ AsaVerified \/ AsaRan
  <2>1. UNCHANGED <<kind, login, keepalive>> /\ Place \in {"asa.start", "asa.verified", "asa.enabled", "asa.ran"}
    BY <1>2, AtPlace DEF AsaStart, AsaVerified, AsaRan, Chan
  <2>2. pc' \in {"idle", "send", "learn"} /\ Place' \in {"idle", "asa.verified", "asa.enabled", "asa.ran"}
    BY <1>0, <1>2, SendsCall, LearnsCall DEF AsaStart, AsaVerified, AsaRan, GivesUp, Return, Place, Chan
  <2> QED
    BY <2>1, <2>2, HoldsServing DEF Opening
<1> QED
  BY <1>1, <1>2 DEF AsaNext

LEMMA JunosHolds ==
    ASSUME Flow, Holds, JunosNext
    PROVE  Holds'
<1> USE DEF At, Same, counters, threads
<1>0. Shape
  BY DEF Flow
<1>1. ASSUME NEW cmd \in Commands, JunosExecute(cmd) PROVE Holds'
  <2>1. /\ UNCHANGED <<kind, login, keepalive>> /\ login.up
        /\ pc' \in {"idle", "junos.start", "junos.refuse"} /\ Place' = pc'
    BY <1>1 DEF JunosExecute, Begins, Return, Place, Chan
  <2> QED
    BY <2>1, HoldsServing DEF Opening
<1>2. CASE JunosStart \/ JunosRefuse \/ JunosRefused \/ JunosMoved \/ JunosRan
  <2>1. /\ UNCHANGED <<kind, login, keepalive>>
        /\ Place \in {"junos.start", "junos.refuse", "junos.refused", "junos.ran", "junos.moved", "junos.settled"}
    BY <1>2, AtPlace, ZenonT(60) DEF JunosStart, JunosRefuse, JunosRefused, JunosMoved, JunosRan, Chan
  <2>2. \/ pc' = "idle"
        \/ \E line : Sends(line, "junos.ran")
        \/ Learns("junos.refused") \/ Learns("junos.moved") \/ Learns("junos.settled")
    BY <1>2 DEF JunosStart, JunosRefuse, JunosRefused, JunosMoved, JunosRan, JunosReply, GivesUp, Return
  <2>3. pc' \in {"idle", "send", "learn"} /\ Place' \in {"idle", "junos.ran", "junos.refused", "junos.moved", "junos.settled"}
    BY <1>0, <2>2, SendsCall, LearnsCall DEF Place, Chan
  <2> QED
    BY <2>1, <2>3, HoldsServing DEF Opening
<1> QED
  BY <1>1, <1>2 DEF JunosNext

LEMMA PanosHolds ==
    ASSUME Flow, Holds, PanosNext
    PROVE  Holds'
<1> USE DEF At, Same, counters, threads
<1>0. Shape
  BY DEF Flow
<1>1. CASE \E cmd \in Commands : PanosExecute(cmd)
  <2>1. UNCHANGED <<kind, login, pc, call, keepalive>>
    BY <1>1 DEF PanosExecute
  <2>2. Place' = Place
    BY <2>1 DEF Place
  <2> QED
    BY <2>1, <2>2, HoldsSame
<1>2. ASSUME UNCHANGED <<kind, login>>, kind = "panos", login.up,
             pc' \in {"idle", "send", "learn"} \/ pc' = pc,
             pc' \in {"send", "learn"} => call'.then \in {"panos.learned", "panos.pager", "panos.ran", "panos.kept"},
             pc' = pc => pc = "idle"
      PROVE  Holds'
  <2>1. pc' \notin Opening /\ Place' \notin {"up", "up.again"} /\ (login'.shown => login'.trusted)
    BY <1>2 DEF Opening, Place, Chan, Holds
  <2> QED
    BY <1>2, <2>1, HoldsUp
<1>3. CASE PanosLocked
  <2>1. /\ UNCHANGED <<kind, login>> /\ kind = "panos" /\ pc = "idle" /\ login.up
    BY <1>3 DEF PanosLocked, Locked, Flow, Numbers
  <2>2. /\ pc' \in {"idle", "send", "learn"}
        /\ pc' \in {"send", "learn"} => call'.then \in {"panos.learned", "panos.pager", "panos.ran", "panos.kept"}
    BY <1>3 DEF PanosLocked, GivesUp, Return, EnsureReady, NoCall
  <2> QED
    BY <1>2, <2>1, <2>2
<1>4. CASE PanosReady \/ PanosRan \/ Kept
  <2>1. UNCHANGED <<kind, login>> /\ Place \in {"panos.learned", "panos.pager", "panos.ran", "panos.kept"}
    BY <1>4, AtPlace DEF PanosReady, PanosRan, Kept, Chan
  <2>2. login.up
    BY <2>1 DEF Holds, Opening
  <2>3. /\ pc' \in {"idle", "send", "learn"}
        /\ pc' \in {"send", "learn"} => call'.then \in {"panos.learned", "panos.pager", "panos.ran", "panos.kept"}
    BY <1>0, <1>4, LearnsCall, ZenonT(60) DEF PanosReady, PanosRan, Kept, GivesUp, Return, EnsureReady, BecomesReady,
       NeverReady, NoCall, Shape
  <2>4. kind' = kind /\ (Place' = "panos.kept" \/ keepalive' \in {"warm", "sleep", "locked"} => kind = "panos")
    <3>1. keepalive' = keepalive \/ keepalive = "locked" \/ Kept
      BY <1>4 DEF PanosReady, PanosRan, BecomesReady, NeverReady
    <3>2. Kept => kind = "panos"
      BY <2>1, AtPlace DEF Kept, Holds, Chan
    <3>3. Place' # "panos.kept"
      BY <1>0, <1>4, LearnsCall, ZenonT(60) DEF PanosReady, PanosRan, Kept, GivesUp, Return, EnsureReady, BecomesReady,
         NeverReady, NoCall, Shape, Place, Chan
    <3> QED
      BY <2>1, <3>1, <3>2, <3>3 DEF Holds
  <2>5. pc' \notin Opening /\ Place' \notin {"up", "up.again"} /\ (login'.shown => login'.trusted)
    BY <2>1, <2>3 DEF Opening, Place, Chan, Holds
  <2> QED
    BY <2>1, <2>2, <2>4, <2>5, HoldsUp
<1>5. CASE Keepalive
  <2>1. /\ UNCHANGED <<kind, login>> /\ kind = "panos" /\ pc = "idle" /\ login.up
    BY <1>5 DEF Keepalive, Locked, Holds
  <2>2. /\ pc' \in {"idle", "send", "learn"}
        /\ pc' \in {"send", "learn"} => call'.then \in {"panos.learned", "panos.pager", "panos.ran", "panos.kept"}
    BY <1>5, <2>1 DEF Keepalive, EnsureReady, NoCall
  <2> QED
    BY <1>2, <2>1, <2>2
<1> QED
  BY <1>1, <1>3, <1>4, <1>5 DEF PanosNext

LEMMA ExecHolds ==
    ASSUME Flow, Holds, LinuxNext \/ FgNext \/ RestNext
    PROVE  Holds'
<1> USE DEF At, Idle, Unsent, counters, threads
<1>0. Shape /\ kind \in Kinds
  BY DEF Flow, Shape
<1>1. UNCHANGED <<kind, login, keepalive>>
  BY ZenonT(60) DEF LinuxNext, LinuxExecute, LinuxOpen, LinuxExec, LinuxRead, FgNext, FgExecute, FgShell, FgRead,
     RestNext, PbsExecute, ZammadExecute, LibrenmsExecute, WazuhExecute, RestBegins, Gns3Execute, MockExecute,
     PbsRequest, ZammadRequest, LibrenmsRequest, RestAnswers, WazuhToken, WazuhRequest, Gns3Request, MockReply,
     MockHealth
<1>2. login.up \/ pc \in {"linux.open", "linux.exec", "linux.read", "fg.shell", "fg.read", "pbs", "zammad",
                          "librenms", "wazuh", "wazuh.request", "gns3", "mock"}
  BY ZenonT(60) DEF LinuxNext, LinuxExecute, LinuxOpen, LinuxExec, LinuxRead, FgNext, FgExecute, FgShell, FgRead,
     RestNext, PbsExecute, ZammadExecute, LibrenmsExecute, WazuhExecute, RestBegins, Gns3Execute, MockExecute,
     PbsRequest, ZammadRequest, LibrenmsRequest, WazuhToken, WazuhRequest, Gns3Request, MockReply,
     MockHealth, Begins
<1>3. pc' \in {"idle", "linux.open", "linux.exec", "linux.read", "fg.shell", "fg.read", "pbs", "zammad",
               "librenms", "wazuh", "wazuh.request", "gns3", "mock"}
  BY DEF LinuxNext, LinuxExecute, LinuxOpen, LinuxExec, LinuxRead, FgNext, FgExecute, FgShell, FgRead,
     RestNext, PbsExecute, ZammadExecute, LibrenmsExecute, WazuhExecute, RestBegins, Gns3Execute, MockExecute,
     PbsRequest, ZammadRequest, LibrenmsRequest, RestAnswers, WazuhToken, WazuhRequest, Gns3Request, MockReply,
     MockHealth, Goes, Return, GivesUp
<1>4. Place' = pc' /\ pc' \notin Opening \cup {"up", "up.again", "panos.kept"}
  BY <1>3 DEF Place, Chan, Opening
<1>5. login.up \/ Place \notin Opening \cup {"idle"}
  BY <1>2 DEF Place, Chan, Opening
<1> QED
  BY <1>1, <1>4, <1>5, HoldsServing

LEMMA HoldsInit == DriverInit => Holds
BY SMTT(60) DEF DriverInit, Holds, NoLogin, Place, Chan, Opening

LEMMA HoldsStep == Flow /\ Holds /\ [Next]_driverVars => Holds'
<1> SUFFICES ASSUME Flow, Holds, [Next]_driverVars PROVE Holds'
  OBVIOUS
<1>1. CASE UNCHANGED driverVars
  <2>1. UNCHANGED <<kind, login, pc, call, keepalive>> /\ Place' = Place
    BY <1>1 DEF driverVars, Place
  <2> QED
    BY <2>1, HoldsSame
<1>2. CASE ShellNext
  BY <1>2, ChannelHolds, EnvironmentHolds, ConnectHolds, CiscoHolds, AsaHolds, JunosHolds, PanosHolds DEF ShellNext
<1>3. CASE ExecNext
  BY <1>3, ConnectHolds, ExecHolds DEF ExecNext
<1> QED
  BY <1>1, <1>2, <1>3, ConnectHolds, LoginHolds DEF Next

LEMMA HoldsAlways == Spec => []Holds
BY FlowHolds, HoldsInit, HoldsStep, PTL DEF Spec

(* For any keys and any number of connections: no SSH driver offers its
   password before the host key of this very session was accepted, and a
   connect() that fails, at whichever stage, leaves nothing acquired. *)
THEOREM DriversConnectIsClean == Spec => []ConnectIsClean
<1>1. Holds => ConnectIsClean
  BY DEF Holds, ConnectIsClean
<1> QED
  BY HoldsAlways, <1>1, PTL

-----------------------------------------------------------------------------
(* CommitFollowsCheck: no driver but the Junos one has a commit to send, and what
   its check_ok stands for is followed through the channel to the device. *)

Plain ==
    /\ call.cmd # "commit" /\ call.line # "commit"
    /\ waiting # None => waiting.cmd # "commit"

Mute ==
    /\ Plain
    /\ \A i \in DOMAIN ch.line : ch.line[i].word # "commit"
    /\ \A c \in Calls : \A i \in DOMAIN ran[c] : ran[c][i][1] # "commit"

LEMMA MuteCommands ==
    ASSUME kind # "junos"
    PROVE  "commit" \notin Commands /\ "commit" \notin ExecCommands
<1>1. CASE kind = "ios"
  BY <1>1 DEF Commands, ExecCommands, HealthProbe
<1>2. CASE kind = "asa"
  BY <1>2 DEF Commands, ExecCommands
<1>3. CASE kind = "panos"
  BY <1>3 DEF Commands, ExecCommands
<1>4. CASE kind \notin {"ios", "asa", "panos"}
  <2>1. "commit" \notin Commands
    BY <1>4 DEF Commands
  <2>2. "commit" \notin ExecCommands
    BY <1>4 DEF ExecCommands
  <2> QED
    BY <2>1, <2>2
<1> QED
  BY <1>1, <1>2, <1>3, <1>4

LEMMA MuteKept ==
    ASSUME Lines, Mute, Plain', ran' = ran,
           \/ ch'.line = ch.line \/ ch'.line = <<>>
           \/ \E id, w : w # "commit" /\ ch'.line = Append(ch.line, Line(id, w))
    PROVE  Mute'
<1>1. CASE ch'.line = ch.line \/ ch'.line = <<>>
  BY <1>1, NoneSeq DEF Mute
<1>2. ASSUME NEW id, NEW w, w # "commit", ch'.line = Append(ch.line, Line(id, w)) PROVE Mute'
  <2>1. \A i \in DOMAIN ch'.line : (i \in DOMAIN ch.line /\ ch'.line[i] = ch.line[i]) \/ ch'.line[i].word = w
    BY <1>2, AppendSeq, LinesAre, SMTT(60) DEF Line
  <2> QED
    BY <1>2, <2>1 DEF Mute
<1> QED
  BY <1>1, <1>2

LEMMA ChannelMute ==
    ASSUME Shape, Lines, Mute, ChannelStep, UNCHANGED threads
    PROVE  Mute'
<1>0. Stays /\ ran' = ran /\ waiting' = waiting
  BY ChannelStays, ChannelWrites DEF threads
<1>1. \/ ch'.line = ch.line
      \/ \E id, w : w # "commit" /\ ch'.line = Append(ch.line, Line(id, w))
  <2>1. "" # "commit"
    OBVIOUS
  <2>2. \/ ch'.line = ch.line
        \/ \E n, id, w : ch' = Writes(Drained(n), id, w) /\ w \in {call.line, ""}
    <3>1. CASE Send
      BY <3>1, DrainedLine, ZenonT(60) DEF Send
    <3>2. CASE ReadPrompt \/ ReadFails
      BY <3>2, DrainedLine, LinesAre DEF ReadPrompt, ReadFails, NoChannel
    <3>3. CASE Learn \/ Probe1 \/ Probe2
      BY <3>3, DrainedLine DEF Learn, Probe1, Probe2
    <3> QED
      BY <3>1, <3>2, <3>3 DEF ChannelStep
  <2> DEFINE nl == ""
  <2> HIDE DEF nl
  <2>3. nl # "commit"
    BY <2>1 DEF nl
  <2>4. \/ ch'.line = ch.line
        \/ \E n, id, w : ch' = Writes(Drained(n), id, w) /\ w \in {call.line, nl}
    BY <2>2 DEF nl
  <2> QED
    BY <2>3, <2>4, WritesLine, DrainedLine, SMTT(60) DEF Mute, Plain
<1> QED
  BY <1>0, <1>1, MuteKept DEF Stays, Mute, Plain

LEMMA EnvironmentMute ==
    ASSUME Lines, Mute, Environment, UNCHANGED threads
    PROVE  Mute'
<1>0. UNCHANGED <<call, waiting>>
  BY DEF Environment, DeviceStep, Log, Stall, PeerCloses, threads
<1>1. CASE Log \/ Stall \/ PeerCloses
  <2>1. ran' = ran /\ (ch'.line = ch.line \/ ch'.line = <<>>)
    BY <1>1, LinesAre DEF Log, Stall, PeerCloses, NoChannel
  <2> QED
    BY <1>0, <2>1, MuteKept DEF Mute, Plain
<1>2. CASE DeviceStep
  <2> DEFINE l == Head(ch.line)
  <2>1. /\ ch.line # <<>> /\ ch'.line = Tail(ch.line)
        /\ ran' = IF OwnLine(l) THEN [Since(l.id) EXCEPT ![l.id] = Append(@, Ran(l.word))] ELSE ran
    <3>1. ch.line # <<>> /\ ch'.line = Tail(ch.line)
      BY <1>2, LinesAre DEF DeviceStep, NoChannel
    <3> QED
      BY <1>2, <3>1 DEF DeviceStep
  <2>2. /\ \A i \in DOMAIN ch'.line : \E j \in DOMAIN ch.line : ch'.line[i] = ch.line[j]
        /\ 1 \in DOMAIN ch.line /\ l = ch.line[1]
    BY <2>1, TailSeq, LinesAre, SMTT(60)
  <2>3. l.word # "commit"
    BY <2>2 DEF Mute
  <2> HIDE DEF l
  <2>4. \A c \in Calls : \A i \in DOMAIN ran'[c] : ran'[c][i][1] # "commit"
    <3>1. CASE ~OwnLine(l)
      BY <2>1, <3>1 DEF Mute
    <3>2. CASE OwnLine(l)
      <4>1. l.id \in Calls
        BY <3>2 DEF OwnLine
      <4>2. /\ \A c \in Calls : c # l.id => ran'[c] = <<>> \/ ran'[c] = ran[c]
            /\ ran'[l.id] = Append(ran[l.id], Ran(l.word))
        BY <2>1, <3>2, <4>1, SMTT(60) DEF Since, Calls, Lines
      <4>3. \A i \in DOMAIN ran'[l.id] : \/ i \in DOMAIN ran[l.id] /\ ran'[l.id][i] = ran[l.id][i]
                                         \/ ran'[l.id][i][1] = l.word
        BY <4>1, <4>2, AppendSeq, LinesAre, SMTT(60) DEF Ran
      <4>4. \A i \in DOMAIN ran'[l.id] : ran'[l.id][i][1] # "commit"
        BY <2>3, <4>1, <4>3 DEF Mute
      <4> QED
        BY <4>2, <4>4, NoneSeq DEF Mute
    <3> QED
      BY <3>1, <3>2
  <2>5. \A i \in DOMAIN ch'.line : ch'.line[i].word # "commit"
    BY <2>2 DEF Mute
  <2> QED
    BY <1>0, <2>4, <2>5 DEF Mute, Plain
<1> QED
  BY <1>1, <1>2 DEF Environment

LEMMA ConnectMute ==
    ASSUME Shape, Lines, Mute, waiting' = waiting, kind' = kind,
           Connect \/ LoginNext \/ Disconnect \/ Greeted \/ Connected \/ Enabled_ \/ Up
    PROVE  Mute'
<1> USE NoneAssumption DEF At, Same, counters, threads
<1>1. CASE Connect \/ LoginNext \/ Disconnect \/ Up
  <2>1. /\ ran' = ran /\ (call' = call \/ call' = NoCall)
        /\ ch' = ch \/ ch' = NoChannel
    BY <1>1, LoginCases DEF Connect, Disconnect, Up
  <2> QED
    BY <2>1, MuteKept, SMTT(60) DEF Mute, Plain, NoCall, NoChannel
<1>2. CASE Greeted
  <2>1. PICK words \in Setup : ch'.line = [i \in DOMAIN words |-> Line(0, words[i])]
    BY <1>2, SMTT(60) DEF Greeted
  <2>2. \A i \in DOMAIN words : words[i] # "commit"
    BY SetupSeq, SMTT(60)
  <2>3. \A i \in DOMAIN ch'.line : ch'.line[i].word # "commit"
    <3>1. DOMAIN ch'.line = DOMAIN words /\ \A i \in DOMAIN words : ch'.line[i].word = words[i]
      BY <2>1, SMTT(60) DEF Line
    <3> QED
      BY <2>2, <3>1
  <2>4. ran' = ran /\ call'.cmd = call.cmd /\ call'.line = call.line
    BY <1>2 DEF Greeted, Shape, NoCall
  <2> QED
    BY <2>3, <2>4 DEF Mute, Plain
<1>3. CASE Connected \/ Enabled_
  <2>1. ran' = ran
    BY <1>3 DEF Connected, Enabled_
  <2>2. call'.cmd # "commit" /\ call'.line # "commit"
    BY <1>3, LearnsCall, SMTT(60) DEF Connected, NotConnected, Enabled_, NoCall, Mute, Plain
  <2>3. \/ ch'.line = ch.line \/ ch'.line = <<>>
        \/ \E w : w # "commit" /\ ch'.line = Append(ch.line, Line(0, w))
    BY <1>3, WritesLine, LinesAre, SMTT(60) DEF Connected, NotConnected, Enabled_, NoChannel
  <2> QED
    BY <2>1, <2>2, <2>3, MuteKept DEF Mute, Plain
<1> QED
  BY <1>1, <1>2, <1>3

(* Begins takes one of the commands of this driver. *)
LEMMA BeginsMute ==
    ASSUME NEW cmd, cmd # "commit", Begins(cmd)
    PROVE  call'.cmd # "commit" /\ call'.line # "commit"
BY NoneAssumption DEF Begins, NoCall

LEMMA CiscoMute ==
    ASSUME kind # "junos", Shape, Lines, Mute, Fresh, CiscoNext
    PROVE  Mute'
<1> USE DEF At, Same, counters, threads
<1>0. Plain
  BY DEF Mute
<1>1. ran' = ran /\ waiting' = waiting /\ (ch' = ch \/ ch' = NoChannel)
  <2>1. CASE CiscoStep
    BY <2>1, CiscoStepCases
  <2>2. CASE CiscoNext /\ ~CiscoStep
    BY <2>2 DEF CiscoNext, CiscoExecute, CiscoStart, CiscoReconnect, CiscoAgain, CiscoConfirm, CiscoRebooted,
       CiscoModeChanged, CiscoRan, CiscoMoved, CiscoStepMoved
  <2> QED
    BY <2>1, <2>2
<1>2. call'.cmd # "commit" /\ call'.line # "commit"
  <2>1. ASSUME NEW cmd \in Commands, CiscoExecute(cmd) PROVE call'.cmd # "commit" /\ call'.line # "commit"
    BY <2>1, BeginsMute, MuteCommands DEF CiscoExecute
  <2>2. CASE CiscoStart \/ CiscoReconnect \/ CiscoAgain
    BY <1>0, <2>2, SendsCall DEF CiscoStart, CiscoReconnect, CiscoAgain, Plain, Shape, NoCall
  <2>3. CASE CiscoConfirm \/ CiscoRebooted \/ CiscoModeChanged \/ CiscoRan \/ CiscoMoved \/ CiscoStepMoved
    <3>1. call' = call \/ Sends("y", "ios.rebooted") \/ Learns("ios.moved") \/ Learns("ios.settled")
      BY <2>3 DEF CiscoConfirm, CiscoRebooted, CiscoModeChanged, CiscoRan, CiscoMoved, CiscoStepMoved
    <3> QED
      BY <1>0, <3>1, SendsCall, LearnsCall, SMTT(60) DEF Plain
  <2>4. CASE CiscoStep
    <3>1. Place \in {"ios.step", "ios.settled"}
      BY <2>4, CiscoStepCases DEF Place, Chan
    <3>2. call.step \in 1..4
      BY <3>1 DEF Fresh
    <3>3. \A i \in 1..4 : Steps[i] # "commit"
      BY SMTT(60) DEF Steps
    <3>4. call.step # 4 => call.step + 1 \in 1..4
      BY <3>2, SMTT(60)
    <3> QED
      BY <1>0, <2>4, <3>3, <3>4, CiscoStepCases, SMTT(60) DEF Plain
  <2> QED
    BY <2>1, <2>2, <2>3, <2>4 DEF CiscoNext
<1> QED
  BY <1>0, <1>1, <1>2, MuteKept, SMTT(60) DEF Plain, NoChannel

LEMMA AsaMute ==
    ASSUME kind # "junos", Shape, Lines, Mute, AsaNext
    PROVE  Mute'
<1> USE DEF At, Same, counters, threads
<1>0. Plain
  BY DEF Mute
<1>1. ran' = ran /\ waiting' = waiting /\ (ch' = ch \/ ch' = Writes(ch, 0, "enable"))
  BY DEF AsaNext, AsaExecute, AsaStart, AsaVerified, AsaRan
<1>2. ch'.line = ch.line \/ \E w : w # "commit" /\ ch'.line = Append(ch.line, Line(0, w))
  BY <1>1, WritesLine, LinesAre
<1>3. call'.cmd # "commit" /\ call'.line # "commit"
  BY <1>0, BeginsMute, MuteCommands, SendsCall, LearnsCall
     DEF AsaNext, AsaExecute, AsaStart, AsaVerified, AsaRan, Plain
<1> QED
  BY <1>0, <1>1, <1>2, <1>3, MuteKept DEF Plain

(* What JunOS would say on any other device is no commit either. *)
LEMMA JunosMute ==
    ASSUME kind # "junos", Shape, Lines, Mute, JunosNext
    PROVE  Mute'
<1> USE DEF At, Same, counters, threads
<1>0. Plain
  BY DEF Mute
<1>1. ran' = ran /\ waiting' = waiting
  BY ZenonT(60) DEF JunosNext, JunosExecute, JunosStart, JunosRefuse, JunosRefused, JunosMoved, JunosRan
<1>2. \E c : (c = ch \/ \E n : c = Drained(n)) /\ (ch' = c \/ ch' = Writes(c, 0, "rollback"))
  BY DEF JunosNext, JunosExecute, JunosStart, JunosRefuse, JunosRefused, JunosMoved, JunosRan, JunosReply, RollsBack
<1>3. ch'.line = ch.line \/ \E w : w # "commit" /\ ch'.line = Append(ch.line, Line(0, w))
  <2>1. DOMAIN ch = DOMAIN NoChannel
    BY DEF Lines
  <2> QED
    BY <1>2, <2>1, DrainedLine, WritesLine, SMTT(60)
<1>4. call'.cmd # "commit" /\ call'.line # "commit"
  <2>1. \/ call' = call \/ Sends("run show", "junos.ran") \/ Sends(call.cmd, "junos.ran")
        \/ Learns("junos.refused") \/ Learns("junos.moved") \/ Learns("junos.settled")
    <3>1. CASE JunosStart
      BY <3>1 DEF JunosStart
    <3>2. CASE JunosRefuse \/ JunosRefused \/ JunosMoved \/ JunosRan
      BY <3>2 DEF JunosRefuse, JunosRefused, JunosMoved, JunosRan, JunosReply
    <3> QED
      BY <3>1, <3>2 DEF JunosNext, JunosExecute
  <2> DEFINE run == "run show"
  <2>2. run # "commit"
    OBVIOUS
  <2> HIDE DEF run
  <2>3. \/ call' = call \/ Sends(run, "junos.ran") \/ Sends(call.cmd, "junos.ran")
        \/ Learns("junos.refused") \/ Learns("junos.moved") \/ Learns("junos.settled")
    BY <2>1 DEF run
  <2> QED
    BY <1>0, <2>2, <2>3, SendsCall, LearnsCall DEF Plain
<1> QED
  BY <1>0, <1>1, <1>3, <1>4, MuteKept DEF Plain

LEMMA PanosMute ==
    ASSUME kind # "junos", Shape, Lines, Mute, PanosNext
    PROVE  Mute'
<1> USE NoneAssumption DEF At, Same, counters, threads
<1>0. Plain
  BY DEF Mute
<1>1. UNCHANGED <<ran, ch>>
  BY DEF PanosNext, PanosExecute, PanosLocked, PanosReady, PanosRan, Keepalive, Kept
<1>2. waiting' # None => waiting'.cmd # "commit"
  <2>1. ASSUME NEW cmd \in Commands, PanosExecute(cmd) PROVE waiting' # None => waiting'.cmd # "commit"
    <3>1. waiting' = waiting \/ waiting' = [id |-> result.id + 1, cmd |-> cmd]
      BY <2>1 DEF PanosExecute
    <3> QED
      BY <1>0, <3>1, MuteCommands, SMTT(60) DEF Plain
  <2>2. CASE PanosNext /\ ~\E cmd \in Commands : PanosExecute(cmd)
    <3>1. waiting' = waiting \/ waiting' = None
      BY <2>2 DEF PanosNext, PanosLocked, PanosReady, PanosRan, Keepalive, Kept
    <3> QED
      BY <1>0, <3>1 DEF Plain
  <2> QED
    BY <2>1, <2>2
<1>3. call'.cmd # "commit" /\ call'.line # "commit"
  <2>1. CASE (\E cmd \in Commands : PanosExecute(cmd)) \/ PanosRan \/ Kept
    <3>1. call' = call \/ call' = NoCall
      BY <2>1 DEF PanosExecute, PanosRan, Kept
    <3> QED
      BY <1>0, <3>1, SMTT(60) DEF Plain, NoCall
  <2>2. ASSUME NEW c, EnsureReady(c), DOMAIN c = DOMAIN NoCall, c.cmd # "commit", c.line # "commit"
        PROVE  call'.cmd # "commit" /\ call'.line # "commit"
    BY <2>2 DEF EnsureReady, NoCall
  <2>3. CASE PanosLocked
    <3> DEFINE c == [NoCall EXCEPT !.id = waiting.id, !.cmd = waiting.cmd]
    <3>1. DOMAIN c = DOMAIN NoCall /\ c.cmd # "commit" /\ c.line # "commit"
      BY <1>0, <2>3 DEF Plain, NoCall, PanosLocked
    <3>2. call' = c \/ EnsureReady(c) \/ call' = [c EXCEPT !.line = c.cmd, !.then = "panos.ran"]
      BY <2>3 DEF PanosLocked
    <3> HIDE DEF c
    <3> QED
      BY <2>2, <3>1, <3>2 DEF NoCall
  <2>4. CASE PanosReady
    <3>1. \/ EnsureReady(call) \/ BecomesReady(call) \/ Learns("panos.learned") \/ NeverReady
      BY <2>4 DEF PanosReady
    <3>2. DOMAIN call = DOMAIN NoCall
      BY DEF Shape
    <3>3. ASSUME BecomesReady(call) PROVE call'.cmd # "commit" /\ call'.line # "commit"
      <4>1. call' = NoCall \/ \E id : call' = [call EXCEPT !.id = id, !.line = call.cmd, !.then = "panos.ran"]
        BY <3>3 DEF BecomesReady
      <4>2. ASSUME NEW id, call' = [call EXCEPT !.id = id, !.line = call.cmd, !.then = "panos.ran"]
            PROVE  call'.cmd = call.cmd /\ call'.line = call.cmd
        BY <3>2, <4>2 DEF NoCall
      <4>3. NoCall.cmd # "commit" /\ NoCall.line # "commit"
        BY DEF NoCall
      <4> QED
        BY <1>0, <4>1, <4>2, <4>3 DEF Plain
    <3>4. ASSUME NeverReady PROVE call'.cmd # "commit" /\ call'.line # "commit"
      <4>1. call' = NoCall \/ call' = [call EXCEPT !.id = result.id + 1]
        BY <3>4 DEF NeverReady
      <4>2. ASSUME NEW id, call' = [call EXCEPT !.id = id]
            PROVE  call'.cmd = call.cmd /\ call'.line = call.line
        BY <3>2, <4>2 DEF NoCall
      <4>3. NoCall.cmd # "commit" /\ NoCall.line # "commit"
        BY DEF NoCall
      <4> QED
        BY <1>0, <4>1, <4>2, <4>3 DEF Plain
    <3> QED
      BY <1>0, <2>2, <3>1, <3>2, <3>3, <3>4, LearnsCall DEF Plain
  <2>5. CASE Keepalive
    <3>1. EnsureReady(NoCall) \/ call' = call \/ call' = [NoCall EXCEPT !.line = "", !.then = "panos.kept"]
      BY <2>5 DEF Keepalive
    <3>2. call' = [NoCall EXCEPT !.line = "", !.then = "panos.kept"] =>
             call'.cmd # "commit" /\ call'.line # "commit"
      <4> DEFINE nl == ""
      <4>1. nl # "commit"
        OBVIOUS
      <4> HIDE DEF nl
      <4>2. ASSUME call' = [NoCall EXCEPT !.line = nl, !.then = "panos.kept"]
            PROVE  call'.cmd # "commit" /\ call'.line # "commit"
        BY <4>1, <4>2 DEF NoCall
      <4> QED
        BY <4>2 DEF nl
    <3>3. NoCall.cmd # "commit" /\ NoCall.line # "commit"
      BY DEF NoCall
    <3> QED
      BY <1>0, <2>2, <3>1, <3>2, <3>3 DEF Plain
  <2> QED
    BY <2>1, <2>3, <2>4, <2>5 DEF PanosNext
<1> QED
  BY <1>1, <1>2, <1>3, MuteKept DEF Plain

LEMMA ExecMute ==
    ASSUME kind # "junos", Shape, Lines, Mute, LinuxNext \/ FgNext \/ RestNext
    PROVE  Mute'
<1> USE DEF At, Idle, counters, threads
<1>0. Plain /\ DOMAIN call = DOMAIN NoCall
  BY DEF Mute, Shape
<1>1. waiting' = waiting /\ ch'.line = ch.line
  <2>1. waiting' = waiting /\ (ch' = ch \/ \E o : ch' = [ch EXCEPT !.out = o])
    BY DEF LinuxNext, LinuxExecute, LinuxOpen, LinuxExec, LinuxRead, FgNext, FgExecute, FgShell, FgRead,
       RestNext, PbsExecute, ZammadExecute, LibrenmsExecute, WazuhExecute, RestBegins, Gns3Execute, MockExecute,
       PbsRequest, ZammadRequest, LibrenmsRequest, RestAnswers, WazuhToken, WazuhRequest, Gns3Request, MockReply,
       MockHealth
  <2> QED
    BY <2>1, LinesAre DEF NoChannel
<1>2. \/ \E cmd \in ExecCommands : Begins(cmd)
      \/ call' = call \/ \E b : call' = [call EXCEPT !.body = b]
  <2>1. CASE LinuxNext
    BY <2>1 DEF LinuxNext, LinuxExecute, LinuxOpen, LinuxExec, LinuxRead
  <2>2. CASE FgNext
    BY <2>2 DEF FgNext, FgExecute, FgShell, FgRead
  <2>3. CASE RestNext
    <3>1. ASSUME NEW cmd \in ExecCommands,
                 \/ PbsExecute(cmd) \/ ZammadExecute(cmd) \/ LibrenmsExecute(cmd)
                 \/ WazuhExecute(cmd) \/ Gns3Execute(cmd) \/ MockExecute(cmd)
          PROVE  Begins(cmd)
      BY <3>1 DEF PbsExecute, ZammadExecute, LibrenmsExecute, WazuhExecute, RestBegins, Gns3Execute,
         MockExecute
    <3>2. CASE PbsRequest \/ ZammadRequest \/ LibrenmsRequest \/ WazuhRequest \/ Gns3Request
      BY <3>2 DEF PbsRequest, ZammadRequest, LibrenmsRequest, WazuhRequest, Gns3Request, RestAnswers
    <3>3. CASE WazuhToken \/ MockReply \/ MockHealth
      BY <3>3 DEF WazuhToken, MockReply, MockHealth
    <3> QED
      BY <2>3, <3>1, <3>2, <3>3 DEF RestNext
  <2> QED
    BY <2>1, <2>2, <2>3
<1>3. Plain'
  <2>1. ASSUME NEW b, call' = [call EXCEPT !.body = b] PROVE call'.cmd = call.cmd /\ call'.line = call.line
    BY <1>0, <2>1 DEF NoCall
  <2>2. call'.cmd # "commit" /\ call'.line # "commit"
    BY <1>0, <1>2, <2>1, BeginsMute, MuteCommands DEF Plain
  <2> QED
    BY <1>0, <1>1, <2>2 DEF Plain
<1>4. ran' = ran \/ \E may : Dispatch(may)
  <2>1. CASE LinuxNext
    BY <2>1 DEF LinuxNext, LinuxExecute, LinuxOpen, LinuxExec, LinuxRead, Unsent
  <2>2. CASE FgNext
    BY <2>2 DEF FgNext, FgExecute, FgShell, FgRead, Unsent
  <2>3. CASE RestNext
    <3>1. CASE \/ \E cmd \in ExecCommands :
                     \/ PbsExecute(cmd) \/ ZammadExecute(cmd) \/ LibrenmsExecute(cmd)
                     \/ WazuhExecute(cmd) \/ Gns3Execute(cmd) \/ MockExecute(cmd)
               \/ WazuhToken \/ MockHealth \/ MockReply
      BY <3>1 DEF PbsExecute, ZammadExecute, LibrenmsExecute, WazuhExecute, RestBegins, Gns3Execute, MockExecute,
         WazuhToken, MockHealth, MockReply, Unsent
    <3>2. CASE PbsRequest \/ ZammadRequest \/ LibrenmsRequest \/ WazuhRequest \/ Gns3Request
      <4>1. (\E rc \in Before \cup After : Performs(rc)) \/ \E a : Performed(a)
        BY <3>2 DEF PbsRequest, ZammadRequest, LibrenmsRequest, WazuhRequest, Gns3Request, RestAnswers
      <4> QED
        BY <4>1, SMTT(60) DEF Performs, Performed, Unsent
    <3> QED
      BY <2>3, <3>1, <3>2 DEF RestNext
  <2> QED
    BY <2>1, <2>2, <2>3
<1>5. CASE ran' = ran
  BY <1>1, <1>3, <1>5, MuteKept
<1>6. ASSUME NEW may, Dispatch(may), ran' # ran PROVE Mute'
  <2> DEFINE d == call'.id
             e == <<call'.cmd, FALSE>>
  <2>1. ran' = [ran EXCEPT ![d] = Append(@, e)]
    BY <1>6 DEF Dispatch
  <2>2. e[1] # "commit"
    BY <1>3 DEF Plain
  <2> HIDE DEF d, e
  <2>3. \A c \in Calls : c # d => ran'[c] = ran[c]
    BY <2>1 DEF Lines
  <2>4. d \in Calls => \A i \in DOMAIN ran'[d] : (i \in DOMAIN ran[d] /\ ran'[d][i] = ran[d][i]) \/ ran'[d][i] = e
    <3>1. d \in Calls => ran'[d] = Append(ran[d], e) /\ IsSeq(ran[d])
      BY <2>1 DEF Lines
    <3> QED
      BY <3>1, AppendSeq, SMTT(60)
  <2>5. \A c \in Calls : \A i \in DOMAIN ran'[c] : ran'[c][i][1] # "commit"
    BY <2>2, <2>3, <2>4, SMTT(60) DEF Mute
  <2> QED
    BY <1>1, <1>3, <2>5 DEF Mute
<1> QED
  BY <1>4, <1>5, <1>6

-----------------------------------------------------------------------------
(***************************************************************************)
(* JunOS: what check_ok stands for.  The flag is the driver's, the checked *)
(* candidate the device's, and lines, replies and rollbacks travel between *)
(* the two.  Blind: the device will run no further line, or the driver has *)
(* fallen behind it and promises nothing.                                  *)
(***************************************************************************)
Blind == dev.stalled \/ ~ch.up \/ ch.behind

Devices == [mode : Modes, stalled : BOOLEAN, passed : BOOLEAN]

Handling == {"junos.start", "junos.refuse", "junos.refused", "junos.ran", "junos.moved", "junos.settled"}
JunosPlaces == {"idle", "login", "greeted", "up"} \cup Handling
JunosCommands == {"show", "configure", "set", "check", "commit", "rollback", "exit", "reload"}
JunosLines == JunosCommands \cup {"", "pager", "run show"}
Weighty == {"configure", "check", "commit", "rollback"}

Flies(w) == \E i \in DOMAIN ch.line : ch.line[i].word = w
Undoing == Place \in Handling /\ call.cmd = "rollback"
Checking == Place = "junos.ran" /\ call.cmd = "check"
Passed(items) == \E i \in DOMAIN items : items[i].what = "okcheck"

(* The shape of a Junos connection: places, commands and lines it can hold. *)
Sane ==
    /\ dev \in Devices /\ IsSeq(ch.out)
    /\ Place \in JunosPlaces /\ ~call.again
    /\ Place \in Handling => call.cmd \in JunosCommands
    /\ Place \in {"junos.moved", "junos.settled"} => call.cmd \in {"configure", "rollback", "exit"}
    /\ \A i \in DOMAIN ch.line : ch.line[i].word \in JunosLines
    /\ pc = "send" =>
          /\ call.line \in JunosLines
          /\ call.line = call.cmd \/ (call.line \notin Weighty /\ call.cmd \notin Weighty)

(* A commit in flight is the first line and finds a checked candidate; the flag
   is down where it must be and a commit only starts with it up; a check in
   progress has nothing but itself in flight and succeeds on a checked
   candidate only; and while the flag is up the candidate is checked, with no
   line on its way that would change that. *)
Gate ==
    /\ \A i \in DOMAIN ch.line : ch.line[i].word = "commit" => Blind \/ (i = 1 /\ dev.passed)
    /\ Place \in {"up", "junos.refuse", "junos.refused"} => ~conn.check_ok
    /\ Place \in Handling /\ call.cmd = "configure" => ~conn.check_ok
    /\ pc \in {"junos.start", "send"} /\ call.cmd = "commit" => conn.connected /\ conn.check_ok
    /\ Checking /\ pc # "send" => Blind \/ \A i \in DOMAIN ch.line : ch.line[i].word = "check"
    /\ Checking /\ pc = "read" /\ Passed(ch.out) => Blind \/ dev.passed
    /\ Checking /\ pc = "junos.ran" /\ Passed(call.body) => Blind \/ dev.passed
    /\ conn.check_ok /\ conn.connected /\ ~Undoing =>
          Blind \/ (dev.passed /\ ~Flies("rollback") /\ ~Flies("configure"))

LEMMA CutSeq ==
    ASSUME NEW s, IsSeq(s), NEW m \in 1..(Len(s) + 1), NEW n \in 0..Len(s)
    PROVE  /\ IsSeq(SubSeq(s, m, n))
           /\ \A i \in DOMAIN SubSeq(s, m, n) : \E j \in DOMAIN s : SubSeq(s, m, n)[i] = s[j]
<1>1. PICK S : s \in Seq(S)
  BY DEF IsSeq
<1>2. SubSeq(s, m, n) \in Seq(S)
  BY <1>1, SMTT(60)
<1>3. Len(s) \in Nat /\ DOMAIN s = 1..Len(s)
  BY <1>1, SMTT(60)
<1>4. \A i \in DOMAIN SubSeq(s, m, n) : i \in Nat /\ m + i - 1 \in 1..Len(s) /\ SubSeq(s, m, n)[i] = s[m + i - 1]
  BY <1>1, <1>2, <1>3, SMTT(60)
<1> QED
  BY <1>2, <1>3, <1>4 DEF IsSeq

LEMMA JoinSeq ==
    ASSUME NEW s, NEW t, IsSeq(s), IsSeq(t)
    PROVE  /\ IsSeq(s \o t)
           /\ \A i \in DOMAIN (s \o t) : (\E j \in DOMAIN s : (s \o t)[i] = s[j]) \/ \E j \in DOMAIN t : (s \o t)[i] = t[j]
<1>1. PICK S : s \in Seq(S)
  BY DEF IsSeq
<1>2. PICK T : t \in Seq(T)
  BY DEF IsSeq
<1>3. s \in Seq(S \cup T) /\ t \in Seq(S \cup T)
  BY <1>1, <1>2, SMTT(60)
<1>4. s \o t \in Seq(S \cup T)
  BY <1>3, SMTT(60)
<1>5. \A i \in DOMAIN (s \o t) : i \in 1..(Len(s) + Len(t)) /\ (s \o t)[i] = IF i <= Len(s) THEN s[i] ELSE t[i - Len(s)]
  BY <1>3, SMTT(60)
<1>6. DOMAIN s = 1..Len(s) /\ DOMAIN t = 1..Len(t) /\ Len(s) \in Nat /\ Len(t) \in Nat
  BY <1>3, SMTT(60)
<1>7. ASSUME NEW i \in DOMAIN (s \o t)
      PROVE  (\E j \in DOMAIN s : (s \o t)[i] = s[j]) \/ \E j \in DOMAIN t : (s \o t)[i] = t[j]
  <2>1. i \in 1..(Len(s) + Len(t)) /\ (s \o t)[i] = IF i <= Len(s) THEN s[i] ELSE t[i - Len(s)]
    BY <1>5
  <2>2. CASE i <= Len(s)
    BY <1>6, <2>1, <2>2, SMTT(60)
  <2>3. CASE i > Len(s)
    <3>1. i - Len(s) \in DOMAIN t
      BY <1>6, <2>1, <2>3, SMTT(60)
    <3>2. (s \o t)[i] = t[i - Len(s)]
      BY <1>6, <2>1, <2>3, SMTT(60)
    <3> QED
      BY <3>1, <3>2
  <2> QED
    BY <1>6, <2>1, <2>2, <2>3, SMTT(60)
<1> QED
  BY <1>4, <1>7 DEF IsSeq

(* What the device says to a line of the JunOS driver, and what becomes of
   the candidate it has checked. *)
LEMMA JunosAnswers ==
    ASSUME kind = "junos", dev \in Devices, NEW w \in JunosLines, NEW a \in Answers(w)
    PROVE  /\ a.dev \in Devices /\ a.dev.stalled = dev.stalled /\ IsSeq(a.out)
           /\ w \notin {"configure", "rollback"} => a.dev.passed = dev.passed \/ a.dev.passed
           /\ \A i \in DOMAIN a.out : a.out[i] = "okcheck" => a.dev.passed
<1>1. \/ \E items \in {<<>>, <<"err">>, <<"text">>} : a = Here(items)
      \/ w = "configure" /\ a = [Says(<<>>, "config") EXCEPT !.dev.passed = FALSE]
      \/ a = [Here(<<"okcheck">>) EXCEPT !.dev.passed = TRUE]
      \/ w = "rollback" /\ a = [Here(<<"text">>) EXCEPT !.dev.passed = FALSE]
      \/ a = [out |-> <<"confirm">>, dev |-> dev]
      \/ a = Says(<<>>, "exec")
  <2>1. CASE w = "configure"
    BY <2>1 DEF Answers
  <2>2. CASE w = "check"
    BY <2>2 DEF Answers
  <2>3. CASE w = "rollback"
    BY <2>3 DEF Answers
  <2>4. CASE w \in {"show", "pager"}
    BY <2>4 DEF Answers
  <2>5. CASE w \in {"commit", "set"}
    BY <2>5 DEF Answers
  <2>6. CASE w \in {"", "run show"}
    BY <2>6 DEF Answers
  <2>7. CASE w = "reload"
    BY <2>7 DEF Answers
  <2>8. CASE w = "exit"
    BY <2>8 DEF Answers
  <2> QED
    BY <2>1, <2>2, <2>3, <2>4, <2>5, <2>6, <2>7, <2>8 DEF JunosLines, JunosCommands
<1>2. "config" \in Modes /\ "exec" \in Modes /\ dev.mode \in Modes /\ "okcheck" \notin Modes
  BY DEF Devices, Modes
<1>3. ASSUME NEW items \in {<<>>, <<"err">>, <<"text">>, <<"okcheck">>}, NEW mode \in Modes
      PROVE  /\ IsSeq(Append(items, mode))
             /\ items # <<"okcheck">> => \A i \in DOMAIN Append(items, mode) : Append(items, mode)[i] # "okcheck"
  <2>1. IsSeq(items)
    <3> DEFINE S == {"err", "text", "okcheck"}
    <3>1. <<>> \in Seq(S)
      BY SMTT(60)
    <3>2. <<"err">> \in Seq(S) /\ <<"text">> \in Seq(S) /\ <<"okcheck">> \in Seq(S)
      BY SMTT(60)
    <3> HIDE DEF S
    <3>3. items \in Seq(S)
      BY <1>3, <3>1, <3>2
    <3> QED
      BY <3>3 DEF IsSeq
  <2>2. items # <<"okcheck">> => \A i \in DOMAIN items : items[i] # "okcheck"
    BY <1>3, SMTT(60)
  <2> HIDE <1>3
  <2> QED
    BY <1>2, <2>1, <2>2, AppendSeq, SMTT(60)
<1>4. ASSUME NEW items \in {<<>>, <<"err">>, <<"text">>}, a = Here(items)
      PROVE  a.dev \in Devices /\ a.dev.stalled = dev.stalled /\ a.dev.passed = dev.passed
             /\ a.out = Append(items, dev.mode)
  BY <1>2, <1>4 DEF Here, Says, Devices
<1>5. CASE w = "configure" /\ a = [Says(<<>>, "config") EXCEPT !.dev.passed = FALSE]
  <2>1. /\ a.dev \in Devices /\ a.dev.stalled = dev.stalled /\ a.out = Append(<<>>, "config")
    BY <1>2, <1>5 DEF Says, Devices
  <2> QED
    BY <1>2, <1>3, <1>5, <2>1
<1>6. CASE a = [Here(<<"okcheck">>) EXCEPT !.dev.passed = TRUE]
  <2>1. /\ a.dev \in Devices /\ a.dev.stalled = dev.stalled /\ a.dev.passed
        /\ a.out = Append(<<"okcheck">>, dev.mode)
    BY <1>2, <1>6 DEF Here, Says, Devices
  <2> QED
    BY <1>2, <1>3, <2>1
<1>7. CASE w = "rollback" /\ a = [Here(<<"text">>) EXCEPT !.dev.passed = FALSE]
  <2>1. /\ a.dev \in Devices /\ a.dev.stalled = dev.stalled /\ a.out = Append(<<"text">>, dev.mode)
    BY <1>2, <1>7 DEF Here, Says, Devices
  <2> QED
    BY <1>2, <1>3, <1>7, <2>1
<1>8. CASE a = [out |-> <<"confirm">>, dev |-> dev]
  <2>1. a.dev = dev /\ a.out = <<"confirm">>
    BY <1>8
  <2>2. IsSeq(<<"confirm">>)
    <3>1. <<"confirm">> \in Seq({"confirm"})
      BY SMTT(60)
    <3> QED
      BY <3>1 DEF IsSeq
  <2> QED
    BY <2>1, <2>2, SMTT(60)
<1>9. CASE \E items \in {<<>>, <<"err">>, <<"text">>} : a = Here(items)
  <2>1. PICK items \in {<<>>, <<"err">>, <<"text">>} : a = Here(items)
    BY <1>9
  <2>2. items # <<"okcheck">> /\ items \in {<<>>, <<"err">>, <<"text">>, <<"okcheck">>}
    BY <2>1, SMTT(60)
  <2> QED
    BY <1>2, <1>3, <1>4, <2>1, <2>2, ZenonT(60)
<1>10. CASE a = Says(<<>>, "exec")
  <2>1. a.dev \in Devices /\ a.dev.stalled = dev.stalled /\ a.dev.passed = dev.passed /\ a.out = Append(<<>>, "exec")
    BY <1>2, <1>10 DEF Says, Devices
  <2>2. <<>> # <<"okcheck">>
    BY SMTT(60)
  <2> QED
    BY <1>2, <1>3, <2>1, <2>2
<1> QED
  BY <1>1, <1>5, <1>6, <1>7, <1>8, <1>9, <1>10

(* A drain keeps the lines, and one that does not let the driver fall behind
   leaves nothing on a channel whose device owes nothing. *)
LEMMA DrainedWire ==
    ASSUME Lines, IsSeq(ch.out), NEW n \in Reach
    PROVE  /\ DOMAIN Drained(n) = DOMAIN NoChannel /\ Drained(n).line = ch.line /\ Drained(n).up = ch.up
           /\ IsSeq(Drained(n).out) /\ (ch.behind => Drained(n).behind)
           /\ ~Drained(n).behind => Drained(n).out = <<>> /\ (dev.stalled \/ ~ch.up \/ ch.line = <<>>)
<1>0. DOMAIN ch = DOMAIN NoChannel
  BY DEF Lines
<1>1. n \in 0..Len(ch.out) /\ Len(ch.out) \in Nat
  BY SMTT(60) DEF Reach, IsSeq
<1>2. /\ n + 1 \in 1..(Len(ch.out) + 1) /\ Len(ch.out) \in 0..Len(ch.out)
      /\ ~(n < Len(ch.out)) => n = Len(ch.out)
  BY <1>1, SMTT(60)
<1>3. IsSeq(SubSeq(ch.out, n + 1, Len(ch.out)))
  BY <1>2, CutSeq
<1>4. SubSeq(ch.out, Len(ch.out) + 1, Len(ch.out)) = <<>>
  <2>1. PICK S : ch.out \in Seq(S)
    BY DEF IsSeq
  <2> QED
    BY <2>1, SMTT(60)
<1>5. /\ DOMAIN Drained(n) = DOMAIN NoChannel /\ Drained(n).line = ch.line /\ Drained(n).up = ch.up
      /\ Drained(n).out = SubSeq(ch.out, n + 1, Len(ch.out))
      /\ Drained(n).behind = (ch.behind \/ Early(n))
  BY <1>0 DEF Drained, Waited, NoChannel
<1>6. ~Drained(n).behind => n = Len(ch.out) /\ ~Owed
  BY <1>2, <1>5 DEF Early
<1> QED
  BY <1>3, <1>4, <1>5, <1>6 DEF Owed

(* A driver that is not behind after a drain writes its line to a device that
   owes nothing, and what it then reads was on its way to it. *)
LEMMA ChannelWire ==
    ASSUME Shape, Lines, IsSeq(ch.out), ChannelStep
    PROVE  /\ UNCHANGED <<kind, dev, ran>> /\ ch'.up = ch.up /\ IsSeq(ch'.out)
           /\ ch.behind => ch'.behind
           /\ conn'.check_ok = conn.check_ok /\ conn'.connected = conn.connected
           /\ \/ ch'.line = ch.line
              \/ \E id, w : /\ ch'.line = Append(ch.line, Line(id, w))
                            /\ ch'.behind \/ ch.line = <<>>
                            /\ IF pc = "send" THEN w = call.line ELSE w \in JunosLines \ Weighty
           /\ pc = "read" => ch'.line = ch.line
           /\ pc = "send" => dev.stalled \/ ~ch.up \/ ch'.behind \/ ch.line = <<>>
           /\ pc' = "read" => ch'.behind \/ ch'.out = <<>>
           /\ pc = "send" /\ pc' # "read" => call'.body = <<>>
           /\ pc = "read" => \A i \in DOMAIN call'.body : \E j \in DOMAIN ch.out : call'.body[i] = ch.out[j]
<1>0. DOMAIN ch = DOMAIN NoChannel /\ DOMAIN conn = DOMAIN NoConn /\ IsSeq(<<>>)
  BY NoneSeq DEF Lines, Shape
<1>1. ASSUME NEW n \in Reach, ch' = Drained(n)
      PROVE  /\ ch'.up = ch.up /\ IsSeq(ch'.out) /\ (ch.behind => ch'.behind) /\ ch'.line = ch.line
             /\ ~ch'.behind => ch'.out = <<>> /\ (dev.stalled \/ ~ch.up \/ ch.line = <<>>)
  BY <1>1, DrainedWire
<1>2. ASSUME NEW n \in Reach, NEW id, NEW w, ch' = Writes(Drained(n), id, w), ch.up
      PROVE  /\ ch'.up = ch.up /\ IsSeq(ch'.out) /\ (ch.behind => ch'.behind)
             /\ ~ch'.behind => ch'.out = <<>> /\ (dev.stalled \/ ~ch.up \/ ch.line = <<>>)
             /\ \/ ch'.line = ch.line
                \/ ch'.line = Append(ch.line, Line(id, w)) /\ (ch'.behind \/ ch.line = <<>>)
  <2> DEFINE d == Drained(n)
  <2>1. /\ DOMAIN d = DOMAIN NoChannel /\ d.line = ch.line /\ d.up = ch.up
        /\ IsSeq(d.out) /\ (ch.behind => d.behind)
        /\ ~d.behind => d.out = <<>> /\ (dev.stalled \/ ~ch.up \/ ch.line = <<>>)
    BY DrainedWire
  <2>2. ch' = Writes(d, id, w)
    BY <1>2
  <2> HIDE DEF d
  <2>3. /\ ch'.up = d.up /\ ch'.out = d.out /\ ch'.behind = d.behind
        /\ \/ ch'.line = d.line
           \/ ~dev.stalled /\ ch'.line = Append(d.line, Line(id, w))
    BY <2>1, <2>2 DEF Writes, NoChannel
  <2> QED
    BY <1>2, <2>1, <2>3
<1>4. CASE Send
  <2>0. pc = "send" /\ UNCHANGED <<kind, dev, ran, conn>>
    BY <1>4 DEF Send
  <2>1. CASE ch.up /\ pc' = "read" /\ \E n \in Reach : ch' = Writes(Drained(n), call.id, call.line)
    <3>1. PICK n \in Reach : ch' = Writes(Drained(n), call.id, call.line)
      BY <2>1
    <3>2. /\ ch'.up = ch.up /\ IsSeq(ch'.out) /\ (ch.behind => ch'.behind)
          /\ ~ch'.behind => ch'.out = <<>> /\ (dev.stalled \/ ~ch.up \/ ch.line = <<>>)
          /\ \/ ch'.line = ch.line
             \/ ch'.line = Append(ch.line, Line(call.id, call.line)) /\ (ch'.behind \/ ch.line = <<>>)
      BY <1>2, <2>1, <3>1
    <3> QED
      BY <2>0, <2>1, <3>2
  <2>2. CASE (\E n \in Reach : ch' = Drained(n)) /\ \E r : Finishes(r, <<>>)
    <3>1. pc' # "read" /\ call'.body = <<>>
      BY <2>0, <2>2, FinishesStays DEF Shape, SendThens, Chan
    <3>2. /\ ch'.up = ch.up /\ IsSeq(ch'.out) /\ (ch.behind => ch'.behind) /\ ch'.line = ch.line
          /\ ~ch'.behind => ch'.out = <<>> /\ (dev.stalled \/ ~ch.up \/ ch.line = <<>>)
      BY <1>1, <2>2
    <3> QED
      BY <2>0, <3>1, <3>2
  <2> QED
    BY <1>4, <2>1, <2>2 DEF Send, At
<1>5. CASE ReadPrompt \/ ReadFails
  <2>1. pc = "read" /\ UNCHANGED <<kind, dev, ran, conn>>
    BY <1>5 DEF ReadPrompt, ReadFails
  <2> DEFINE From(b) == \A i \in DOMAIN b : \E j \in DOMAIN ch.out : b[i] = ch.out[j]
  <2>2. From(<<>>) /\ From(ch.out)
    BY NoneSeq
  <2>3. Len(ch.out) \in Nat
    BY SMTT(60) DEF IsSeq
  <2>4. ASSUME NEW k \in 1..Len(ch.out)
        PROVE  /\ From(SubSeq(ch.out, 1, k - 1)) /\ From(SubSeq(ch.out, 1, k))
               /\ IsSeq(SubSeq(ch.out, k + 1, Len(ch.out)))
    <3>1. /\ 1 \in 1..(Len(ch.out) + 1) /\ k - 1 \in 0..Len(ch.out) /\ k \in 0..Len(ch.out)
          /\ k + 1 \in 1..(Len(ch.out) + 1) /\ Len(ch.out) \in 0..Len(ch.out)
      BY <2>3, SMTT(60)
    <3> QED
      BY <3>1, CutSeq, ZenonT(60)
  <2> HIDE DEF From
  <2>5. \E r, b : Finishes(r, b) /\ From(b)
    BY <1>5, <2>2, <2>4 DEF ReadPrompt, ReadFails
  <2>6. \/ ch' = ch \/ ch' = Emptied
        \/ \E k \in 1..Len(ch.out) : ch' = [ch EXCEPT !.out = SubSeq(@, k + 1, Len(@))]
    BY <1>5 DEF ReadPrompt, ReadFails
  <2>7. ch'.up = ch.up /\ IsSeq(ch'.out) /\ ch'.line = ch.line /\ ch'.behind = ch.behind
    <3>1. CASE ch' = Emptied
      BY <1>0, <3>1 DEF Emptied, Waited, NoChannel
    <3> QED
      BY <1>0, <2>4, <2>6, <3>1 DEF NoChannel
  <2>8. From(call'.body) /\ pc' # "read"
    BY <2>1, <2>5, FinishesStays DEF Shape, SendThens, Chan
  <2> QED
    BY <2>1, <2>7, <2>8 DEF From
<1>6. CASE Learn \/ Probe1 \/ Probe2
  <2>1. /\ pc \in {"learn", "probe1", "probe2"} /\ UNCHANGED <<kind, dev, ran>>
        /\ \E n \in Reach : ch' = Drained(n) \/ (ch.up /\ ch' = Writes(Drained(n), 0, ""))
        /\ conn' = conn \/ \E p : conn' = [conn EXCEPT !.prompt = p]
    BY <1>6 DEF Learn, Probe1, Probe2
  <2> DEFINE nl == ""
  <2>2. nl \in JunosLines \ Weighty
    BY DEF JunosLines, Weighty
  <2>3. PICK n \in Reach : ch' = Drained(n) \/ (ch.up /\ ch' = Writes(Drained(n), 0, nl))
    BY <2>1
  <2> HIDE DEF nl
  <2>4. /\ ch'.up = ch.up /\ IsSeq(ch'.out) /\ (ch.behind => ch'.behind)
        /\ ~ch'.behind => ch'.out = <<>>
        /\ \/ ch'.line = ch.line
           \/ ch'.line = Append(ch.line, Line(0, nl)) /\ (ch'.behind \/ ch.line = <<>>)
    BY <1>1, <1>2, <2>3, ZenonT(60)
  <2>5. conn'.check_ok = conn.check_ok /\ conn'.connected = conn.connected
    BY <1>0, <2>1 DEF NoConn
  <2> QED
    BY <2>1, <2>2, <2>4, <2>5, ZenonT(60)
<1> QED
  BY <1>4, <1>5, <1>6 DEF ChannelStep

(* One line on a wire that was empty. *)
LEMMA FirstLine ==
    ASSUME NEW id, NEW w, ch'.line = Append(<<>>, Line(id, w))
    PROVE  \A i \in DOMAIN ch'.line : i = 1 /\ ch'.line[i].word = w
<1>1. Len(<<>>) = 0 /\ 0 + 1 = 1 /\ 1..0 = {}
  BY SMTT(60)
<1> DEFINE e == Line(id, w)
<1>2. e.word = w
  BY DEF Line
<1> HIDE DEF e
<1>3. DOMAIN Append(<<>>, e) = 1..1 /\ Append(<<>>, e)[1] = e
  BY <1>1, NoneSeq, AppendSeq, SMTT(60)
<1>4. DOMAIN ch'.line = 1..1 /\ ch'.line[1] = e
  BY <1>3 DEF e
<1> QED
  BY <1>2, <1>4, SMTT(60)

LEMMA ChannelGate ==
    ASSUME Shape, Lines, Sane, Gate, ChannelStep
    PROVE  Sane' /\ Gate'
<1>0. Stays /\ IsSeq(ch.out)
  BY ChannelStays DEF Sane
<1>1. /\ Place' = Place /\ pc' \notin {"send", "junos.start"} /\ UNCHANGED dev
      /\ ch'.up = ch.up /\ (ch.behind => ch'.behind)
      /\ call'.cmd = call.cmd /\ call'.again = call.again
      /\ conn'.check_ok = conn.check_ok /\ conn'.connected = conn.connected
  <2>1. Place' = Place /\ pc' \notin {"send", "junos.start"}
    BY <1>0 DEF Stays, Place, Shape, Chan, SendThens, LearnThens
  <2> QED
    BY <1>0, <2>1, ChannelWire DEF Stays
<1>2. ASSUME ch'.line # ch.line
      PROVE  \E w \in JunosLines :
                /\ \A i \in DOMAIN ch'.line : \/ i \in DOMAIN ch.line /\ ch'.line[i] = ch.line[i]
                                             \/ ch'.line[i].word = w
                /\ ch'.behind \/ (ch.line = <<>> /\ \A i \in DOMAIN ch'.line : i = 1 /\ ch'.line[i].word = w)
                /\ IF pc = "send" THEN w = call.line ELSE w \notin Weighty
  <2>1. PICK id, w : /\ ch'.line = Append(ch.line, Line(id, w))
                     /\ ch'.behind \/ ch.line = <<>>
                     /\ IF pc = "send" THEN w = call.line ELSE w \in JunosLines \ Weighty
    BY <1>0, <1>2, ChannelWire
  <2>2. w \in JunosLines
    BY <2>1 DEF Sane
  <2>3. \A i \in DOMAIN ch'.line : \/ i \in DOMAIN ch.line /\ ch'.line[i] = ch.line[i]
                                   \/ ch'.line[i].word = w
    BY <2>1, AppendSeq, LinesAre, SMTT(60) DEF Line
  <2>4. ch.line = <<>> => \A i \in DOMAIN ch'.line : i = 1 /\ ch'.line[i].word = w
    BY <2>1, FirstLine
  <2> QED
    BY <2>1, <2>2, <2>3, <2>4
<1>3. Sane'
  <2>1. \A i \in DOMAIN ch'.line : ch'.line[i].word \in JunosLines
    BY <1>2 DEF Sane
  <2> QED
    BY <1>0, <1>1, <2>1, ChannelWire DEF Sane
<1>4. pc = "send" => Place \in Handling
  BY DEF Sane, Shape, SendThens, Place, Chan, JunosPlaces, Handling
<1>5. Checking' => Checking /\ pc \in {"send", "read"}
  BY <1>0, <1>1 DEF Checking, Shape, Place, LearnThens, Chan, Stays
<1>a. /\ (Place \in {"up", "junos.refuse", "junos.refused"} => ~conn.check_ok)'
      /\ (Place \in Handling /\ call.cmd = "configure" => ~conn.check_ok)'
      /\ (pc \in {"junos.start", "send"} /\ call.cmd = "commit" => conn.connected /\ conn.check_ok)'
  <2>1. (Place \in {"up", "junos.refuse", "junos.refused"} => ~conn.check_ok)'
    BY <1>1 DEF Gate
  <2>2. (Place \in Handling /\ call.cmd = "configure" => ~conn.check_ok)'
    BY <1>1 DEF Gate
  <2> QED
    BY <1>1, <2>1, <2>2
<1>6. CASE Blind'
  BY <1>3, <1>a, <1>6 DEF Gate
<1>7. CASE ~Blind'
  <2>1. ~Blind /\ ~ch'.behind
    BY <1>1, <1>7 DEF Blind
  <2>2. \A i \in DOMAIN ch'.line : ch'.line[i].word = "commit" => i = 1 /\ dev.passed
    <3>1. CASE ch'.line = ch.line
      BY <2>1, <3>1 DEF Gate
    <3>2. ASSUME ch'.line # ch.line, NEW i \in DOMAIN ch'.line, ch'.line[i].word = "commit"
          PROVE  i = 1 /\ dev.passed
      <4>1. pc = "send" /\ call.line = "commit" /\ i = 1
        BY <1>2, <2>1, <3>2 DEF Weighty
      <4>2. call.cmd = "commit"
        BY <4>1 DEF Sane, Weighty
      <4>3. conn.connected /\ conn.check_ok /\ ~Undoing
        BY <4>1, <4>2 DEF Gate, Undoing
      <4> QED
        BY <2>1, <4>1, <4>3 DEF Gate
    <3> QED
      BY <3>1, <3>2
  <2>3. (Checking /\ pc # "send" => \A i \in DOMAIN ch.line : ch.line[i].word = "check")'
    <3>1. CASE pc = "read"
      BY <1>0, <1>1, <1>5, <2>1, <3>1, ChannelWire DEF Gate
    <3>2. CASE pc = "send" /\ Checking
      <4>1. ch.line = <<>>
        BY <1>0, <2>1, <3>2, ChannelWire DEF Blind
      <4>2. call.line = "check"
        BY <3>2 DEF Checking, Sane, Weighty
      <4> QED
        BY <1>2, <2>1, <3>2, <4>1, <4>2, NoneSeq
    <3> QED
      BY <1>5, <3>1, <3>2
  <2>4. (~(Checking /\ pc = "read" /\ Passed(ch.out)))'
    BY <1>0, <2>1, ChannelWire, NoneSeq DEF Passed
  <2>5. (Checking /\ pc = "junos.ran" /\ Passed(call.body) => dev.passed)'
    <3>1. CASE pc = "read"
      BY <1>0, <1>1, <1>5, <2>1, <3>1, ChannelWire DEF Passed, Gate
    <3>2. CASE pc = "send"
      BY <1>0, <1>5, <3>2, ChannelWire, NoneSeq DEF Passed
    <3> QED
      BY <1>5, <3>1, <3>2
  <2>6. ASSUME conn.check_ok, conn.connected, ~Undoing
        PROVE  dev.passed /\ ~Flies("rollback")' /\ ~Flies("configure")'
    <3>1. dev.passed /\ ~Flies("rollback") /\ ~Flies("configure")
      BY <2>1, <2>6 DEF Gate
    <3>2. CASE ch'.line = ch.line
      BY <3>1, <3>2 DEF Flies
    <3>3. ASSUME ch'.line # ch.line, NEW w \in {"rollback", "configure"}, Flies(w)' PROVE FALSE
      <4>1. pc = "send" /\ call.line = w
        BY <1>2, <2>1, <3>3 DEF Flies, Weighty
      <4>2. call.cmd = w
        BY <4>1 DEF Sane, Weighty
      <4> QED
        BY <1>4, <2>6, <4>1, <4>2 DEF Undoing, Gate
    <3> QED
      BY <3>1, <3>2, <3>3
  <2>7. Undoing' = Undoing
    BY <1>1 DEF Undoing
  <2> QED
    <3>1. (conn.check_ok /\ conn.connected /\ ~Undoing =>
              Blind \/ (dev.passed /\ ~Flies("rollback") /\ ~Flies("configure")))'
      BY <1>1, <2>6, <2>7
    <3> QED
      BY <1>3, <1>a, <1>1, <2>2, <2>3, <2>4, <2>5, <3>1 DEF Gate
<1> QED
  BY <1>3, <1>6, <1>7

(* The device runs the first line: a commit only on a candidate it has
   checked, or for a driver that is behind. *)
LEMMA DeviceGate ==
    ASSUME kind = "junos", Lines, Sane, Gate, CommitFollowsCheck, DeviceStep
    PROVE  Sane' /\ Gate' /\ CommitFollowsCheck'
<1> DEFINE l == Head(ch.line)
           n == Len(ch.line)
<1>1. /\ UNCHANGED <<conn, pc, call>> /\ ch.up /\ ~dev.stalled /\ ch.line # <<>>
      /\ ran' = IF OwnLine(l) THEN [Since(l.id) EXCEPT ![l.id] = Append(@, Ran(l.word))] ELSE ran
      /\ \E a \in Answers(l.word) :
            /\ dev' = a.dev
            /\ ch' = [ch EXCEPT !.line = Tail(@),
                                !.out = @ \o [i \in DOMAIN a.out |-> Item(l.id, a.out[i])]]
  BY DEF DeviceStep
<1>2. /\ n \in Nat /\ n > 0 /\ DOMAIN ch.line = 1..n /\ l = ch.line[1]
      /\ DOMAIN Tail(ch.line) = 1..(n - 1)
      /\ \A i \in 1..(n - 1) : Tail(ch.line)[i] = ch.line[i + 1]
  BY <1>1, TailSeq, LinesAre
<1>3. PICK a \in Answers(l.word) :
         /\ dev' = a.dev
         /\ ch' = [ch EXCEPT !.line = Tail(@),
                             !.out = @ \o [i \in DOMAIN a.out |-> Item(l.id, a.out[i])]]
  BY <1>1, ZenonT(60)
<1> DEFINE said == [i \in DOMAIN a.out |-> Item(l.id, a.out[i])]
<1>4. ch'.up = ch.up /\ ch'.line = Tail(ch.line) /\ ch'.out = ch.out \o said /\ ch'.behind = ch.behind
  BY <1>3, LinesAre DEF NoChannel
<1>5. /\ 1 \in DOMAIN ch.line
      /\ \A i \in DOMAIN ch'.line : i + 1 \in DOMAIN ch.line /\ i + 1 # 1 /\ ch'.line[i] = ch.line[i + 1]
  BY <1>2, <1>4, SMTT(60)
<1> HIDE DEF l, n
<1>6. l.word \in JunosLines /\ dev \in Devices
  BY <1>2, <1>5 DEF Sane
<1>7. /\ dev' \in Devices /\ dev'.stalled = dev.stalled /\ IsSeq(a.out)
      /\ l.word \notin {"configure", "rollback"} => dev'.passed = dev.passed \/ dev'.passed
      /\ \A i \in DOMAIN a.out : a.out[i] = "okcheck" => dev'.passed
  BY <1>3, <1>6, JunosAnswers
<1>8. /\ IsSeq(said) /\ \A i \in DOMAIN said : said[i].what = "okcheck" => dev'.passed
  <2>1. PICK S : a.out \in Seq(S)
    BY <1>7 DEF IsSeq
  <2>2. said \in Seq([id : {l.id}, what : S])
    <3>1. PICK m \in Nat : DOMAIN a.out = 1..m /\ \A i \in 1..m : a.out[i] \in S
      BY <2>1, SMTT(60)
    <3> QED
      BY <3>1, SMTT(60) DEF Item
  <2>3. DOMAIN said = DOMAIN a.out /\ \A i \in DOMAIN said : said[i].what = a.out[i]
    BY DEF Item
  <2> QED
    BY <1>7, <2>2, <2>3 DEF IsSeq
<1> HIDE DEF said
<1>9. /\ IsSeq(ch'.out)
      /\ Passed(ch'.out) => Passed(ch.out) \/ dev'.passed
  BY <1>4, <1>8, JoinSeq, SMTT(60) DEF Sane, Passed
<1>10. Place' = Place /\ Undoing' = Undoing /\ Checking' = Checking /\ (Blind <=> ch.behind) /\ (Blind' <=> ch.behind)
  <2>1. Place' = Place /\ Undoing' = Undoing /\ Checking' = Checking
    BY <1>1 DEF Place, Undoing, Checking
  <2>2. (Blind <=> ch.behind) /\ (Blind' <=> ch.behind)
    BY <1>1, <1>4, <1>7 DEF Blind
  <2> QED
    BY <2>1, <2>2
<1>11. Sane'
  BY <1>1, <1>5, <1>7, <1>9, <1>10 DEF Sane
<1>12. \A i \in DOMAIN ch'.line : ch'.line[i].word = "commit" => ch.behind
  BY <1>5, <1>10 DEF Gate
<1>13. (Checking /\ pc # "send" => Blind \/ \A i \in DOMAIN ch.line : ch.line[i].word = "check")'
  BY <1>1, <1>5, <1>10, SMTT(60) DEF Gate
<1>14. Checking /\ pc # "send" => ch.behind \/ l.word = "check"
  BY <1>2, <1>5, <1>10 DEF Gate
<1>15. (Checking /\ pc = "read" /\ Passed(ch.out) => Blind \/ dev.passed)'
  BY <1>1, <1>7, <1>9, <1>10, <1>14 DEF Gate
<1>16. (Checking /\ pc = "junos.ran" /\ Passed(call.body) => Blind \/ dev.passed)'
  BY <1>1, <1>7, <1>10, <1>14 DEF Gate
<1>17. (conn.check_ok /\ conn.connected /\ ~Undoing =>
           Blind \/ (dev.passed /\ ~Flies("rollback") /\ ~Flies("configure")))'
  <2> SUFFICES ASSUME conn.check_ok, conn.connected, ~Undoing, ~ch.behind
               PROVE  dev'.passed /\ ~Flies("rollback")' /\ ~Flies("configure")'
    BY <1>1, <1>10
  <2>1. dev.passed /\ ~Flies("rollback") /\ ~Flies("configure")
    BY <1>10 DEF Gate
  <2>2. l.word \notin {"configure", "rollback"}
    BY <1>2, <1>5, <2>1 DEF Flies
  <2>3. \A w : Flies(w)' => Flies(w)
    BY <1>5 DEF Flies
  <2> QED
    BY <1>7, <2>1, <2>2, <2>3
<1>18. Gate'
  BY <1>1, <1>10, <1>12, <1>13, <1>15, <1>16, <1>17 DEF Gate
<1>19. CommitFollowsCheck'
  <2>1. l.word = "commit" => dev.passed \/ ch.behind
    BY <1>2, <1>5, <1>10 DEF Gate
  <2>2. CASE ~OwnLine(l)
    BY <1>1, <2>2 DEF CommitFollowsCheck
  <2>3. CASE OwnLine(l)
    <3> DEFINE e == Ran(l.word)
    <3>1. e[1] = "commit" => e[2]
      BY <2>1, ZenonT(60) DEF Ran
    <3> HIDE DEF e
    <3>2. l.id \in Calls
      BY <2>3 DEF OwnLine
    <3>3. /\ \A c \in Calls : c # l.id => ran'[c] = <<>> \/ ran'[c] = ran[c]
          /\ ran'[l.id] = Append(ran[l.id], e)
      BY <1>1, <2>3, <3>2, SMTT(60) DEF Since, Calls, Lines, e
    <3>4. \A i \in DOMAIN ran'[l.id] : \/ i \in DOMAIN ran[l.id] /\ ran'[l.id][i] = ran[l.id][i]
                                       \/ ran'[l.id][i] = e
      BY <3>2, <3>3, AppendSeq, LinesAre, SMTT(60)
    <3>5. \A i \in DOMAIN ran'[l.id] : ran'[l.id][i][1] = "commit" => ran'[l.id][i][2]
      BY <3>1, <3>2, <3>4 DEF CommitFollowsCheck
    <3> QED
      BY <3>3, <3>5, NoneSeq DEF CommitFollowsCheck
  <2> QED
    BY <2>2, <2>3
<1> QED
  BY <1>11, <1>18, <1>19

LEMMA EnvironmentGate ==
    ASSUME kind = "junos", Lines, Sane, Gate, CommitFollowsCheck, Environment
    PROVE  Sane' /\ Gate' /\ CommitFollowsCheck'
<1>0. DOMAIN ch = DOMAIN NoChannel /\ dev \in Devices
  BY DEF Lines, Sane
<1>1. CASE Log \/ Stall \/ PeerCloses
  <2>1. /\ UNCHANGED <<conn, pc, call, ran>> /\ (Blind => Blind')
        /\ dev' \in Devices /\ dev'.passed = dev.passed
    BY <1>0, <1>1 DEF Log, Stall, PeerCloses, Blind, Devices, NoChannel
  <2>2. /\ ch'.line = ch.line \/ ch'.line = <<>>
        /\ IsSeq(ch'.out) /\ (Passed(ch'.out) => Passed(ch.out))
    <3>1. CASE Stall \/ PeerCloses
      BY <1>0, <3>1 DEF Stall, PeerCloses, NoChannel, Sane
    <3>2. CASE Log
      <4> DEFINE e == Item(0, "log")
      <4>1. ch'.line = ch.line /\ ch'.out = Append(ch.out, e) /\ e.what # "okcheck"
        BY <1>0, <3>2 DEF Log, NoChannel, Item
      <4> HIDE DEF e
      <4> QED
        BY <4>1, AppendSeq, SMTT(60) DEF Sane, Passed
    <3> QED
      BY <1>1, <3>1, <3>2
  <2>3. Place' = Place /\ Undoing' = Undoing /\ Checking' = Checking
    BY <2>1 DEF Place, Undoing, Checking
  <2>4. \A w : Flies(w)' => Flies(w)
    BY <2>2, NoneSeq DEF Flies
  <2>5. Sane'
    BY <2>1, <2>2, <2>3, NoneSeq DEF Sane
  <2>6. Gate'
    BY <2>1, <2>2, <2>3, <2>4, NoneSeq DEF Gate
  <2> QED
    BY <2>1, <2>5, <2>6 DEF CommitFollowsCheck
<1> QED
  BY <1>1, DeviceGate DEF Environment

(* A step that says and runs nothing, after which the flag stands for no more
   than it did. *)
LEMMA GateKept ==
    ASSUME Lines, Sane, Gate, UNCHANGED <<dev, ch>>, Sane',
           conn'.check_ok /\ conn'.connected /\ ~Undoing' => conn.check_ok /\ conn.connected /\ ~Undoing,
           pc' # "send", ~Checking',
           Place' \in {"up", "junos.refuse", "junos.refused"} => ~conn'.check_ok,
           Place' \in Handling /\ call'.cmd = "configure" => ~conn'.check_ok,
           pc' = "junos.start" /\ call'.cmd = "commit" => conn'.connected /\ conn'.check_ok
    PROVE  Gate'
<1>1. Blind' = Blind /\ \A w : Flies(w)' = Flies(w)
  BY DEF Blind, Flies
<1> QED
  BY <1>1 DEF Gate

LEMMA ConnectGate ==
    ASSUME kind = "junos", kind' = kind, Shape, Lines, Sane, Gate,
           Connect \/ LoginNext \/ Disconnect \/ Greeted \/ Connected \/ Enabled_ \/ Up
    PROVE  Sane' /\ Gate' /\ ran' = ran
<1> USE DEF At, Same, counters, threads
<1>0. ~call.again /\ dev \in Devices /\ IsSeq(ch.out) /\ Place \in JunosPlaces /\ IsSeq(<<>>)
  BY NoneSeq DEF Sane
<1>1. CASE Connect \/ LoginNext
  <2>1. UNCHANGED <<dev, ch, conn, ran>> /\ pc \in {"idle", "login"}
    BY <1>1 DEF Connect, LoginNext, LoginStep, Handshake, VerifyHostKey, Authenticate
  <2>2. pc' \in {"idle", "login", "greeted"} /\ ~call'.again
    <3>1. CASE Connect
      BY <3>1 DEF Connect, NoCall
    <3>2. CASE LoginNext
      <4>1. call' = call /\ \E l : Advances(l) \/ Fails(l)
        BY <3>2, LoginCases
      <4> QED
        BY <1>0, <4>1 DEF Advances, Fails
    <3> QED
      BY <1>1, <3>1, <3>2
  <2>3. Place' = pc' /\ ~Undoing
    BY <2>1, <2>2 DEF Place, Chan, Undoing, Handling
  <2>4. Sane'
    BY <2>1, <2>2, <2>3 DEF Sane, JunosPlaces, Handling
  <2> QED
    BY <2>1, <2>2, <2>3, <2>4, GateKept DEF Checking, Handling
<1>2. ASSUME dev' \in Devices, IsSeq(ch'.out), ~call'.again, ran' = ran, ~conn'.check_ok,
             Place' \in {"idle", "up"}, pc' # "send",
             \A i \in DOMAIN ch'.line : ch'.line[i].word \in JunosLines \ Weighty
      PROVE  Sane' /\ Gate'
  <2>1. Sane'
    BY <1>2 DEF Sane, JunosPlaces, Handling
  <2>2. Gate'
    BY <1>2 DEF Gate, Checking, Handling, Weighty, Place, Chan
  <2> QED
    BY <2>1, <2>2
<1>3. CASE Disconnect
  <2>1. /\ dev' = dev /\ ch' = NoChannel /\ call' = call /\ ran' = ran /\ conn' = NoConn /\ pc' = "idle"
    BY <1>3 DEF Disconnect
  <2>2. Place' = "idle"
    BY <2>1 DEF Place, Chan
  <2> QED
    BY <1>0, <1>2, <2>1, <2>2, NoneSeq DEF NoChannel, NoConn
<1>4. CASE Greeted
  <2>1. PICK mode \in {"exec"}, words \in Setup :
           /\ ch' = [up |-> TRUE, line |-> [i \in DOMAIN words |-> Line(0, words[i])],
                     out |-> <<Item(0, mode)>>, behind |-> FALSE, late |-> 0]
           /\ dev' = [mode |-> mode, stalled |-> FALSE, passed |-> FALSE]
    BY <1>4 DEF Greeted
  <2>2. dev' \in Devices
    BY <2>1 DEF Devices, Modes
  <2>3. IsSeq(ch'.out)
    <3>1. <<Item(0, mode)>> \in Seq({Item(0, mode)})
      BY SMTT(60)
    <3> QED
      BY <2>1, <3>1 DEF IsSeq
  <2>4. \A i \in DOMAIN words : words[i] = "pager"
    <3>1. words = <<"pager">>
      BY DEF Setup, JunosSetup
    <3> QED
      BY <3>1, SMTT(60)
  <2>5. "pager" \in JunosLines \ Weighty
    BY DEF JunosLines, Weighty
  <2>6. \A i \in DOMAIN ch'.line : ch'.line[i].word \in JunosLines \ Weighty
    <3>1. DOMAIN ch'.line = DOMAIN words /\ \A i \in DOMAIN words : ch'.line[i].word = words[i]
      BY <2>1 DEF Line
    <3> QED
      BY <2>4, <2>5, <3>1
  <2>7. conn' = NoConn /\ ran' = ran /\ pc' = "learn" /\ call'.then = "up" /\ ~call'.again
    BY <1>0, <1>4 DEF Greeted, Shape, NoCall
  <2>8. Place' = "up" /\ ~conn'.check_ok
    BY <2>7 DEF Place, Chan, NoConn
  <2> QED
    BY <1>2, <2>2, <2>3, <2>6, <2>7, <2>8
<1>5. CASE Connected
  <2>1. pc = "up" /\ ~conn.check_ok /\ dev' = dev /\ ran' = ran
    BY <1>0, <1>5 DEF Connected, JunosPlaces, Handling, Place, Chan, Gate
  <2>2. \/ ch' = NoChannel /\ conn' = NoConn
        \/ ch' = ch /\ conn' = [Settled EXCEPT !.connected = TRUE]
    BY <1>5 DEF Connected, NotConnected
  <2>3. call' = NoCall /\ pc' = "idle" /\ Place' = "idle"
    BY <1>5 DEF Connected, NotConnected, Place, Chan
  <2>4. ~conn'.check_ok /\ ~call'.again
    <3>1. DOMAIN conn = DOMAIN NoConn
      BY DEF Shape
    <3>2. conn' = [Settled EXCEPT !.connected = TRUE] => conn'.check_ok = conn.check_ok
      BY <3>1 DEF Settled, NoConn
    <3>3. ~NoConn.check_ok /\ ~NoCall.again
      BY DEF NoConn, NoCall
    <3> QED
      BY <2>1, <2>2, <2>3, <3>2, <3>3
  <2>5. CASE ch' = NoChannel
    BY <1>0, <1>2, <2>1, <2>3, <2>4, <2>5, NoneSeq DEF NoChannel
  <2>6. CASE ch' = ch
    <3>1. Sane'
      BY <2>1, <2>3, <2>4, <2>6 DEF Sane, JunosPlaces, Handling
    <3> QED
      BY <2>1, <2>3, <2>4, <2>6, <3>1, GateKept DEF Checking, Handling
  <2> QED
    BY <2>2, <2>5, <2>6
<1>6. CASE Enabled_ \/ Up
  BY <1>0, <1>6 DEF Enabled_, Up, ExecKinds, ShellKinds, JunosPlaces, Handling, Place, Chan
<1> QED
  BY <1>1, <1>2, <1>3, <1>4, <1>5, <1>6

(* The steps of the other drivers are not JunOS's. *)
LEMMA OthersAway ==
    ASSUME kind = "junos", Place \in JunosPlaces, Holds,
           CiscoNext \/ AsaNext \/ PanosNext \/ ExecNext
    PROVE  FALSE
<1>0. pc \in JunosPlaces \cup Chan
  BY DEF Place
<1> USE DEF JunosPlaces, Handling, Chan
<1>1. CASE CiscoNext
  BY <1>0, <1>1, ZenonT(60) DEF CiscoNext, CiscoExecute, CiscoStart, CiscoReconnect, CiscoAgain, CiscoConfirm, CiscoRebooted,
     CiscoModeChanged, CiscoRan, CiscoMoved, CiscoStepMoved, CiscoStep
<1>2. CASE AsaNext
  BY <1>0, <1>2 DEF AsaNext, AsaExecute, AsaStart, AsaVerified, AsaRan
<1>3. CASE PanosNext
  <2>1. keepalive \notin {"warm", "sleep"}
    BY DEF Holds
  <2> QED
    BY <1>0, <1>3, <2>1, ZenonT(60) DEF PanosNext, PanosExecute, PanosLocked, PanosReady, PanosRan, Keepalive, Kept
<1>4. CASE ExecNext
  <2>1. CASE Up \/ LinuxNext \/ FgNext
    BY <1>0, <2>1 DEF Up, ExecKinds, ShellKinds, LinuxNext, LinuxExecute, LinuxOpen, LinuxExec, LinuxRead,
       FgNext, FgExecute, FgShell, FgRead
  <2>2. CASE RestNext
    BY <1>0, <2>2 DEF RestNext, PbsExecute, ZammadExecute, LibrenmsExecute, WazuhExecute, Gns3Execute, MockExecute,
       PbsRequest, ZammadRequest, LibrenmsRequest, WazuhToken, WazuhRequest, Gns3Request, MockReply, MockHealth
  <2> QED
    BY <1>4, <2>1, <2>2 DEF ExecNext
<1> QED
  BY <1>1, <1>2, <1>3, <1>4

(* A rollback is on its way and the flag is down. *)
LEMMA GateBack ==
    ASSUME Lines, Sane, Gate, dev' = dev, ch'.up = ch.up,
           ch.behind => ch'.behind,
           ch'.line = ch.line \/ ch'.line = Append(ch.line, Line(0, "rollback")),
           ~conn'.check_ok, pc' \notin {"send", "junos.start"}, ~Checking'
    PROVE  Gate'
<1>1. \A i \in DOMAIN ch'.line : \/ i \in DOMAIN ch.line /\ ch'.line[i] = ch.line[i]
                                 \/ ch'.line[i].word = "rollback"
  BY AppendSeq, LinesAre, SMTT(60) DEF Line
<1>2. Blind => Blind'
  BY DEF Blind
<1> QED
  BY <1>1, <1>2 DEF Gate

LEMMA RollsBackLine ==
    ASSUME Lines, NEW c, DOMAIN c = DOMAIN NoChannel, c.line = ch.line, c.up = ch.up, ch' = RollsBack(c)
    PROVE  /\ ch'.up = ch.up /\ ch'.out = c.out /\ ch'.behind = c.behind
           /\ ch'.line = ch.line \/ ch'.line = Append(ch.line, Line(0, "rollback"))
BY DEF RollsBack, Writes, NoChannel

LEMMA RollsBackWords ==
    ASSUME Lines, Sane, ch'.line = ch.line \/ ch'.line = Append(ch.line, Line(0, "rollback"))
    PROVE  \A i \in DOMAIN ch'.line : ch'.line[i].word \in JunosLines
<1>1. "rollback" \in JunosLines
  BY DEF JunosLines, JunosCommands
<1>2. \A i \in DOMAIN ch'.line : \/ i \in DOMAIN ch.line /\ ch'.line[i] = ch.line[i]
                                 \/ ch'.line[i].word = "rollback"
  BY AppendSeq, LinesAre, SMTT(60) DEF Line
<1> QED
  BY <1>1, <1>2 DEF Sane

LEMMA JunosGate ==
    ASSUME kind = "junos", Flow, Lines, Sane, Gate, JunosNext
    PROVE  Sane' /\ Gate' /\ ran' = ran
<1> USE DEF At, Same, counters, threads
<1>0. /\ Shape /\ DOMAIN conn = DOMAIN NoConn /\ UNCHANGED <<dev, ran>> /\ dev \in Devices
      /\ ~call.again /\ IsSeq(ch.out)
  <2>1. UNCHANGED <<dev, ran>>
    BY DEF JunosNext, JunosExecute, JunosStart, JunosRefuse, JunosRefused, JunosMoved, JunosRan
  <2> QED
    BY <2>1 DEF Flow, Shape, Sane
<1>1. ASSUME NEW cmd \in Commands, JunosExecute(cmd) PROVE Sane' /\ Gate'
  <2>1. cmd \in JunosCommands
    BY DEF Commands, JunosCommands
  <2>2. pc = "idle" /\ call'.cmd = cmd /\ ~call'.again
    BY <1>1, Beginning DEF JunosExecute
  <2>3. /\ Place = "idle" /\ ~Undoing
        /\ conn'.connected = conn.connected
        /\ conn'.check_ok => conn.check_ok
        /\ conn.connected /\ cmd = "configure" => ~conn'.check_ok
        /\ cmd = "commit" => conn' = conn
    BY <1>0, <1>1, <2>2 DEF JunosExecute, Place, Chan, Undoing, Handling, NoConn
  <2>4. CASE ch' = RollsBack(ch) /\ pc' = "junos.refuse" /\ ~conn.check_ok
    <3>1. Place' = "junos.refuse"
      BY <2>4 DEF Place, Chan
    <3>2. /\ ch'.up = ch.up /\ ch'.out = ch.out /\ ch'.behind = ch.behind
          /\ ch'.line = ch.line \/ ch'.line = Append(ch.line, Line(0, "rollback"))
      <4>1. DOMAIN ch = DOMAIN NoChannel
        BY DEF Lines
      <4> QED
        BY <2>4, <4>1, RollsBackLine
    <3>3. Sane'
      BY <1>0, <2>1, <2>2, <2>4, <3>1, <3>2, RollsBackWords DEF Sane, JunosPlaces, Handling
    <3>4. Gate'
      BY <1>0, <2>3, <2>4, <3>1, <3>2, GateBack DEF Checking
    <3> QED
      BY <3>3, <3>4
  <2>5. CASE /\ ch' = ch
             /\ \/ pc' = "idle"
                \/ pc' = "junos.start" /\ conn.connected /\ (cmd = "commit" => conn.check_ok)
    <3>1. Place' = pc' /\ ~Checking'
      BY <2>5 DEF Place, Chan, Checking
    <3>2. Sane'
      BY <1>0, <2>1, <2>2, <2>5, <3>1 DEF Sane, JunosPlaces, Handling
    <3>3. Gate'
      BY <1>0, <2>2, <2>3, <2>5, <3>1, <3>2, GateKept DEF Handling
    <3> QED
      BY <3>2, <3>3
  <2> QED
    BY <1>1, <2>4, <2>5 DEF JunosExecute, Return, CommitAllowed
<1>2. CASE JunosStart
  <2>1. /\ pc = "junos.start" /\ Place = "junos.start" /\ UNCHANGED <<ch, conn>>
        /\ pc' = "send" /\ call'.then = "junos.ran" /\ call'.cmd = call.cmd /\ call'.again = call.again
    BY <1>0, <1>2, SendsCall DEF JunosStart, Place, Chan
  <2>2. \/ call'.line = call.cmd
        \/ call'.line \in JunosLines \ Weighty /\ call.cmd = "show"
    <3> DEFINE run == "run show"
               line == IF call.cmd = "show" /\ conn.mode = "config" THEN run ELSE call.cmd
    <3>1. run \in JunosLines \ Weighty
      BY DEF JunosLines, Weighty
    <3>2. Sends(line, "junos.ran")
      BY <1>2 DEF JunosStart
    <3> HIDE DEF run
    <3> QED
      BY <1>0, <3>1, <3>2, SendsCall
  <2>3. Place' = "junos.ran" /\ Undoing' = Undoing /\ Blind' = Blind /\ \A w : Flies(w)' = Flies(w)
    BY <1>0, <2>1 DEF Place, Chan, Undoing, Handling, Blind, Flies
  <2>4. call.cmd \in JunosCommands /\ call.cmd \in JunosLines
    <3>1. call.cmd \in JunosCommands
      BY <2>1 DEF Sane, Handling
    <3> QED
      BY <3>1 DEF JunosLines
  <2>5. Sane'
    BY <1>0, <2>1, <2>2, <2>3, <2>4 DEF Sane, JunosPlaces, Handling, Weighty
  <2>6. Gate'
    BY <1>0, <2>1, <2>3 DEF Gate, Handling
  <2> QED
    BY <1>0, <2>5, <2>6
<1>3. CASE JunosRefuse \/ JunosMoved
  <2>1. /\ UNCHANGED <<ch, conn>> /\ Place = pc /\ pc \in Handling
        /\ \/ pc = "junos.refuse" /\ Learns("junos.refused")
           \/ call.cmd \in {"configure", "rollback", "exit"} /\ (Learns("junos.moved") \/ Learns("junos.settled"))
    BY <1>3 DEF JunosRefuse, JunosMoved, JunosModeChanging, Place, Chan, Handling
  <2>2. /\ pc' = "learn" /\ call'.cmd = call.cmd /\ call'.again = call.again
        /\ \/ pc = "junos.refuse" /\ Place' = "junos.refused"
           \/ call.cmd \in {"configure", "rollback", "exit"} /\ Place' \in {"junos.moved", "junos.settled"}
    BY <1>0, <2>1, LearnsCall DEF Place, Chan
  <2>3. Sane'
    BY <1>0, <2>1, <2>2 DEF Sane, JunosPlaces, Handling
  <2>4. /\ Undoing' => Undoing
        /\ Undoing => Undoing'
    BY <2>1, <2>2 DEF Undoing, Handling
  <2>5. Gate'
    <3>1. ~Checking' /\ (Place' \in {"up", "junos.refuse", "junos.refused"} => ~conn'.check_ok)
      BY <2>1, <2>2 DEF Checking, Gate
    <3>2. call'.cmd = "configure" => ~conn'.check_ok
      BY <2>1, <2>2 DEF Gate
    <3> QED
      BY <1>0, <2>1, <2>2, <2>3, <2>4, <3>1, <3>2, GateKept
  <2> QED
    BY <1>0, <2>3, <2>5
<1>4. ASSUME ch' = ch, call' = call, pc' = "idle",
             conn'.check_ok /\ conn'.connected => conn.check_ok /\ conn.connected /\ ~Undoing
      PROVE  Sane' /\ Gate'
  <2>1. Place' = "idle"
    BY <1>4 DEF Place, Chan
  <2>2. Sane'
    BY <1>0, <1>4, <2>1 DEF Sane, JunosPlaces, Handling
  <2> QED
    BY <1>0, <1>4, <2>1, <2>2, GateKept DEF Checking, Handling
<1>5. CASE JunosRefused
  <2>1. ch' = ch /\ call' = call /\ pc' = "idle" /\ conn' = [Settled EXCEPT !.check_ok = FALSE]
    BY <1>5 DEF JunosRefused, Return
  <2>2. ~conn'.check_ok
    BY <1>0, <2>1 DEF Settled, NoConn
  <2> QED
    BY <1>0, <1>4, <2>1, <2>2
<1>6. CASE JunosRan /\ call.rerr # "ok"
  <2>1. ch' = ch /\ call' = call /\ pc' = "idle" /\ conn' = [conn EXCEPT !.connected = FALSE]
    BY <1>6 DEF JunosRan, GivesUp, Return
  <2>2. ~conn'.connected
    BY <1>0, <2>1 DEF NoConn
  <2> QED
    BY <1>0, <1>4, <2>1, <2>2
<1>7. CASE JunosRan /\ call.rerr = "ok"
  <2> DEFINE success == ~Has("err") /\ (call.cmd = "configure" => Mode = "config")
                                    /\ (call.cmd = "check" => Has("okcheck"))
             check_ok == IF call.cmd = "check" THEN Has("okcheck")
                         ELSE conn.check_ok /\ call.cmd # "rollback" /\ ~(call.cmd = "commit" /\ success)
  <2>1. /\ pc \in {"junos.ran", "junos.moved", "junos.settled"}
        /\ conn' = [Settled EXCEPT !.check_ok = check_ok]
        /\ IF call.cmd = "check" /\ ~Has("okcheck")
           THEN (\E n \in Reach : ch' = RollsBack(Drained(n))) /\ Learns("junos.refused")
           ELSE UNCHANGED <<ch, call>> /\ pc' = "idle"
    BY <1>7 DEF JunosRan, JunosReply, Return
  <2> HIDE DEF success
  <2>2. Place = pc /\ conn'.check_ok = check_ok /\ conn'.connected = conn.connected
    BY <1>0, <2>1 DEF Place, Chan, Settled, NoConn
  <2>3. CASE call.cmd = "check" /\ ~Has("okcheck")
    <3>1. /\ pc' = "learn" /\ call'.cmd = "check" /\ call'.again = call.again /\ call'.then = "junos.refused"
      BY <1>0, <2>1, <2>3, LearnsCall
    <3>2. Place' = "junos.refused" /\ ~conn'.check_ok
      BY <2>2, <2>3, <3>1 DEF Place, Chan
    <3>3. /\ ch'.up = ch.up /\ IsSeq(ch'.out) /\ (ch.behind => ch'.behind)
          /\ ch'.line = ch.line \/ ch'.line = Append(ch.line, Line(0, "rollback"))
      <4>1. PICK n \in Reach : ch' = RollsBack(Drained(n))
        BY <2>1, <2>3
      <4>2. /\ DOMAIN Drained(n) = DOMAIN NoChannel /\ Drained(n).line = ch.line /\ Drained(n).up = ch.up
            /\ IsSeq(Drained(n).out) /\ (ch.behind => Drained(n).behind)
        BY <1>0, DrainedWire
      <4> QED
        BY <4>1, <4>2, RollsBackLine
    <3>4. "check" \in JunosCommands
      BY DEF JunosCommands
    <3>5. Sane'
      BY <1>0, <3>1, <3>2, <3>3, <3>4, RollsBackWords, NoneSeq DEF Sane, JunosPlaces, Handling
    <3>6. Gate'
      BY <1>0, <3>1, <3>2, <3>3, GateBack DEF Checking
    <3> QED
      BY <1>0, <3>5, <3>6
  <2>4. CASE call.cmd = "check" /\ Has("okcheck")
    <3>1. pc = "junos.ran" /\ Checking /\ Passed(call.body)
      BY <2>1, <2>2, <2>4 DEF Sane, Checking, Has, Passed
    <3>2. Blind \/ (dev.passed /\ ~Flies("rollback") /\ ~Flies("configure"))
      BY <3>1 DEF Gate, Flies
    <3>3. UNCHANGED <<ch, call>> /\ pc' = "idle" /\ Place' = "idle"
      BY <2>1, <2>4 DEF Place, Chan
    <3>4. Sane'
      BY <1>0, <3>3 DEF Sane, JunosPlaces, Handling
    <3>5. Blind' = Blind /\ \A w : Flies(w)' = Flies(w)
      BY <1>0, <3>3 DEF Blind, Flies
    <3>6. Gate'
      BY <1>0, <3>2, <3>3, <3>5 DEF Gate, Checking, Handling
    <3> QED
      BY <1>0, <3>4, <3>6
  <2>5. CASE call.cmd # "check"
    <3>1. conn'.check_ok => conn.check_ok /\ ~Undoing
      BY <2>2, <2>5 DEF Undoing
    <3> QED
      BY <1>0, <1>4, <2>1, <2>2, <2>5, <3>1
  <2> QED
    BY <2>3, <2>4, <2>5
<1> QED
  BY <1>0, <1>1, <1>2, <1>3, <1>5, <1>6, <1>7 DEF JunosNext

(* What is kept of every driver, and of a Junos device what its commits rest on. *)
Vetted == IF kind = "junos" THEN Sane /\ Gate /\ CommitFollowsCheck ELSE Mute

LEMMA VettedInit == DriverInit => Vetted
<1> SUFFICES ASSUME DriverInit PROVE Vetted
  OBVIOUS
<1>1. /\ ch = NoChannel /\ conn = NoConn /\ call = NoCall /\ pc = "idle" /\ waiting = None
      /\ ran = [c \in Calls |-> <<>>] /\ dev = [mode |-> "exec", stalled |-> FALSE, passed |-> FALSE]
  BY DEF DriverInit
<1>2. /\ DOMAIN ch.line = {} /\ ch.out = <<>> /\ IsSeq(ch.out) /\ \A c \in Calls : DOMAIN ran[c] = {}
  BY <1>1, NoneSeq DEF NoChannel
<1>3. /\ call.cmd = None /\ call.line = None /\ ~call.again /\ ~conn.check_ok /\ Place = "idle"
  BY <1>1 DEF NoCall, NoConn, Place, Chan
<1>4. dev \in Devices
  BY <1>1 DEF Devices, Modes
<1>5. Mute
  BY <1>1, <1>2, <1>3, NoneAssumption DEF Mute, Plain
<1>6. Sane /\ Gate
  BY <1>1, <1>2, <1>3, <1>4 DEF Sane, Gate, JunosPlaces, Handling, Checking
<1> QED
  BY <1>2, <1>5, <1>6 DEF Vetted, CommitFollowsCheck

LEMMA KindKept ==
    ASSUME Next
    PROVE  /\ kind' = kind
           /\ Disconnect \/ Greeted \/ Connected \/ Enabled_ \/ Up => waiting' = waiting
<1> USE DEF counters, threads, Same, Idle
<1>1. ASSUME ChannelStep \/ Environment PROVE kind' = kind
  BY <1>1 DEF ChannelStep, Send, ReadPrompt, ReadFails, Learn, Probe1, Probe2,
              Environment, DeviceStep, Log, Stall, PeerCloses
<1>2. ASSUME Connect \/ LoginNext PROVE kind' = kind
  BY <1>2 DEF Connect, LoginNext, LoginStep, Handshake, VerifyHostKey, Authenticate
<1>3. ASSUME Disconnect \/ Greeted \/ Connected \/ Enabled_ \/ Up PROVE UNCHANGED <<kind, waiting>>
  BY <1>3 DEF Disconnect, Greeted, Connected, Enabled_, Up
<1>4. ASSUME CiscoNext PROVE kind' = kind
  BY <1>4 DEF CiscoNext, CiscoExecute, CiscoStart, CiscoReconnect, CiscoAgain, CiscoConfirm, CiscoRebooted,
              CiscoModeChanged, CiscoRan, CiscoMoved, CiscoStepMoved, CiscoStep
<1>5. ASSUME AsaNext \/ JunosNext PROVE kind' = kind
  BY <1>5 DEF AsaNext, AsaExecute, AsaStart, AsaVerified, AsaRan,
              JunosNext, JunosExecute, JunosStart, JunosRefuse, JunosRefused, JunosMoved, JunosRan
<1>6. ASSUME PanosNext PROVE kind' = kind
  BY <1>6 DEF PanosNext, PanosExecute, PanosLocked, PanosReady, PanosRan, Keepalive, Kept
<1>7. ASSUME LinuxNext \/ FgNext \/ RestNext PROVE kind' = kind
  BY <1>7 DEF LinuxNext, LinuxExecute, LinuxOpen, LinuxExec, LinuxRead, FgNext, FgExecute, FgShell, FgRead,
              RestNext, PbsExecute, PbsRequest, ZammadExecute, ZammadRequest, LibrenmsExecute, LibrenmsRequest,
              WazuhExecute, WazuhToken, WazuhRequest, Gns3Execute, Gns3Request, MockExecute, MockReply, MockHealth,
              RestBegins, RestAnswers
<1> QED
  BY <1>1, <1>2, <1>3, <1>4, <1>5, <1>6, <1>7 DEF Next, ShellNext, ExecNext

LEMMA VettedStep ==
    Flow /\ Holds /\ Lines /\ Fresh /\ Vetted /\ [Next]_driverVars => Vetted'
<1> SUFFICES ASSUME Flow, Holds, Lines, Fresh, Vetted, [Next]_driverVars PROVE Vetted'
  OBVIOUS
<1>0. Shape
  BY DEF Flow
<1>1. CASE UNCHANGED driverVars
  <2>1. UNCHANGED <<ch, dev, conn, pc, call, kind, ran, waiting>>
    BY <1>1 DEF driverVars
  <2>2. Mute => Mute'
    BY <2>1 DEF Mute, Plain
  <2>3. Sane => Sane'
    BY <2>1 DEF Sane, Place
  <2>4. Gate => Gate'
    BY <2>1 DEF Gate, Place, Blind, Flies, Undoing, Checking
  <2>5. CommitFollowsCheck => CommitFollowsCheck'
    BY <2>1 DEF CommitFollowsCheck
  <2> QED
    BY <2>1, <2>2, <2>3, <2>4, <2>5 DEF Vetted
<1>2. CASE kind = "junos" /\ Next
  <2>0. Sane /\ Gate /\ CommitFollowsCheck /\ Place \in JunosPlaces /\ IsSeq(ch.out)
    BY <1>2 DEF Vetted, Sane
  <2>1. ASSUME kind' = kind, Sane' /\ Gate', ran' = ran \/ CommitFollowsCheck' PROVE Vetted'
    BY <1>2, <2>0, <2>1 DEF Vetted, CommitFollowsCheck
  <2>2. kind' = kind
    BY <1>2, KindKept
  <2>3. CASE ChannelStep
    BY <1>0, <2>0, <2>1, <2>2, <2>3, ChannelGate, ChannelWire
  <2>4. CASE Environment
    BY <1>2, <2>0, <2>1, <2>2, <2>4, EnvironmentGate
  <2>5. CASE Connect \/ LoginNext \/ Disconnect \/ Greeted \/ Connected \/ Enabled_ \/ Up
    BY <1>0, <1>2, <2>0, <2>1, <2>2, <2>5, ConnectGate
  <2>6. CASE JunosNext
    BY <1>2, <2>0, <2>1, <2>2, <2>6, JunosGate
  <2> QED
    BY <1>2, <2>0, <2>3, <2>4, <2>5, <2>6, OthersAway DEF Next, ShellNext
<1>3. CASE kind # "junos" /\ Next
  <2>0. Mute
    BY <1>3 DEF Vetted
  <2>1. kind' = kind
    BY <1>3, KindKept
  <2> SUFFICES Mute'
    BY <1>3, <2>1 DEF Vetted
  <2>2. CASE (ChannelStep \/ Environment) /\ UNCHANGED threads
    BY <1>0, <2>0, <2>2, ChannelMute, EnvironmentMute
  <2>3. CASE Disconnect \/ Greeted \/ Connected \/ Enabled_ \/ Up \/ ((Connect \/ LoginNext) /\ waiting' = waiting)
    <3>1. waiting' = waiting
      BY <1>3, <2>3, KindKept
    <3> QED
      BY <1>0, <2>0, <2>1, <2>3, <3>1, ConnectMute
  <2>4. CASE CiscoNext \/ AsaNext \/ JunosNext \/ PanosNext
    BY <1>0, <1>3, <2>0, <2>4, CiscoMute, AsaMute, JunosMute, PanosMute
  <2>5. CASE LinuxNext \/ FgNext \/ RestNext
    BY <1>0, <1>3, <2>0, <2>5, ExecMute
  <2> QED
    BY <1>3, <2>2, <2>3, <2>4, <2>5 DEF Next, ShellNext, ExecNext
<1> QED
  BY <1>1, <1>2, <1>3

(* For any number of calls, connections, log lines and late answers: whatever
   is lost, late or cut off, the JunOS driver makes its device run a commit only
   after the device passed a commit check on this connection, since the
   candidate was last opened or rolled back; or the driver has been reading, on
   this connection, after a drain that ended too early. *)
THEOREM DriversCommitFollowsCheck == Spec => []CommitFollowsCheck
<1>1. Vetted => CommitFollowsCheck
  BY DEF Vetted, Mute, CommitFollowsCheck
<1> QED
  BY FlowHolds, HoldsAlways, OnceAlways, VettedInit, VettedStep, <1>1, PTL DEF Spec

=============================================================================
