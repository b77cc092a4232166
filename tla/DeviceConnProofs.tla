-------------------------- MODULE DeviceConnProofs --------------------------
(***************************************************************************)
(* The safety of one device slot for any number of workers, connections    *)
(* and reads.  The inductive invariant says who holds exec_mutex at which  *)
(* control point (Owner), in whose hands every connection is (Hands), that *)
(* a worker in a driver call works on what the slot holds (Using), and     *)
(* when the generation of a finished read still counts (Generations).      *)
(***************************************************************************)
EXTENDS DeviceConn, FiniteSetTheorems, TLAPS

USE ConnAssumption

(* The sets that ThreadTypes gives to pc and job. *)
Places == {"free", "start", "get", "connect", "store", "stored", "reread", "probe", "mark",
           "run", "drop", "redial", "unknown", "stamp", "end", "post"}
Jobs == [read : BOOLEAN, conn : Conns \cup {None}, stale : Conns \cup {None}, gen : Nat,
         again : BOOLEAN]

(* The control points under exec_mutex. *)
Holding == {"get", "connect", "store", "stored", "reread", "probe", "mark", "run",
            "drop", "redial"}
WatchHolding == {"validate", "probe", "drop"}

Owner ==
    /\ \A w \in Workers : pc[w] \in Holding <=> exec_mutex = w
    /\ wd \in WatchHolding <=> exec_mutex = Watchdog

(* An open connection outside the slot is in one pair of hands only. *)
Hands ==
    /\ \A c \in open : c <= made
    /\ connections # None => connections \in open
    /\ \A w \in Workers : job[w].stale # None =>
          /\ pc[w] \in {"store", "drop", "redial"}
          /\ job[w].stale \in open
          /\ job[w].stale # connections /\ job[w].stale # held
    /\ held # None => held \in open /\ wd \in {"store", "probe", "drop"}
    /\ wd = "probe" => held = connections /\ held # None
    /\ wd \in {"store", "drop"} /\ held # None => held # connections

(* The slot does not change under a worker that has taken its connection. *)
Using ==
    \A w \in Workers :
        /\ pc[w] \in {"stored", "probe", "mark", "run"} => job[w].conn = connections
        /\ pc[w] \in {"stored", "reread", "probe", "mark", "run"} => connections # None

(* A read whose generation is still current ran on what the slot holds. *)
Generations ==
    \A w \in Workers :
        /\ job[w].gen <= read_generation
        /\ pc[w] = "stamp" /\ job[w].gen = read_generation =>
              job[w].conn = connections /\ connections # None

Ending ==
    /\ main \in {"teardown", "leaked", "destroyed"} => wd = "stopped"
    /\ main = "destroyed" => open = {} /\ \A w \in Workers : pc[w] \in {"free", "post"}

(* What the slot's users rely on; the types and the count are kept apart. *)
Safe ==
    /\ Owner
    /\ Hands
    /\ Using
    /\ Generations
    /\ NothingLeaks
    /\ VerifiedIsCurrent
    /\ Ending

Types == SlotTypes /\ ThreadTypes

IInv == Types /\ LifeTypes /\ Safe

-----------------------------------------------------------------------------
(* The daemon starts in IInv. *)
LEMMA InitIInv == ASSUME Init PROVE IInv
<1>1. Live = {}
  BY DEF Init, Live
<1>2. LifeTypes
  BY <1>1, FS_EmptySet, Zenon DEF Init, LifeTypes
<1>3. Types
  BY ZenonT(30) DEF Init, Types, SlotTypes, ThreadTypes, NoJob, Conns
<1>4. Safe
  BY DEF Init, Safe, Owner, Hands, Using, Generations, NothingLeaks, VerifiedIsCurrent,
         Ending, NoJob, Holding, WatchHolding
<1> QED  BY <1>2, <1>3, <1>4 DEF IInv

(* Two fields of a worker's job, written in one step. *)
LEMMA JobConns ==
    ASSUME job \in [Workers -> Jobs], NEW w \in Workers,
           NEW a \in Conns \cup {None}, NEW b \in Conns \cup {None}
    PROVE  [job EXCEPT ![w].stale = a, ![w].conn = b] \in [Workers -> Jobs]
<1> DEFINE C == Conns \cup {None}
<1>1. a \in C /\ b \in C /\ Jobs = [read : BOOLEAN, conn : C, stale : C, gen : Nat, again : BOOLEAN]
  BY Zenon DEF Jobs
<1> HIDE DEF C
<1> QED  BY ZenonT(30), <1>1

LEMMA JobAgain ==
    ASSUME job \in [Workers -> Jobs], NEW w \in Workers, NEW b \in BOOLEAN
    PROVE  [job EXCEPT ![w].stale = None, ![w].again = b] \in [Workers -> Jobs]
<1> DEFINE C == Conns \cup {None}
<1>1. None \in C /\ Jobs = [read : BOOLEAN, conn : C, stale : C, gen : Nat, again : BOOLEAN]
  BY Zenon DEF Jobs
<1> HIDE DEF C
<1> DEFINE f == [job EXCEPT ![w].stale = None]
<1>2. f \in [Workers -> Jobs]
  BY <1>1
<1> HIDE DEF f
<1>3. [f EXCEPT ![w].again = b] \in [Workers -> Jobs]
  BY <1>1, <1>2
<1> QED  BY Zenon, <1>3 DEF f

(* A step of a worker keeps types and safety. *)
LEMMA WorkerKeeps ==
    ASSUME Types, Safe, NEW w \in Workers, Accept(w) \/ Answer(w) \/ Execute(w)
    PROVE  Types' /\ Safe'
<1> USE DEF Types, SlotTypes, ThreadTypes, Conns, slot, life, Safe, Owner, Hands, Using,
           Generations, NothingLeaks, VerifiedIsCurrent, Ending, Holding, WatchHolding
<1>1. CASE Accept(w)
  BY <1>1 DEF Accept, Goes
<1>2. CASE Answer(w)
  <2>1. Types'
    BY <1>2 DEF Answer, Goes
  <2>2. Owner' /\ Using' /\ Generations'
    BY <1>2 DEF Answer, Goes
  <2>3. Hands'
    BY <1>2 DEF Answer, Goes
  <2>4. NothingLeaks'
    BY <1>2 DEF Answer, Goes
  <2>5. VerifiedIsCurrent' /\ Ending'
    BY <1>2 DEF Answer, Goes
  <2> QED  BY <2>1, <2>2, <2>3, <2>4, <2>5
<1>3. CASE GetCached(w)
  BY <1>3 DEF GetCached, Proceed, Goes
<1>4. CASE GetReconnecting(w)
  BY <1>4 DEF GetReconnecting, Leaves, Goes
<1>5. CASE GetConnects(w)
  BY <1>5 DEF GetConnects, Goes
<1>6. CASE Connected(w)
  BY <1>6 DEF Connected, Connects, Goes
<1>7. CASE Store(w)
  <2>1. Types'
    <3>1. SlotTypes'
      BY <1>7 DEF Store, Disconnects, Leaves, Goes
    <3>2. /\ exec_mutex' \in Workers \cup {Watchdog, None}
          /\ wd' \in {"look", "connect", "store", "lock", "validate", "probe", "drop",
                     "clear", "stopped"}
          /\ held' \in Conns \cup {None}
      BY <1>7 DEF Store, Disconnects, Leaves, Goes
    <3>3. pc' \in [Workers -> Places]
      BY <1>7 DEF Store, Disconnects, Leaves, Goes, Places
    <3>4. job' \in [Workers -> Jobs]
      <4>1. job \in [Workers -> Jobs] /\ job[w].stale \in Conns \cup {None} BY DEF Jobs
      <4>2. job' = [job EXCEPT ![w].stale = None, ![w].conn = job[w].stale]
        BY Zenon, <1>7 DEF Store
      <4> QED  BY Zenon, <4>1, <4>2, JobConns
    <3> QED  BY Zenon, <3>1, <3>2, <3>3, <3>4 DEF Places, Jobs
  <2>2. Owner' /\ Using' /\ Generations'
    BY <1>7 DEF Store, Disconnects, Leaves, Goes
  <2>3. Hands'
    BY <1>7 DEF Store, Disconnects, Leaves, Goes
  <2>4. NothingLeaks'
    BY <1>7 DEF Store, Disconnects, Leaves, Goes
  <2>5. VerifiedIsCurrent' /\ Ending'
    BY <1>7 DEF Store, Disconnects, Leaves, Goes
  <2> QED  BY <2>1, <2>2, <2>3, <2>4, <2>5
<1>8. CASE Returned(w)
  BY <1>8 DEF Returned, Proceed, Goes
<1>9. CASE Dropped(w)
  <2>1. Types'
    <3>1. SlotTypes'
      BY <1>9 DEF Dropped, Disconnects, Leaves, Goes
    <3>2. /\ exec_mutex' \in Workers \cup {Watchdog, None}
          /\ wd' \in {"look", "connect", "store", "lock", "validate", "probe", "drop",
                     "clear", "stopped"}
          /\ held' \in Conns \cup {None}
      BY <1>9 DEF Dropped, Disconnects, Leaves, Goes
    <3>3. pc' \in [Workers -> Places]
      BY <1>9 DEF Dropped, Disconnects, Leaves, Goes, Places
    <3>4. job' \in [Workers -> Jobs]
      <4>1. job \in [Workers -> Jobs] BY Zenon DEF Jobs
      <4>2. job' = [job EXCEPT ![w].stale = None, ![w].again = (pc[w] = "redial")]
        BY Zenon, <1>9 DEF Dropped
      <4>3. (pc[w] = "redial") \in BOOLEAN BY Zenon
      <4> QED  BY Zenon, <4>1, <4>2, <4>3, JobAgain
    <3> QED  BY Zenon, <3>1, <3>2, <3>3, <3>4 DEF Places, Jobs
  <2>2. Owner' /\ Using' /\ Generations'
    BY <1>9 DEF Dropped, Disconnects, Leaves, Goes
  <2>3. Hands'
    BY <1>9 DEF Dropped, Disconnects, Leaves, Goes
  <2>4. NothingLeaks'
    BY <1>9 DEF Dropped, Disconnects, Leaves, Goes
  <2>5. VerifiedIsCurrent' /\ Ending'
    BY <1>9 DEF Dropped, Disconnects, Leaves, Goes
  <2> QED  BY <2>1, <2>2, <2>3, <2>4, <2>5
<1>10. CASE ProbeFails(w)
  BY <1>10 DEF ProbeFails, Drop, Goes
<1>11. CASE ProbeSucceeds(w)
  BY <1>11 DEF ProbeSucceeds, Goes
<1>12. CASE Refused(w)
  BY <1>12 DEF Refused, Leaves, Goes
<1>13. CASE Mark(w)
  BY <1>13 DEF Mark, Goes
<1>14. CASE RunErrs(w)
  BY <1>14 DEF RunErrs, Drop, Goes
<1>15. CASE RunNotSent(w)
  BY <1>15 DEF RunNotSent, Drop, Goes
<1>16. CASE RunEnds(w)
  BY <1>16 DEF RunEnds, Leaves, Goes
<1>17. CASE Unknown(w)
  <2>1. Types'
    <3>1. SlotTypes'
      BY <1>17 DEF Unknown, Drop, Goes
    <3>2. /\ exec_mutex' \in Workers \cup {Watchdog, None}
          /\ wd' \in {"look", "connect", "store", "lock", "validate", "probe", "drop",
                     "clear", "stopped"}
          /\ held' \in Conns \cup {None}
      BY <1>17 DEF Unknown, Drop, Goes
    <3>3. pc' \in [Workers -> Places]
      BY <1>17 DEF Unknown, Drop, Goes, Places
    <3>4. job' \in [Workers -> Jobs]
      <4>1. job \in [Workers -> Jobs] BY Zenon DEF Jobs
      <4>2. job' = [job EXCEPT ![w].stale = connections, ![w].conn = None]
        BY Zenon, <1>17 DEF Unknown, Drop
      <4>3. connections \in Conns \cup {None} /\ None \in Conns \cup {None} BY Zenon
      <4> QED  BY Zenon, <4>1, <4>2, <4>3, JobConns
    <3> QED  BY Zenon, <3>1, <3>2, <3>3, <3>4 DEF Places, Jobs
  <2>2. Owner' /\ Using' /\ Generations'
    BY <1>17 DEF Unknown, Drop, Goes
  <2>3. Hands'
    BY <1>17 DEF Unknown, Drop, Goes
  <2>4. NothingLeaks'
    BY <1>17 DEF Unknown, Drop, Goes
  <2>5. VerifiedIsCurrent' /\ Ending'
    BY <1>17 DEF Unknown, Drop, Goes
  <2> QED  BY <2>1, <2>2, <2>3, <2>4, <2>5
<1>18. CASE Stamp(w)
  BY <1>18 DEF Stamp, Current, Goes
<1>19. CASE End(w)
  BY <1>19 DEF End, NoJob, Goes
<1>20. CASE Post(w)
  BY <1>20 DEF Post, Goes
<1> QED  BY Zenon, <1>1, <1>2, <1>3, <1>4, <1>5, <1>6, <1>7, <1>8, <1>9, <1>10, <1>11, <1>12, <1>13, <1>14, <1>15, <1>16, <1>17, <1>18, <1>19, <1>20 DEF Execute

(* So does taking the device. *)
LEMMA LockKeeps ==
    ASSUME Types, Safe, NEW w \in Workers, NEW read \in BOOLEAN, Lock(w, read)
    PROVE  Types' /\ Safe'
<1> USE DEF Types, SlotTypes, ThreadTypes, Conns, slot, life, Safe, Owner, Hands, Using,
           Generations, NothingLeaks, VerifiedIsCurrent, Ending, Holding, WatchHolding
<1>1. Types'
  BY ZenonT(30) DEF Lock, NoJob, Goes
<1>2. Owner' /\ Using' /\ Generations'
  BY DEF Lock, NoJob, Goes
<1>3. Hands'
  BY DEF Lock, NoJob, Goes
<1>4. NothingLeaks'
  BY DEF Lock, NoJob, Goes
<1>5. VerifiedIsCurrent' /\ Ending'
  BY DEF Lock, NoJob, Goes
<1> QED  BY <1>1, <1>2, <1>3, <1>4, <1>5

(* A step of the watchdog keeps types and safety. *)
LEMMA WatchKeeps ==
    ASSUME Types, Safe, Watch
    PROVE  Types' /\ Safe'
<1> USE DEF Types, SlotTypes, ThreadTypes, Conns, slot, life, Safe, Owner, Hands, Using,
           Generations, NothingLeaks, VerifiedIsCurrent, Ending, Holding, WatchHolding
<1>1. CASE WatchConnects
  BY <1>1 DEF WatchConnects
<1>2. CASE WatchConnected
  <2>1. \/ held' = None /\ UNCHANGED <<open, made>>
        \/ held' = made + 1 /\ made' = made + 1 /\ open' = open \cup {made + 1}
    BY Zenon, <1>2 DEF WatchConnected, Connects
  <2>2. /\ held = None /\ wd = "connect" /\ wd' = "store"
        /\ UNCHANGED <<connections, reconnecting, read_generation, last_read_success>>
        /\ UNCHANGED <<exec_mutex, pc, job, main>>
    BY Zenon, <1>2 DEF WatchConnected
  <2>3. Types' /\ Owner' /\ Using' /\ Generations' /\ VerifiedIsCurrent' /\ Ending'
    <3>1. main # "destroyed" BY <2>2
    <3>2. CASE held' = None /\ UNCHANGED <<open, made>>
      BY <2>2, <3>1, <3>2
    <3>3. CASE held' = made + 1 /\ made' = made + 1 /\ open' = open \cup {made + 1}
      BY <2>2, <3>1, <3>3
    <3> QED  BY Zenon, <2>1, <3>2, <3>3
  <2>4. CASE held' = None /\ UNCHANGED <<open, made>>
    <3>1. Hands' BY <2>2, <2>4
    <3>2. NothingLeaks' BY Zenon, <2>2, <2>4
    <3> QED  BY <2>3, <3>1, <3>2
  <2>5. CASE held' = made + 1 /\ made' = made + 1 /\ open' = open \cup {made + 1}
    <3>1. Hands'
      <4>1. \A c \in open : c # made + 1 BY <2>5
      <4>2. \A c \in open' : c <= made' BY <2>5
      <4>3. held' # connections' /\ held' # None BY <2>2, <2>5, <4>1
      <4>4. \A v \in Workers : job[v].stale # None => job[v].stale # made + 1
        BY <4>1
      <4> QED  BY <2>2, <2>5, <4>2, <4>3, <4>4
    <3>2. NothingLeaks'
      <4>1. \A c \in open : c = connections \/ \E v \in Workers : job[v].stale = c
        BY <2>2
      <4> QED  BY Zenon, <2>2, <2>5, <4>1
    <3> QED  BY <2>3, <3>1, <3>2
  <2> QED  BY Zenon, <2>1, <2>4, <2>5
<1>3. CASE WatchStores
  <2>1. /\ wd = "store" /\ wd' = "look" /\ held' = None
        /\ UNCHANGED <<made, read_generation, last_read_success, exec_mutex, pc, job, main>>
        /\ reconnecting' = FALSE
    BY Zenon, <1>3 DEF WatchStores
  <2>2. \/ connections # None /\ open' = open \ {held} /\ connections' = connections
        \/ connections = None /\ connections' = held /\ open' = open
    BY Zenon, <1>3 DEF WatchStores, Disconnects
  <2>3. Types' /\ Owner' /\ Using' /\ Generations' /\ VerifiedIsCurrent' /\ Ending'
    <3>1. main # "destroyed" BY <2>1
    <3>2. SlotTypes' BY ZenonT(30), <2>1, <2>2
    <3>3. ThreadTypes' BY <2>1
    <3>4. Owner' BY <2>1
    <3>5. Using' /\ Generations' BY <2>1, <2>2
    <3>6. VerifiedIsCurrent' /\ Ending' BY <2>1, <2>2, <3>1
    <3> QED  BY <3>2, <3>3, <3>4, <3>5, <3>6
  <2>4. CASE connections # None /\ open' = open \ {held} /\ connections' = connections
    <3>1. Hands'
      <4>1. connections \in open' /\ \A c \in open' : c \in open BY <2>1, <2>4
      <4>2. \A v \in Workers : job[v].stale # None => job[v].stale \in open'
        BY <2>4
      <4> QED  BY <2>1, <2>4, <4>1, <4>2
    <3>2. NothingLeaks' BY Zenon, <2>1, <2>4
    <3> QED  BY <2>3, <3>1, <3>2
  <2>5. CASE connections = None /\ connections' = held /\ open' = open
    <3>1. Hands' BY <2>1, <2>5
    <3>2. NothingLeaks'
      <4>1. \A c \in open : c # None BY <2>5
      <4> QED  BY Zenon, <2>1, <2>5, <4>1
    <3> QED  BY <2>3, <3>1, <3>2
  <2> QED  BY Zenon, <2>2, <2>4, <2>5
<1>4. CASE WatchLocks
  BY <1>4 DEF WatchLocks
<1>5. CASE WatchValidates
  BY <1>5 DEF WatchValidates
<1>6. CASE WatchProbeSucceeds
  BY <1>6 DEF WatchProbeSucceeds
<1>7. CASE WatchProbeFails
  BY <1>7 DEF WatchProbeFails
<1>8. CASE WatchDrops
  BY <1>8 DEF WatchDrops, Disconnects
<1>9. CASE WatchClears
  BY ZenonT(30), <1>9 DEF WatchClears
<1>10. CASE WatchStops
  BY <1>10 DEF WatchStops
<1> QED  BY Zenon, <1>1, <1>2, <1>3, <1>4, <1>5, <1>6, <1>7, <1>8, <1>9, <1>10 DEF Watch

(* So does a step of the main thread that tears nothing down. *)
LEMMA MainKeeps ==
    ASSUME Types, Safe, Shutdown \/ LeaveLoop \/ Drain \/ Join \/ Leak
    PROVE  Types' /\ Safe'
<1> USE DEF Types, SlotTypes, ThreadTypes, Conns, slot, life, Safe, Owner, Hands, Using,
           Generations, NothingLeaks, VerifiedIsCurrent, Ending, Holding, WatchHolding
<1>1. UNCHANGED <<slot, exec_mutex, pc, job, wd, held>>
  BY Zenon DEF Shutdown, LeaveLoop, Drain, Join, Leak
<1>2. main # "destroyed" /\ main' # "destroyed" /\ Ending'
  BY <1>1 DEF Shutdown, LeaveLoop, Drain, Join, Leak
<1>3. Types'
  BY <1>1
<1> QED  BY <1>1, <1>2, <1>3

(* workers_live counts the workers that have not reached their last        *)
(* section: nobody is left when it is 0.                                   *)
LEMMA NobodyLive ==
    ASSUME LifeTypes, workers_live = 0
    PROVE  \A w \in Workers : pc[w] \in {"free", "post"}
<1>1. Live \subseteq Workers
  BY Zenon DEF Live
<1>2. IsFiniteSet(Live)
  BY <1>1, PoolAssumption, FS_Subset
<1>3. Live = {}
  BY ZenonT(30), <1>2, FS_EmptySet DEF LifeTypes
<1> QED  BY Zenon, <1>3 DEF Live

(* The teardown finds no connection but the one in the slot. *)
LEMMA DestroyKeeps ==
    ASSUME Types, Safe, LifeTypes, Destroy
    PROVE  Types' /\ Safe'
<1> USE DEF Types, SlotTypes, ThreadTypes, Conns, slot, life, Safe, Owner, Hands, Using,
           Generations, NothingLeaks, VerifiedIsCurrent, Ending, Holding, WatchHolding
<1>1. \A w \in Workers : pc[w] \in {"free", "post"}
  BY NobodyLive DEF Destroy, MayDestroy
<1>2. /\ open' = open \ {connections} /\ connections' = None /\ main' = "destroyed"
      /\ UNCHANGED <<made, reconnecting, read_generation, last_read_success>>
      /\ UNCHANGED <<exec_mutex, pc, job, wd, held>>
      /\ wd = "stopped" /\ exec_mutex = None
  BY Zenon DEF Destroy, Disconnects
<1>3. held = None /\ \A w \in Workers : job[w].stale = None
  BY <1>1, <1>2
<1>4. open' = {}
  <2>1. \A c \in open : c = connections
    BY <1>3
  <2> QED  BY Zenon, <1>2, <2>1
<1>5. Types'
  BY <1>2, <1>4
<1>6. Owner' /\ Using' /\ Generations'
  BY <1>1, <1>2
<1>7. Hands' /\ NothingLeaks'
  BY <1>2, <1>3, <1>4
<1>8. VerifiedIsCurrent' /\ Ending'
  BY <1>1, <1>2, <1>4
<1> QED  BY <1>5, <1>6, <1>7, <1>8

(* Only Accept and End change who is counted, and they count. *)
LEMMA CountKeeps ==
    ASSUME Types, LifeTypes, Next
    PROVE  LifeTypes'
<1> USE DEF Types, ThreadTypes, Goes, Leaves, slot, life
<1>f. IsFiniteSet(Live) /\ Cardinality(Live) \in Nat
  <2>1. Live \subseteq Workers BY Zenon DEF Live
  <2>2. IsFiniteSet(Live) BY <2>1, PoolAssumption, FS_Subset
  <2> QED  BY <2>2, FS_CardinalityType
<1>1. ASSUME NEW w \in Workers, Accept(w)
      PROVE  LifeTypes'
  <2>1. Live' = Live \cup {w} /\ w \notin Live
    BY <1>1 DEF Accept, Live
  <2>2. Cardinality(Live') = Cardinality(Live) + 1
    BY ZenonT(30), <1>f, <2>1, FS_AddElement
  <2> QED  BY <1>1, <2>2 DEF LifeTypes, Accept
<1>2. ASSUME NEW w \in Workers, End(w)
      PROVE  LifeTypes'
  <2>1. Live' = Live \ {w} /\ w \in Live
    BY <1>2 DEF End, Live
  <2>2. Cardinality(Live') = Cardinality(Live) - 1
    BY ZenonT(30), <1>f, <2>1, FS_RemoveElement
  <2> QED  BY <1>2, <2>2 DEF LifeTypes, End
<1>3. ASSUME NEW w \in Workers, Answer(w) \/ (Execute(w) /\ ~End(w))
      PROVE  Live' = Live /\ UNCHANGED life
  <2>1. CASE \/ Answer(w) \/ GetCached(w) \/ GetReconnecting(w) \/ GetConnects(w)
             \/ Connected(w) \/ Store(w) \/ Returned(w)
    BY <2>1 DEF Live, Answer, GetCached, GetReconnecting, GetConnects, Connected, Store,
           Returned, Proceed
  <2>2. CASE \/ Dropped(w) \/ ProbeFails(w) \/ RunErrs(w) \/ RunNotSent(w) \/ Unknown(w)
    BY <2>2 DEF Live, Dropped, ProbeFails, RunErrs, RunNotSent, Unknown, Drop
  <2>3. CASE \/ ProbeSucceeds(w) \/ Refused(w) \/ Mark(w) \/ RunEnds(w) \/ Stamp(w)
             \/ Post(w)
    BY <2>3 DEF Live, ProbeSucceeds, Refused, Mark, RunEnds, Stamp, Post
  <2> QED  BY Zenon, <1>3, <2>1, <2>2, <2>3 DEF Execute
<1>4. ASSUME NEW w \in Workers, NEW read \in BOOLEAN, Lock(w, read)
      PROVE  Live' = Live /\ UNCHANGED life
  BY <1>4 DEF Lock, Live
<1>5. ASSUME Watch
      PROVE  Live' = Live /\ UNCHANGED life
  BY Zenon, <1>5 DEF Watch, Live, WatchConnects, WatchConnected, WatchStores, WatchLocks,
         WatchValidates, WatchProbeSucceeds, WatchProbeFails, WatchDrops, WatchClears, WatchStops
<1>6. ASSUME Shutdown \/ Teardown
      PROVE  LifeTypes'
  <2>1. Live' = Live /\ workers_live' = workers_live
    BY Zenon, <1>6 DEF Shutdown, Teardown, LeaveLoop, Drain, Join, Leak, Destroy, Live
  <2>2. /\ main' \in {"serve", "drain", "join", "teardown", "leaked", "destroyed"}
        /\ running' \in BOOLEAN /\ drain_failed' \in BOOLEAN
    <3>1. CASE Drain
      <4>1. drain_failed' \in BOOLEAN
        <5>1. CASE workers_live > 0 BY <3>1, <5>1 DEF Drain
        <5>2. CASE ~(workers_live > 0) BY <3>1, <5>2 DEF Drain
        <5> QED  BY <5>1, <5>2
      <4> QED  BY Zenon, <3>1, <4>1 DEF Drain, LifeTypes
    <3>2. CASE Shutdown \/ LeaveLoop \/ Join \/ Leak \/ Destroy
      BY Zenon, <3>2 DEF Shutdown, LeaveLoop, Join, Leak, Destroy, LifeTypes
    <3> QED  BY Zenon, <1>6, <3>1, <3>2 DEF Teardown
  <2> QED  BY Zenon, <2>1, <2>2 DEF LifeTypes
<1>7. Live' = Live /\ UNCHANGED life => LifeTypes'
  BY Zenon DEF LifeTypes
<1> QED  BY Zenon, <1>1, <1>2, <1>3, <1>4, <1>5, <1>6, <1>7 DEF Next

(* IInv is inductive. *)
LEMMA StepIInv ==
    ASSUME IInv, [Next]_vars
    PROVE  IInv'
<1>1. Next \/ UNCHANGED vars
  BY Zenon
<1>2. CASE Next
  <2>1. Types' /\ Safe'
    BY Zenon, <1>2, WorkerKeeps, LockKeeps, WatchKeeps, MainKeeps, DestroyKeeps
       DEF Next, Teardown, IInv
  <2>2. LifeTypes'
    BY Zenon, <1>2, CountKeeps DEF IInv
  <2> QED  BY Zenon, <2>1, <2>2 DEF IInv
<1>3. CASE UNCHANGED vars
  <2>1. UNCHANGED <<connections, open, made, reconnecting, read_generation,
                    last_read_success, exec_mutex, pc, job, wd, held>>
        /\ UNCHANGED <<main, running, workers_live, drain_failed>>
    BY Zenon, <1>3 DEF vars, slot, life
  <2>2. Types'
    BY Zenon, <2>1 DEF IInv, Types, SlotTypes, ThreadTypes
  <2>3. LifeTypes'
    BY Zenon, <2>1 DEF IInv, LifeTypes, Live
  <2>4. Owner' /\ Hands' /\ Using' /\ Generations' /\ Ending'
    BY <2>1 DEF IInv, Safe, Owner, Hands, Using, Generations, Ending
  <2>5. NothingLeaks' /\ VerifiedIsCurrent'
    BY Zenon, <2>1 DEF IInv, Safe, NothingLeaks, VerifiedIsCurrent
  <2> QED  BY Zenon, <2>2, <2>3, <2>4, <2>5 DEF IInv, Safe
<1> QED  BY Zenon, <1>1, <1>2, <1>3

LEMMA ConnInvariant == Spec => []IInv
<1>1. Init => IInv BY InitIInv
<1>2. IInv /\ [Next]_vars => IInv' BY StepIInv
<1> QED  BY <1>1, <1>2, PTL DEF Spec

-----------------------------------------------------------------------------
(* The variables of the slot, the threads and the pool keep their types,   *)
(* and workers_live, which onode_destroy() trusts, counts exactly the      *)
(* workers before their last section.                                      *)
THEOREM ConnTypeCorrect == Spec => []TypeOK
<1>1. IInv => TypeOK
  BY Zenon DEF IInv, Types, TypeOK, LifeTypes
<1> QED  BY <1>1, ConnInvariant, PTL

(* exec_mutex keeps driver calls on one connection apart, and no           *)
(* connection is torn down during a call on it, whichever of the workers,  *)
(* the watchdog and an unknown outcome's drop come first.                  *)
THEOREM CallsExclusive == Spec => []ChannelExclusive
<1>1. IInv => ChannelExclusive
  BY DEF IInv, Types, ThreadTypes, Safe, Owner, Hands, Using, ChannelExclusive, InUse, Holding,
         WatchHolding
<1> QED  BY <1>1, ConnInvariant, PTL

(* get_connection(), drop_connection() and the watchdog lose no open       *)
(* connection: the double-connect race tears down one of the two.          *)
THEOREM NoConnectionLost == Spec => []NothingLeaks
<1>1. IInv => NothingLeaks
  BY Zenon DEF IInv, Safe
<1> QED  BY <1>1, ConnInvariant, PTL

(* A late read never verifies a connection it did not run on, for any      *)
(* number of reads and drops between its execute and its stamp.            *)
THEOREM LateReadVerifiesNothing == Spec => []VerifiedIsCurrent
<1>1. IInv => VerifiedIsCurrent
  BY Zenon DEF IInv, Safe
<1> QED  BY <1>1, ConnInvariant, PTL

(* onode_destroy() tears nothing down that a worker before its last        *)
(* section or the watchdog uses, for any size of the pool.                 *)
THEOREM TeardownIsQuiet == Spec => []DestroyedIsQuiet
<1>1. IInv => DestroyedIsQuiet
  BY DEF IInv, Types, ThreadTypes, Safe, Owner, Ending, DestroyedIsQuiet, Holding, WatchHolding
<1> QED  BY <1>1, ConnInvariant, PTL
=============================================================================
