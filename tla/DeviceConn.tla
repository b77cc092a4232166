---------------------------- MODULE DeviceConn ----------------------------
(***************************************************************************)
(* One device's connection slot, shared by the worker threads, the         *)
(* watchdog and the main thread that tears the daemon down                 *)
(* (src/src/virp_onode.c: get_connection, drop_connection,                 *)
(* watchdog_thread_fn, connection_worker, onode_start, onode_destroy).     *)
(* A section under conn_mutex or state_mutex is one step; exec_mutex is    *)
(* held over many.  Connections are numbered as they are made, so a        *)
(* connection is never mistaken for a later one.                           *)
(***************************************************************************)
EXTENDS Naturals, FiniteSets

CONSTANTS Workers, Watchdog, None, MaxConn, MaxGen

ASSUME ConnAssumption ==
    /\ Watchdog \notin Workers /\ None \notin Workers /\ None # Watchdog
    /\ None \notin Nat
    /\ MaxConn \in Nat /\ MaxGen \in Nat

ASSUME PoolAssumption == IsFiniteSet(Workers)

VARIABLES
    connections,        \* the slot: a connection or None
    open,               \* connections the driver has not torn down
    made,               \* connections made so far
    reconnecting, read_generation,
    last_read_success,  \* the connection whose read was stamped, or None
    exec_mutex,
    pc, job,            \* per worker: its place, and what it holds
    wd, held,           \* the watchdog's place and the connection it holds
    main, running, workers_live, drain_failed

slot == <<connections, open, made, reconnecting, read_generation, last_read_success>>
life == <<main, running, workers_live, drain_failed>>
vars == <<slot, exec_mutex, pc, job, wd, held, life>>

NoJob == [read |-> FALSE, conn |-> None, stale |-> None, gen |-> 0, again |-> FALSE]

Init ==
    /\ connections = None /\ open = {} /\ made = 0
    /\ reconnecting = FALSE /\ read_generation = 0 /\ last_read_success = None
    /\ exec_mutex = None
    /\ pc = [w \in Workers |-> "free"] /\ job = [w \in Workers |-> NoJob]
    /\ wd = "look" /\ held = None
    /\ main = "serve" /\ running = TRUE /\ workers_live = 0 /\ drain_failed = FALSE

-----------------------------------------------------------------------------
(* What driver calls do *)

(* drv->connect(): a new connection, or nothing. *)
Connects(result) ==
    \/ /\ result = None
       /\ UNCHANGED <<open, made>>
    \/ /\ made < MaxConn
       /\ result = made + 1
       /\ made' = made + 1
       /\ open' = open \cup {made + 1}

(* drv->disconnect() *)
Disconnects(conn) == open' = open \ {conn}

-----------------------------------------------------------------------------
(* A worker's request on the device *)

Goes(w, place) == pc' = [pc EXCEPT ![w] = place]

(* Fault: a return that forgets pthread_mutex_unlock(&exec_mutex[i]). *)
Leaves_KeepsLock(w, place) == Goes(w, place) /\ UNCHANGED exec_mutex

(* Release exec_mutex and go on without the device. *)
Leaves(w, place) == Goes(w, place) /\ exec_mutex' = None

(* The accept loop starts a worker in a free place of the pool. *)
Accept(w) ==
    /\ main = "serve" /\ pc[w] = "free"
    /\ workers_live' = workers_live + 1
    /\ Goes(w, "start")
    /\ UNCHANGED <<slot, exec_mutex, job, wd, held, main, running, drain_failed>>

(* A request that never reaches a device. *)
Answer(w) ==
    /\ pc[w] = "start"
    /\ Goes(w, "end")
    /\ UNCHANGED <<slot, exec_mutex, job, wd, held, life>>

(* An admitted command; a GREEN one is a read. *)
Lock(w, read) ==
    /\ pc[w] = "start" /\ exec_mutex = None
    /\ read_generation < MaxGen
    /\ exec_mutex' = w
    /\ job' = [job EXCEPT ![w] = [NoJob EXCEPT !.read = read]]
    /\ Goes(w, "get")
    /\ UNCHANGED <<slot, wd, held, life>>

(* With a connection in hand: an approved apply probes it first. *)
Proceed(w, conn) ==
    /\ job' = [job EXCEPT ![w].conn = conn]
    /\ \/ Goes(w, "mark")
       \/ ~job[w].read /\ ~job[w].again /\ Goes(w, "probe")
    /\ UNCHANGED exec_mutex

GetCached(w) ==
    /\ pc[w] = "get" /\ connections # None
    /\ Proceed(w, connections)
    /\ UNCHANGED <<slot, wd, held, life>>

(* "If watchdog is already reconnecting this device, don't double-connect" *)
GetReconnecting(w) ==
    /\ pc[w] = "get" /\ connections = None /\ reconnecting
    /\ Leaves(w, "end")
    /\ UNCHANGED <<slot, job, wd, held, life>>

GetConnects(w) ==
    /\ pc[w] = "get" /\ connections = None /\ ~reconnecting
    /\ Goes(w, "connect")
    /\ UNCHANGED <<slot, exec_mutex, job, wd, held, life>>

Connected(w) ==
    /\ pc[w] = "connect"
    /\ \E c \in {None, made + 1} : Connects(c) /\ job' = [job EXCEPT ![w].stale = c]
    /\ Goes(w, "store")
    /\ UNCHANGED <<connections, reconnecting, read_generation, last_read_success,
                   exec_mutex, wd, held, life>>

(* Fault: a connection made meanwhile is overwritten. *)
Store_Overwrites(w) ==
    /\ pc[w] = "store"
    /\ connections' = job[w].stale
    /\ job' = [job EXCEPT ![w].stale = None, ![w].conn = job[w].stale]
    /\ IF job[w].stale = None THEN Leaves(w, "end")
       ELSE Goes(w, "mark") /\ UNCHANGED exec_mutex
    /\ UNCHANGED <<open, made, reconnecting, read_generation, last_read_success,
                   wd, held, life>>

(* "Another thread may have connected while we were blocked" *)
Store(w) ==
    /\ pc[w] = "store"
    /\ job' = [job EXCEPT ![w].stale = None, ![w].conn = job[w].stale]
    /\ \/ /\ connections # None
          /\ Disconnects(job[w].stale)
          /\ Goes(w, "reread")
          /\ UNCHANGED <<connections, exec_mutex>>
       \/ /\ connections = None
          /\ connections' = job[w].stale
          /\ IF job[w].stale = None THEN Leaves(w, "end")
             ELSE Goes(w, "stored") /\ UNCHANGED exec_mutex
          /\ UNCHANGED open
    /\ UNCHANGED <<made, reconnecting, read_generation, last_read_success,
                   wd, held, life>>

(* get_connection() returns: what it stored, or what the slot holds now,   *)
(* read again without conn_mutex (the worker's exec_mutex keeps everyone   *)
(* from emptying it).                                                      *)
Returned(w) ==
    /\ pc[w] \in {"stored", "reread"}
    /\ Proceed(w, IF pc[w] = "stored" THEN job[w].conn ELSE connections)
    /\ UNCHANGED <<slot, wd, held, life>>

(* drop_connection(), its section under conn_mutex; what is torn down next *)
(* is kept in stale.                                                       *)
Drop(w, place) ==
    /\ job' = [job EXCEPT ![w].stale = connections, ![w].conn = None]
    /\ connections' = None
    /\ last_read_success' = None
    /\ read_generation' = read_generation + 1
    /\ Goes(w, place)
    /\ UNCHANGED <<open, made, reconnecting, wd, held, life>>

(* drop_connection(), the teardown outside conn_mutex. *)
Dropped(w) ==
    /\ pc[w] \in {"drop", "redial"}
    /\ Disconnects(job[w].stale)
    /\ job' = [job EXCEPT ![w].stale = None, ![w].again = (pc[w] = "redial")]
    /\ IF pc[w] = "drop" THEN Leaves(w, "end")
       ELSE Goes(w, "get") /\ UNCHANGED exec_mutex
    /\ UNCHANGED <<connections, made, reconnecting, read_generation,
                   last_read_success, wd, held, life>>

ProbeFails(w) == pc[w] = "probe" /\ Drop(w, "drop") /\ UNCHANGED exec_mutex

ProbeSucceeds(w) ==
    /\ pc[w] = "probe"
    /\ Goes(w, "mark")
    /\ UNCHANGED <<slot, exec_mutex, job, wd, held, life>>

(* The gate refuses after the connection was made (see GateApply). *)
Refused(w) ==
    /\ pc[w] = "mark" /\ ~job[w].again
    /\ Leaves(w, "end")
    /\ UNCHANGED <<slot, job, wd, held, life>>

(* A read takes a generation of its own before it is sent. *)
Mark(w) ==
    /\ pc[w] = "mark"
    /\ \/ /\ job[w].read
          /\ read_generation' = read_generation + 1
          /\ job' = [job EXCEPT ![w].gen = read_generation + 1]
          /\ last_read_success' = IF job[w].again THEN last_read_success ELSE None
       \/ /\ ~job[w].read
          /\ UNCHANGED <<read_generation, job, last_read_success>>
    /\ Goes(w, "run")
    /\ UNCHANGED <<connections, open, made, reconnecting, exec_mutex, wd, held, life>>

(* drv->execute() returned an error. *)
RunErrs(w) == pc[w] = "run" /\ Drop(w, "drop") /\ UNCHANGED exec_mutex

(* The driver proved that nothing was sent: one retry. *)
RunNotSent(w) ==
    /\ pc[w] = "run" /\ ~job[w].again
    /\ Drop(w, "redial")
    /\ UNCHANGED exec_mutex

(* Any other end: the device may be used by others from here on. *)
RunEnds(w) ==
    /\ pc[w] = "run"
    /\ \E place \in {"unknown", "end"} \cup (IF job[w].read THEN {"stamp"} ELSE {}) :
           Leaves(w, place)
    /\ UNCHANGED <<slot, job, wd, held, life>>

(* Fault: the connection is dropped without taking exec_mutex again. *)
Unknown_NoLock(w) == pc[w] = "unknown" /\ Drop(w, "drop") /\ UNCHANGED exec_mutex

(* An unknown outcome drops whatever connection is in the slot by then. *)
Unknown(w) ==
    /\ pc[w] = "unknown" /\ exec_mutex = None
    /\ exec_mutex' = w
    /\ Drop(w, "drop")

(* Fault: the generation is not compared. *)
Current_AnyRead(w) == connections # None

Current(w) == connections # None /\ read_generation = job[w].gen

(* A successful read verifies the connection it ran on. *)
Stamp(w) ==
    /\ pc[w] = "stamp"
    /\ last_read_success' = IF Current(w) THEN job[w].conn ELSE last_read_success
    /\ Goes(w, "end")
    /\ UNCHANGED <<connections, open, made, reconnecting, read_generation,
                   exec_mutex, job, wd, held, life>>

(* connection_worker(): the count, under state_mutex ... *)
End(w) ==
    /\ pc[w] = "end"
    /\ workers_live' = workers_live - 1
    /\ job' = [job EXCEPT ![w] = NoJob]
    /\ Goes(w, "post")
    /\ UNCHANGED <<slot, exec_mutex, wd, held, main, running, drain_failed>>

(* ... and then sem_post(&state->worker_sem). *)
Post(w) ==
    /\ pc[w] = "post"
    /\ Goes(w, "free")
    /\ UNCHANGED <<slot, exec_mutex, job, wd, held, life>>

-----------------------------------------------------------------------------
(* The watchdog.  It is the only thread that sets reconnecting, so its own *)
(* tests of that flag never hold.                                          *)

WatchConnects ==
    /\ wd = "look" /\ running /\ connections = None
    /\ reconnecting' = TRUE
    /\ wd' = "connect"
    /\ UNCHANGED <<connections, open, made, read_generation, last_read_success,
                   exec_mutex, pc, job, held, life>>

WatchConnected ==
    /\ wd = "connect"
    /\ \E c \in {None, made + 1} : Connects(c) /\ held' = c
    /\ wd' = "store"
    /\ UNCHANGED <<connections, reconnecting, read_generation, last_read_success,
                   exec_mutex, pc, job, life>>

WatchStores ==
    /\ wd = "store"
    /\ reconnecting' = FALSE
    /\ IF connections # None
       THEN Disconnects(held) /\ UNCHANGED connections
       ELSE connections' = held /\ UNCHANGED open
    /\ held' = None
    /\ wd' = "look"
    /\ UNCHANGED <<made, read_generation, last_read_success, exec_mutex, pc, job, life>>

(* A connection is there: take exec_mutex, after letting conn_mutex go. *)
WatchLocks ==
    /\ \/ wd = "look" /\ running /\ connections # None /\ read_generation < MaxGen
          /\ wd' = "lock" /\ UNCHANGED exec_mutex
       \/ wd = "lock" /\ exec_mutex = None
          /\ wd' = "validate" /\ exec_mutex' = Watchdog
    /\ UNCHANGED <<slot, pc, job, held, life>>

WatchValidates ==
    /\ wd = "validate"
    /\ \/ /\ ~running \/ connections = None
          /\ exec_mutex' = None /\ wd' = "look"
          /\ UNCHANGED held
       \/ /\ running /\ connections # None
          /\ held' = connections /\ wd' = "probe"
          /\ UNCHANGED exec_mutex
    /\ UNCHANGED <<slot, pc, job, life>>

WatchProbeSucceeds ==
    /\ wd = "probe"
    /\ exec_mutex' = None /\ held' = None /\ wd' = "look"
    /\ UNCHANGED <<slot, pc, job, life>>

(* Null the slot and arm the reconnect, then tear down under exec_mutex. *)
WatchProbeFails ==
    /\ wd = "probe"
    /\ held' = connections
    /\ connections' = None
    /\ last_read_success' = None
    /\ read_generation' = read_generation + 1
    /\ reconnecting' = TRUE
    /\ wd' = "drop"
    /\ UNCHANGED <<open, made, exec_mutex, pc, job, life>>

WatchDrops ==
    /\ wd = "drop"
    /\ Disconnects(held)
    /\ held' = None
    /\ exec_mutex' = None
    /\ wd' = "clear"
    /\ UNCHANGED <<connections, made, reconnecting, read_generation,
                   last_read_success, pc, job, life>>

WatchClears ==
    /\ wd = "clear"
    /\ reconnecting' = FALSE
    /\ wd' = "look"
    /\ UNCHANGED <<connections, open, made, read_generation, last_read_success,
                   exec_mutex, pc, job, held, life>>

WatchStops ==
    /\ wd = "look" /\ ~running
    /\ wd' = "stopped"
    /\ UNCHANGED <<slot, exec_mutex, pc, job, held, life>>

-----------------------------------------------------------------------------
(* The main thread *)

(* onode_shutdown(), from a signal handler. *)
Shutdown ==
    /\ main = "serve" /\ running
    /\ running' = FALSE
    /\ UNCHANGED <<slot, exec_mutex, pc, job, wd, held, main, workers_live, drain_failed>>

LeaveLoop ==
    /\ main = "serve" /\ ~running
    /\ main' = "drain"
    /\ UNCHANGED <<slot, exec_mutex, pc, job, wd, held, running, workers_live, drain_failed>>

(* The wait on workers_cv ends with its condition or its deadline. *)
Drain ==
    /\ main = "drain"
    /\ drain_failed' = (workers_live > 0)
    /\ main' = "join"
    /\ UNCHANGED <<slot, exec_mutex, pc, job, wd, held, running, workers_live>>

Join ==
    /\ main = "join" /\ wd = "stopped"
    /\ main' = "teardown"
    /\ UNCHANGED <<slot, exec_mutex, pc, job, wd, held, running, workers_live, drain_failed>>

MayDestroy == ~drain_failed /\ workers_live = 0

(* "REFUSING TEARDOWN": everything is leaked. *)
Leak ==
    /\ main = "teardown" /\ ~MayDestroy
    /\ main' = "leaked"
    /\ UNCHANGED <<slot, exec_mutex, pc, job, wd, held, running, workers_live, drain_failed>>

Destroy ==
    /\ main = "teardown" /\ MayDestroy
    /\ exec_mutex = None
    /\ Disconnects(connections)
    /\ connections' = None
    /\ main' = "destroyed"
    /\ UNCHANGED <<made, reconnecting, read_generation, last_read_success, exec_mutex,
                   pc, job, wd, held, running, workers_live, drain_failed>>

-----------------------------------------------------------------------------
Execute(w) ==
    \/ GetCached(w) \/ GetReconnecting(w) \/ GetConnects(w) \/ Connected(w)
    \/ Store(w) \/ Returned(w) \/ Dropped(w) \/ ProbeFails(w) \/ ProbeSucceeds(w)
    \/ Refused(w) \/ Mark(w) \/ RunErrs(w) \/ RunNotSent(w) \/ RunEnds(w)
    \/ Unknown(w) \/ Stamp(w) \/ End(w) \/ Post(w)

Watch ==
    \/ WatchConnects \/ WatchConnected \/ WatchStores \/ WatchLocks \/ WatchValidates
    \/ WatchProbeSucceeds \/ WatchProbeFails \/ WatchDrops \/ WatchClears \/ WatchStops

Teardown == LeaveLoop \/ Drain \/ Join \/ Leak \/ Destroy

Next ==
    \/ \E w \in Workers : Accept(w) \/ Answer(w) \/ Execute(w)
    \/ \E w \in Workers, read \in BOOLEAN : Lock(w, read)
    \/ Watch
    \/ Shutdown
    \/ Teardown

Spec == Init /\ [][Next]_vars

(* Threads inside a call into the driver: connect, disconnect, health_check *)
(* or execute.                                                              *)
InDriver(w) == pc[w] \in {"connect", "store", "probe", "run", "drop", "redial"}
WatchInDriver == wd \in {"connect", "store", "probe", "drop"}
MainInDriver == main = "teardown" /\ MayDestroy

(* Every thread keeps running while it is not in the driver: that a driver  *)
(* call returns is not assumed.  No fairness is asked of the locks beyond   *)
(* being taken when they stay free.                                         *)
FairSpec ==
    /\ Spec
    /\ \A w \in Workers : WF_vars(~InDriver(w) /\ Execute(w))
    /\ WF_vars(~WatchInDriver /\ Watch)
    /\ WF_vars(~MainInDriver /\ Teardown)

-----------------------------------------------------------------------------
(* Properties *)

Conns == Nat \ {0}

SlotTypes ==
    /\ connections \in Conns \cup {None}
    /\ open \subseteq Conns
    /\ made \in Nat
    /\ reconnecting \in BOOLEAN
    /\ read_generation \in Nat
    /\ last_read_success \in Conns \cup {None}

ThreadTypes ==
    /\ exec_mutex \in Workers \cup {Watchdog, None}
    /\ pc \in [Workers -> {"free", "start", "get", "connect", "store", "stored", "reread",
                           "probe", "mark", "run", "drop", "redial", "unknown", "stamp",
                           "end", "post"}]
    /\ job \in [Workers -> [read : BOOLEAN, conn : Conns \cup {None},
                            stale : Conns \cup {None}, gen : Nat, again : BOOLEAN]]
    /\ wd \in {"look", "connect", "store", "lock", "validate", "probe", "drop", "clear",
               "stopped"}
    /\ held \in Conns \cup {None}

(* The workers that have not reached their last section. *)
Live == {w \in Workers : pc[w] \notin {"free", "post"}}

LifeTypes ==
    /\ main \in {"serve", "drain", "join", "teardown", "leaked", "destroyed"}
    /\ running \in BOOLEAN /\ drain_failed \in BOOLEAN
    /\ workers_live = Cardinality(Live)

(* The one type invariant of the module; workers_live counts Live.         *)
TypeOK == SlotTypes /\ ThreadTypes /\ LifeTypes

InUse(w) == pc[w] \in {"probe", "run"}

(* "concurrent channel operations on one libssh2 session are a data race": *)
(* a driver call always works on a connection that is not torn down, and   *)
(* no two threads are ever in driver calls on the same connection.         *)
ChannelExclusive ==
    /\ \A w \in Workers : InUse(w) => job[w].conn \in open
    /\ wd = "probe" => held \in open
    /\ \A w, v \in Workers : InUse(w) /\ InUse(v) /\ job[w].conn = job[v].conn => w = v
    /\ \A w \in Workers : ~(InUse(w) /\ wd = "probe" /\ job[w].conn = held)

(* Every connection the driver keeps open is in the slot or in the hands   *)
(* of the thread that will store it or tear it down.                       *)
NothingLeaks ==
    \A c \in open : \/ c = connections \/ c = held
                    \/ \E w \in Workers : job[w].stale = c

(* LIST reports read_verified only for the connection the read ran on: a   *)
(* read that ends after its connection was replaced verifies nothing.      *)
VerifiedIsCurrent ==
    last_read_success # None /\ main # "destroyed" => last_read_success = connections

(* onode_destroy() frees nothing a thread still works with, and closes     *)
(* every connection.                                                       *)
DestroyedIsQuiet ==
    main = "destroyed" =>
        /\ \A w \in Workers : pc[w] \in {"free", "post"}
        /\ wd = "stopped" /\ exec_mutex = None
        /\ open = {}

(* A shutdown ends as long as no driver call hangs: no thread is left      *)
(* waiting for exec_mutex, and the watchdog is always joined.  A call that *)
(* hangs holding exec_mutex keeps the watchdog, and so pthread_join(), for *)
(* ever; the drain's deadline does not help there.                         *)
DriverCallsReturn ==
    /\ \A w \in Workers : []<>~InDriver(w)
    /\ []<>~WatchInDriver
    /\ []<>~MainInDriver
ShutdownEnds == DriverCallsReturn => (~running ~> main \in {"leaked", "destroyed"})

(* "onode_start()'s drain waits on workers_cv for the count to reach zero  *)
(* before onode_destroy() may tear down state this thread was using": no   *)
(* worker has a step left when the state is destroyed.  Not so: sem_post() *)
(* comes after the count.                                                  *)
NothingAfterDestroy == main = "destroyed" => \A w \in Workers : pc[w] = "free"
=============================================================================
