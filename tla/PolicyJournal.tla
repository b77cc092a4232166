--------------------------- MODULE PolicyJournal ---------------------------
(***************************************************************************)
(* The owner policy (virp_policy.c) and its durable journal of attempts,   *)
(* with the owner's administration tool (tools/policy/owner.py).  A        *)
(* request is checked against the grants, reserved in the journal in one   *)
(* transaction before anything is sent, dispatched, and finished as done   *)
(* or unknown.  Requests run in concurrent workers; the daemon may die and *)
(* be started again; finishing may fail; the wall clock may be set back.   *)
(*                                                                         *)
(* Abstracted: command grammar (an action is already classified), host,    *)
(* port and vendor of a grant, VLAN ranges, the exec_mutex of a device     *)
(* (without it more interleavings are checked).                            *)
(***************************************************************************)
EXTENDS Naturals, Sequences, FiniteSets

CONSTANTS
    Workers,
    Actions,        \* classified actions [uid, dev, res, effect]
    Protected,      \* owner-protected resources <<dev, res>>
    Observers,      \* uids whose profile is "observe"
    Expires,        \* per uid: end of the grant
    max_calls, max_disruptive, max_inflight,
    Idle,           \* no action
    MaxTime         \* bound on the wall clock

ASSUME BudgetAssumption ==
    max_calls \in Nat /\ max_disruptive \in Nat /\ max_inflight \in Nat
ASSUME TimeAssumption == MaxTime \in Nat

Uids == {a.uid : a \in Actions}

(* The catalog has no bounded change of a whole host. *)
ASSUME ActionsAssumption ==
    /\ \A a \in Actions : a.effect \in 0..2 /\ (a.res = "host" => a.effect # 1)
    /\ Expires \in [Uids -> Nat]
    /\ Idle \notin Actions

VARIABLES
    stopped, calls, disruptive, last_time,   \* policy_control
    attempts,   \* policy_attempts: [act, state, created], by rowid
    fate,       \* what really happened: unsent, open (may have acted), settled
    daemon,     \* "up", or "down" while nobody holds the journal
    now,        \* wall clock
    pc, act, ticket, known   \* per worker: policy_call

vars == <<stopped, calls, disruptive, last_time, attempts, fate, daemon, now,
          pc, act, ticket, known>>

control == <<stopped, calls, disruptive, last_time>>
call == <<pc, act, ticket, known>>

Init ==
    /\ stopped = FALSE /\ calls = 0 /\ disruptive = 0 /\ last_time = 0
    /\ attempts = <<>> /\ fate = <<>>
    /\ daemon = "down"
    /\ now = 0
    /\ pc = [w \in Workers |-> "idle"]
    /\ act = [w \in Workers |-> Idle]
    /\ ticket = [w \in Workers |-> 0]
    /\ known = [w \in Workers |-> FALSE]

-----------------------------------------------------------------------------
(* Checking an action against the policy *)

(* Two resources of which one contains the other. *)
Overlap(a, b) == a.dev = b.dev /\ (a.res = b.res \/ a.res = "host" \/ b.res = "host")

Blocks(p, a) ==
    /\ a.dev = p[1]
    /\ p[2] = "host" \/ a.res = p[2] \/ (a.effect = 2 /\ a.res = "host")

(* virp_policy_check(): protected resources, the grant's expiry, the profile. *)
Check(w, a) ==
    /\ daemon = "up" /\ pc[w] = "idle"
    /\ a.effect # 0 => ~\E p \in Protected : Blocks(p, a)
    /\ now < Expires[a.uid]
    /\ a.effect # 0 => a.uid \notin Observers
    /\ pc' = [pc EXCEPT ![w] = "reserve"]
    /\ act' = [act EXCEPT ![w] = a]
    /\ UNCHANGED <<control, attempts, fate, daemon, now, ticket, known>>

-----------------------------------------------------------------------------
(* virp_policy_reserve(): one transaction *)

Rows(s) == {i \in DOMAIN attempts : attempts[i].state = s}

(* Fault: the journal's last time is not compared with the clock. *)
InTime_NoRollbackCheck(a) == now < Expires[a.uid]

InTime(a) == now < Expires[a.uid] /\ now >= last_time

(* Fault: the budget admits one call too many. *)
InBudget_OffByOne(a) ==
    /\ calls <= max_calls
    /\ a.effect = 2 => disruptive <= max_disruptive

InBudget(a) ==
    /\ calls < max_calls
    /\ a.effect = 2 => disruptive < max_disruptive

(* The attempts that make a further mutation ambiguous. *)
Ambiguous(a) ==
    {i \in DOMAIN attempts :
        \/ attempts[i].state = "unknown" /\ attempts[i].act.effect # 0
        \/ attempts[i].state = "pending" /\ Overlap(attempts[i].act, a)}

InflightFree == Cardinality(Rows("pending")) < max_inflight

Reserve(w) ==
    LET a == act[w] IN
    /\ pc[w] = "reserve"
    /\ InTime(a)
    /\ ~stopped
    /\ InBudget(a)
    /\ InflightFree
    /\ a.effect # 0 => Ambiguous(a) = {}
    /\ attempts' = Append(attempts, [act |-> a, state |-> "pending", created |-> now])
    /\ fate' = Append(fate, "unsent")
    /\ calls' = calls + 1
    /\ disruptive' = IF a.effect = 2 THEN disruptive + 1 ELSE disruptive
    /\ last_time' = now
    /\ ticket' = [ticket EXCEPT ![w] = Len(attempts) + 1]
    /\ known' = [known EXCEPT ![w] = TRUE]
    /\ pc' = [pc EXCEPT ![w] = "send"]
    /\ UNCHANGED <<stopped, daemon, now, act>>

(* Any guard fails, or a statement does: ROLLBACK, refused as BLACK. *)
ReserveRefused(w) ==
    /\ pc[w] = "reserve"
    /\ pc' = [pc EXCEPT ![w] = "idle"]
    /\ act' = [act EXCEPT ![w] = Idle]
    /\ UNCHANGED <<control, attempts, fate, daemon, now, ticket, known>>

-----------------------------------------------------------------------------
(* Dispatch and finish *)

(* Connecting or the evidence gate refuses: known stays TRUE, NOT_SENT. *)
NotSent(w) ==
    /\ pc[w] = "send"
    /\ pc' = [pc EXCEPT ![w] = "finish"]
    /\ UNCHANGED <<control, attempts, fate, daemon, now, act, ticket, known>>

(* policy_driver_execute() clears known before the driver is called. *)
Send(w) ==
    /\ pc[w] = "send"
    /\ fate' = [fate EXCEPT ![ticket[w]] = "open"]
    /\ known' = [known EXCEPT ![w] = FALSE]
    /\ pc' = [pc EXCEPT ![w] = "wait"]
    /\ UNCHANGED <<control, attempts, daemon, now, act, ticket>>

(* The driver proves a disposition (k), or it does not. *)
Returns(w, k) ==
    /\ pc[w] = "wait"
    /\ fate' = IF k THEN [fate EXCEPT ![ticket[w]] = "settled"] ELSE fate
    /\ known' = [known EXCEPT ![w] = k]
    /\ pc' = [pc EXCEPT ![w] = "finish"]
    /\ UNCHANGED <<control, attempts, daemon, now, act, ticket>>

EndCall(w) ==
    /\ pc' = [pc EXCEPT ![w] = "idle"]
    /\ act' = [act EXCEPT ![w] = Idle]
    /\ ticket' = [ticket EXCEPT ![w] = 0]
    /\ known' = [known EXCEPT ![w] = FALSE]

(* Fault: the result is recorded as done whatever the driver proved. *)
FinalState_AlwaysDone(w) == {"done"}

(* done needs known, an answer without error, and evidence not degraded. *)
FinalState(w) == IF known[w] THEN {"done", "unknown"} ELSE {"unknown"}

Finish(w) ==
    /\ pc[w] = "finish"
    /\ \E s \in FinalState(w) :
         attempts' = IF attempts[ticket[w]].state = "pending"
                       THEN [attempts EXCEPT ![ticket[w]].state = s] ELSE attempts
    /\ EndCall(w)
    /\ UNCHANGED <<control, fate, daemon, now>>

(* The UPDATE fails: the caller gets an error, the row stays pending. *)
FinishFails(w) ==
    /\ pc[w] = "finish"
    /\ EndCall(w)
    /\ UNCHANGED <<control, attempts, fate, daemon, now>>

-----------------------------------------------------------------------------
(* The process, the owner and the clock *)

(* Fault: attempts abandoned by the previous process are dropped as done. *)
Abandoned_Done == "done"

Abandoned == "unknown"

(* virp_policy_load(): custody of the journal; what is pending is unknown. *)
Start ==
    /\ daemon = "down"
    /\ daemon' = "up"
    /\ attempts' = [i \in DOMAIN attempts |->
           IF attempts[i].state = "pending" THEN [attempts[i] EXCEPT !.state = Abandoned]
           ELSE attempts[i]]
    /\ UNCHANGED <<control, fate, now, call>>

(* The process ends, orderly or not; flock() goes with it. *)
Die ==
    /\ daemon = "up"
    /\ daemon' = "down"
    /\ pc' = [w \in Workers |-> "idle"]
    /\ act' = [w \in Workers |-> Idle]
    /\ ticket' = [w \in Workers |-> 0]
    /\ known' = [w \in Workers |-> FALSE]
    /\ UNCHANGED <<control, attempts, fate, now>>

(* owner.py stop / resume, also beside a running daemon. *)
OwnerStops ==
    /\ stopped' = ~stopped
    /\ UNCHANGED <<calls, disruptive, last_time, attempts, fate, daemon, now, call>>

(* owner.py reconcile: needs the same custody as the daemon.  The owner *)
(* has inspected the target.                                            *)
OwnerReconciles(i) ==
    /\ daemon = "down"
    /\ attempts[i].state \in {"pending", "unknown"}
    /\ attempts' = [attempts EXCEPT ![i].state = "reconciled"]
    /\ fate' = [fate EXCEPT ![i] = "settled"]
    /\ UNCHANGED <<control, daemon, now, call>>

ClockSet(t) ==
    /\ t # now
    /\ now' = t
    /\ UNCHANGED <<control, attempts, fate, daemon, call>>

Next ==
    \/ \E w \in Workers, a \in Actions : Check(w, a)
    \/ \E w \in Workers :
         \/ Reserve(w) \/ ReserveRefused(w) \/ NotSent(w) \/ Send(w)
         \/ Finish(w) \/ FinishFails(w)
         \/ \E k \in BOOLEAN : Returns(w, k)
    \/ Start \/ Die \/ OwnerStops
    \/ \E i \in DOMAIN attempts : OwnerReconciles(i)
    \/ \E t \in 0..MaxTime : ClockSet(t)

Spec == Init /\ [][Next]_vars

-----------------------------------------------------------------------------
(* Properties *)

(* The one type invariant of the module. *)
TypeOK ==
    /\ stopped \in BOOLEAN /\ calls \in Nat /\ disruptive \in Nat
    /\ last_time \in Nat /\ now \in Nat
    /\ attempts \in Seq([act : Actions, created : Nat,
                         state : {"pending", "done", "unknown", "reconciled"}])
    /\ fate \in Seq({"unsent", "open", "settled"}) /\ Len(fate) = Len(attempts)
    /\ daemon \in {"up", "down"}
    /\ pc \in [Workers -> {"idle", "reserve", "send", "wait", "finish"}]
    /\ act \in [Workers -> Actions \cup {Idle}]
    /\ \A w \in Workers : ticket[w] \in 0..Len(attempts)
    /\ known \in [Workers -> BOOLEAN]

Mutation(i) == attempts[i].act.effect # 0

Sent(i) == fate[i] # "unsent"

(* BLACK-14: as long as it is open whether a mutation took effect, no      *)
(* overlapping one is sent, across failed finishes and restarts.           *)
NoRepeatWhileOpen ==
    \A i, j \in DOMAIN attempts :
        i < j /\ Mutation(i) /\ Mutation(j) /\ fate[i] = "open" /\ Sent(j)
            => ~Overlap(attempts[i].act, attempts[j].act)

(* An attempt the journal calls done is not open in the real world. *)
DoneIsSettled ==
    \A i \in DOMAIN attempts : attempts[i].state = "done" => fate[i] # "open"

(* BLACK-12: the budgets bound what was ever sent, over all restarts.      *)
BudgetsHold ==
    /\ Cardinality({i \in DOMAIN attempts : Sent(i)}) <= max_calls
    /\ Cardinality({i \in DOMAIN attempts : Sent(i) /\ attempts[i].act.effect = 2})
         <= max_disruptive

(* BLACK-13: once anything was reserved at or after the end of a grant,    *)
(* setting the clock back does not revive the grant, not even after a      *)
(* restart.                                                                *)
ExpiredStaysExpired ==
    \A i, j \in DOMAIN attempts :
        i < j => attempts[i].created < Expires[attempts[j].act.uid]
============================================================================
