---------------------------- MODULE GateApply ----------------------------
(***************************************************************************)
(* The execution path of the O-Node daemon: onode_execute_legacy() and the *)
(* chain records it writes around the driver call (virp_onode.c), with the *)
(* consumption half of the approval store (virp_approval.c).               *)
(*                                                                         *)
(* A request is one connection worker running the handler.  It serialises  *)
(* on the device's exec_mutex, passes the tier gate (by itself, or with a  *)
(* verified human approval), connects, commits a gate_intent BEFORE the    *)
(* driver is called and a closer (gate_execution or outcome) after it.     *)
(* The intent commit is what consumes an approval; consumed.list is only a *)
(* cache of it.  The daemon may die between any two steps; the chain and   *)
(* consumed.list survive, the degraded latch does not.                     *)
(*                                                                         *)
(* evidence_required is TRUE throughout: main() of the daemon sets it      *)
(* after the devices file was read, whatever that says, so the branches    *)
(* for a node without it are not modelled.                                 *)
(*                                                                         *)
(* Abstracted: command text, classification and signatures (the gate may   *)
(* refuse any request), the connection table, and what the driver printed. *)
(***************************************************************************)
EXTENDS Naturals, FiniteSets

CONSTANTS
    Requests,         \* worker threads, one per client request
    Devices,
    Approvals,        \* signed approvals on file
    Chained,          \* those whose record names its APPROVAL chain entry
    ApprovalDevice,   \* the device an approval names
    NoApproval,       \* the request carries no proposal_id
    Free              \* an unlocked mutex, an unwritten consumed.list line

ASSUME ApprovalAssumption ==
    /\ NoApproval \notin Approvals
    /\ Chained \subseteq Approvals
    /\ ApprovalDevice \in [Approvals -> Devices]

ASSUME FreeAssumption == Free \notin Requests

VARIABLES
    degraded,          \* evidence_degraded: a closer was lost
    exec_mutex,        \* per device: the request holding it, or Free
    consume_lock,      \* virp_approval_consume_lock()
    live,              \* approvals inside their TTL
    consumed,          \* consumed.list: which request wrote the approval's line
    pc, op, dev,       \* control point, proposal and device of each request
    intent,            \* a committed gate_intent of the request is on the chain
    closer,            \* the record citing that intent is on the chain
    sent,              \* how often the device executed the request's command
    res,               \* what the driver reported last
    reply              \* what the caller received

vars == <<degraded, exec_mutex, consume_lock, live, consumed,
          pc, op, dev, intent, closer, sent, res, reply>>

ledger == <<intent, closer, sent, consumed>>
request == <<op, dev>>

Results == {"errored", "no_dispatch", "unknown", "refused", "output"}

(* The one type invariant of the module. *)
TypeOK ==
    /\ degraded \in BOOLEAN
    /\ exec_mutex \in [Devices -> Requests \cup {Free}]
    /\ consume_lock \in Requests \cup {Free}
    /\ live \subseteq Approvals
    /\ consumed \in [Approvals -> Requests \cup {Free}]
    /\ pc \in [Requests -> {"new", "lock", "gate", "connect", "probe",
                            "consume", "append", "cache", "send", "resend",
                            "drop", "close", "done", "past"}]
    /\ op \in [Requests -> Approvals \cup {NoApproval}]
    /\ dev \in [Requests -> Devices]
    /\ intent \in [Requests -> BOOLEAN]
    /\ closer \in [Requests -> BOOLEAN]
    /\ sent \in [Requests -> 0..2]
    /\ res \in [Requests -> Results \cup {"none"}]
    /\ reply \in [Requests -> {"none", "refused", "error", "output",
                               "unchained"}]

Init ==
    /\ degraded = FALSE
    /\ exec_mutex = [d \in Devices |-> Free]
    /\ consume_lock = Free
    /\ live = Approvals
    /\ consumed = [a \in Approvals |-> Free]
    /\ pc = [r \in Requests |-> "new"]
    /\ op = [r \in Requests |-> NoApproval]
    /\ \E d \in Devices : dev = [r \in Requests |-> d]
    /\ intent = [r \in Requests |-> FALSE]
    /\ closer = [r \in Requests |-> FALSE]
    /\ sent = [r \in Requests |-> 0]
    /\ res = [r \in Requests |-> "none"]
    /\ reply = [r \in Requests |-> "none"]

-----------------------------------------------------------------------------
(* Helpers *)

Goto(r, p) == pc' = [pc EXCEPT ![r] = p]

Answer(r, w) ==
    /\ Goto(r, "done")
    /\ reply' = [reply EXCEPT ![r] = w]

Unlock(r) == exec_mutex' = [exec_mutex EXCEPT ![dev[r]] = Free]

(* A signed refusal: exec_mutex is released and nothing was dispatched. *)
Refuse(r) ==
    /\ Unlock(r)
    /\ Answer(r, "refused")

Approved(r) == op[r] \in Approvals

(* virp_chain_count_intents_for_approval() over the committed chain. *)
IntentsFor(a) == {r \in Requests : op[r] = a /\ intent[r]}

-----------------------------------------------------------------------------
(* Up to the gate decision *)

Arrive(r, o, d) ==
    /\ pc[r] = "new"
    /\ Goto(r, "lock")
    /\ op' = [op EXCEPT ![r] = o]
    /\ dev' = [dev EXCEPT ![r] = d]
    /\ UNCHANGED <<live, ledger, degraded, exec_mutex, consume_lock, res, reply>>

(* A v2 request without an ACTIVE session, a command with separators or an *)
(* unknown device is answered before the mutex is taken.                   *)
RejectEarly(r) ==
    /\ pc[r] = "lock"
    /\ Answer(r, "refused")
    /\ UNCHANGED <<live, ledger, request, degraded, exec_mutex, consume_lock, res>>

AcquireExec(r) ==
    /\ pc[r] = "lock"
    /\ exec_mutex[dev[r]] = Free
    /\ exec_mutex' = [exec_mutex EXCEPT ![dev[r]] = r]
    /\ Goto(r, "gate")
    /\ UNCHANGED <<live, ledger, request, degraded, consume_lock, res, reply>>

(* Admitted by tier (or SHADOW), or by virp_approval_verify(), which checks *)
(* the device and the TTL and consumes nothing.                             *)
GateAdmits(r) ==
    /\ pc[r] = "gate"
    /\ Approved(r) => op[r] \in live /\ ApprovalDevice[op[r]] = dev[r]
    /\ Goto(r, "connect")
    /\ UNCHANGED <<live, ledger, request, degraded, exec_mutex, consume_lock, res, reply>>

(* BLACK, over the ceiling, or the approval does not verify. *)
GateRefuses(r) ==
    /\ pc[r] = "gate"
    /\ Refuse(r)
    /\ UNCHANGED <<live, ledger, request, degraded, consume_lock, res>>

ConnectFails(r) ==
    /\ pc[r] = "connect"
    /\ Refuse(r)
    /\ UNCHANGED <<live, ledger, request, degraded, consume_lock, res>>

Connect(r) ==
    /\ pc[r] = "connect"
    /\ Goto(r, IF Approved(r) THEN "probe" ELSE "consume")
    /\ UNCHANGED <<live, ledger, request, degraded, exec_mutex, consume_lock, res, reply>>

ProbeFails(r) ==
    /\ pc[r] = "probe"
    /\ Refuse(r)
    /\ UNCHANGED <<live, ledger, request, degraded, consume_lock, res>>

(* Fault: the approval is marked consumed before its intent is durable. *)
ProbeLive_EarlyConsume(r) ==
    /\ pc[r] = "probe"
    /\ Goto(r, "consume")
    /\ consumed' = [consumed EXCEPT ![op[r]] = r]
    /\ UNCHANGED <<live, intent, closer, sent, request, degraded, exec_mutex,
                   consume_lock, res, reply>>

ProbeLive(r) ==
    /\ pc[r] = "probe"
    /\ Goto(r, "consume")
    /\ UNCHANGED <<live, ledger, request, degraded, exec_mutex, consume_lock, res, reply>>

-----------------------------------------------------------------------------
(* Consumption and the pre-execution record *)

(* replay_refusal_record(): the refusal is chained, or the latch is set. *)
RefuseReused(r) ==
    /\ degraded' \in {degraded, TRUE}
    /\ Refuse(r)
    /\ UNCHANGED <<live, ledger, request, consume_lock, res>>

(* Fault: the chain is not asked for an earlier intent of the approval. *)
Reused_NoReplayGuard(r) == FALSE

(* A committed gate_intent already names the approval.  The chain is asked *)
(* only if the record has an entry hash to ask for.                        *)
Reused(r) == op[r] \in Chained /\ IntentsFor(op[r]) # {}

(* An approved request: TTL and replay guard under consume_lock; a failed *)
(* count query reads as reused.                                           *)
GuardRefuses(r) ==
    /\ pc[r] = "consume" /\ Approved(r)
    /\ consume_lock = Free
    /\ \/ /\ op[r] \notin live
          /\ Refuse(r)
          /\ UNCHANGED <<live, ledger, request, degraded, consume_lock, res>>
       \/ /\ op[r] \in live
          /\ op[r] \in Chained
          /\ RefuseReused(r)

(* The latch is read by gate_emit_intent() before it appends. *)
GuardPasses(r) ==
    /\ pc[r] = "consume" /\ Approved(r)
    /\ consume_lock = Free
    /\ op[r] \in live /\ ~Reused(r)
    /\ ~degraded
    /\ consume_lock' = r
    /\ Goto(r, "append")
    /\ UNCHANGED <<live, ledger, request, degraded, exec_mutex, res, reply>>

(* No approval: no consume_lock, only the latch. *)
AutoExecute(r) ==
    /\ pc[r] = "consume" /\ ~Approved(r)
    /\ ~degraded
    /\ Goto(r, "append")
    /\ UNCHANGED <<live, ledger, request, degraded, exec_mutex, consume_lock, res, reply>>

(* gate_emit_intent() refuses while degraded. *)
DegradedRefuses(r) ==
    /\ pc[r] = "consume" /\ degraded
    /\ Approved(r) => consume_lock = Free /\ op[r] \in live /\ ~Reused(r)
    /\ Refuse(r)
    /\ UNCHANGED <<live, ledger, request, degraded, consume_lock, res>>

(* Fault: a failed append returns without virp_approval_consume_unlock(). *)
ReleaseConsume_Forgotten(r) == UNCHANGED consume_lock

ReleaseConsume(r) == consume_lock' = IF consume_lock = r THEN Free ELSE consume_lock

CommitIntent(r) ==
    /\ pc[r] = "append"
    /\ intent' = [intent EXCEPT ![r] = TRUE]
    /\ Goto(r, IF Approved(r) THEN "cache" ELSE "send")
    /\ UNCHANGED <<live, closer, sent, consumed, request, degraded, exec_mutex,
                   consume_lock, res, reply>>

(* Fault: a failed intent append is treated as best effort. *)
IntentFails_BestEffort(r) ==
    /\ pc[r] = "append"
    /\ ReleaseConsume(r)
    /\ Goto(r, "send")
    /\ UNCHANGED <<live, ledger, request, degraded, exec_mutex, res, reply>>

(* The append failed: evidence-unavailable, nothing dispatched. *)
IntentFails(r) ==
    /\ pc[r] = "append"
    /\ ReleaseConsume(r)
    /\ Refuse(r)
    /\ UNCHANGED <<live, ledger, request, degraded, res>>

(* virp_approval_commit_consume_locked(): a cache over the committed intent; *)
(* a failed write, or a line already there, is only logged.  A list that     *)
(* cannot be opened reads as empty, and is written back with one line.       *)
CacheConsumed(r) ==
    /\ pc[r] = "cache"
    /\ \E list \in {consumed, [a \in Approvals |-> Free]} :
         consumed' \in {consumed, IF list[op[r]] = Free
                                   THEN [list EXCEPT ![op[r]] = r] ELSE consumed}
    /\ consume_lock' = Free
    /\ Goto(r, "send")
    /\ UNCHANGED <<live, intent, closer, sent, request, degraded, exec_mutex, res, reply>>

-----------------------------------------------------------------------------
(* Dispatch *)

(* The driver returns; only no_dispatch proves the device never acted. *)
Reports(r, w, n) ==
    /\ w = "no_dispatch" => n = 0
    /\ sent' = [sent EXCEPT ![r] = @ + n]
    /\ res' = [res EXCEPT ![r] = w]

AfterDriver(w) == IF w = "unknown" THEN "drop" ELSE "close"

(* First call.  With proof of non-dispatch the mutex is kept for the retry. *)
Dispatch(r, w, n) ==
    /\ pc[r] = "send"
    /\ Reports(r, w, n)
    /\ IF w = "no_dispatch"
         THEN Goto(r, "resend") /\ UNCHANGED exec_mutex
         ELSE Goto(r, AfterDriver(w)) /\ Unlock(r)
    /\ UNCHANGED <<live, intent, closer, consumed, request, degraded, consume_lock, reply>>

(* The single retry on a fresh connection; a second no_dispatch is final. *)
Retry(r, w, n) ==
    /\ pc[r] = "resend"
    /\ Reports(r, w, n)
    /\ Goto(r, AfterDriver(w))
    /\ Unlock(r)
    /\ UNCHANGED <<live, intent, closer, consumed, request, degraded, consume_lock, reply>>

(* No fresh connection (or a policy-bound request): the first result stands. *)
NoRetry(r) ==
    /\ pc[r] = "resend"
    /\ Goto(r, "close")
    /\ Unlock(r)
    /\ UNCHANGED <<live, ledger, request, degraded, consume_lock, res, reply>>

(* UNKNOWN: the mutex is taken again to drop the connection. *)
DropUnknown(r) ==
    /\ pc[r] = "drop"
    /\ exec_mutex[dev[r]] = Free
    /\ Goto(r, "close")
    /\ UNCHANGED <<live, ledger, request, degraded, exec_mutex, consume_lock, res, reply>>

-----------------------------------------------------------------------------
(* The post-execution record and the answer *)

(* The ordinary answer: the output (or, when the v2 session died meanwhile, *)
(* an error), or an ERROR observation for a failed driver call.             *)
PlainAnswers(r) == IF res[r] = "output" THEN {"output", "error"} ELSE {"error"}

CloserLands(r) ==
    /\ pc[r] = "close"
    /\ closer' = [closer EXCEPT ![r] = TRUE]
    /\ \E w \in PlainAnswers(r) : Answer(r, w)
    /\ res' = [res EXCEPT ![r] = "none"]
    /\ UNCHANGED <<live, intent, sent, consumed, request, degraded, exec_mutex,
                   consume_lock>>

(* An unrecorded outcome is reported as unchained-execution on the approved *)
(* path and on the success path.                                            *)
ReportsUnchained(r) ==
    /\ intent[r]
    /\ Approved(r) \/ res[r] = "output"

(* Fault: the latch is set only for approved requests. *)
MarkDegraded_ApprovedOnly(r) == degraded' = (degraded \/ Approved(r))

(* onode_mark_evidence_degraded() *)
MarkDegraded(r) == degraded' = TRUE

CloserFails(r) ==
    /\ pc[r] = "close"
    /\ MarkDegraded(r)
    /\ IF ReportsUnchained(r)
         THEN Answer(r, "unchained")
         ELSE \E w \in PlainAnswers(r) : Answer(r, w)
    /\ res' = [res EXCEPT ![r] = "none"]
    /\ UNCHANGED <<live, ledger, request, exec_mutex, consume_lock>>

-----------------------------------------------------------------------------
(* Environment *)

Expire(a) ==
    /\ a \in live
    /\ live' = live \ {a}
    /\ UNCHANGED <<ledger, request, degraded, exec_mutex, consume_lock, pc, res, reply>>

(* The daemon dies and is started again: threads, mutexes and the latch are *)
(* gone, chain and consumed.list are not.                                   *)
Restart ==
    /\ \E r \in Requests : pc[r] \notin {"new", "past"}
    /\ degraded' = FALSE
    /\ exec_mutex' = [d \in Devices |-> Free]
    /\ consume_lock' = Free
    /\ pc' = [r \in Requests |-> IF pc[r] = "new" THEN "new" ELSE "past"]
    /\ res' = [r \in Requests |-> "none"]
    /\ UNCHANGED <<live, ledger, request, reply>>

(* A call into the driver returns: connect, health_check or execute. *)
DriverStep(r) ==
    \/ ConnectFails(r) \/ Connect(r) \/ ProbeFails(r) \/ ProbeLive(r)
    \/ \E w \in Results, n \in 0..1 : Dispatch(r, w, n) \/ Retry(r, w, n)
    \/ NoRetry(r)

DaemonStep(r) ==
    \/ RejectEarly(r) \/ AcquireExec(r) \/ GateAdmits(r) \/ GateRefuses(r)
    \/ GuardRefuses(r) \/ GuardPasses(r) \/ AutoExecute(r) \/ DegradedRefuses(r)
    \/ CommitIntent(r) \/ IntentFails(r) \/ CacheConsumed(r)
    \/ DropUnknown(r) \/ CloserLands(r) \/ CloserFails(r)

Step(r) == DaemonStep(r) \/ DriverStep(r)

Next ==
    \/ \E r \in Requests, o \in Approvals \cup {NoApproval}, d \in Devices :
           Arrive(r, o, d)
    \/ \E r \in Requests : Step(r)
    \/ \E a \in Approvals : Expire(a)
    \/ Restart

Spec == Init /\ [][Next]_vars

(* A running worker thread is always scheduled.  That a driver call returns *)
(* is not assumed, and neither are restarts.                                *)
FairSpec == Spec /\ \A r \in Requests : WF_vars(DaemonStep(r))

-----------------------------------------------------------------------------
(* Properties *)

(* "Authorized once, executed twice" never happens: over all requests,     *)
(* retries and restarts the command of an approval reaches the device at   *)
(* most once, and a request's own retry never repeats it.  It is stated of *)
(* approvals whose record names a chain entry: virp_approval_submit()      *)
(* leaves the name out only on a node without a chain, and                 *)
(* onode_setup_chain_and_approvals() does not let one start in approval    *)
(* mode.                                                                   *)
SingleUse ==
    /\ \A r \in Requests : sent[r] <= 1
    /\ \A q, r \in Requests :
         op[q] = op[r] /\ op[q] \in Chained /\ sent[q] > 0 /\ sent[r] > 0 => q = r

(* No command reaches a device unless its gate_intent is already on the    *)
(* chain, also when the daemon dies in between; and no closer exists       *)
(* without the intent it cites.                                            *)
IntentBeforeDispatch ==
    \A r \in Requests : sent[r] > 0 \/ closer[r] => intent[r]

(* A caller that was told "refused" lost nothing: no intent, no device     *)
(* action, and the approval it carried was not consumed on its behalf.     *)
RefusedConsumesNothing ==
    \A r \in Requests : reply[r] = "refused" =>
        /\ ~intent[r] /\ sent[r] = 0
        /\ \A a \in Approvals : consumed[a] # r

(* virp_approval.h: an approval is consumed iff a committed gate_intent    *)
(* names it.  The cache file never runs ahead of the chain, not even in a  *)
(* crash between the two writes.                                           *)
CacheFollowsChain ==
    \A a \in Approvals : consumed[a] # Free =>
        op[consumed[a]] = a /\ intent[consumed[a]]

(* No caller receives device output as an ordinary success while the       *)
(* closer of its execution is missing from the chain.                      *)
NoSilentSuccess ==
    \A r \in Requests : reply[r] = "output" => closer[r]

(* What execute answers is true of what happened: after a refusal nothing  *)
(* was sent or spent, and plain output means the pair on the chain is      *)
(* complete.                                                               *)
ReplyIsTrue == RefusedConsumesNothing /\ NoSilentSuccess

(* An execution whose closer was lost is never forgotten by the process    *)
(* that lost it: as long as it runs, it is degraded.                       *)
Lost(r) == pc[r] = "done" /\ intent[r] /\ ~closer[r]
LostCloserLatches == \A r \in Requests : Lost(r) => degraded

(* Once the closer of any execution was lost, the daemon dispatches        *)
(* nothing for a request that had not yet passed gate_emit_intent()'s      *)
(* check, until it is restarted.                                           *)
LostCloserStopsDispatch ==
    \A q, r \in Requests :
        [](Lost(q) /\ pc[r] \in {"lock", "gate", "connect", "probe", "consume"}
             => [](~intent[r]))

(* Every request that arrived is answered, unless the daemon is restarted, *)
(* as long as no driver call hangs: no worker waits for ever on exec_mutex *)
(* or consume_lock.                                                        *)
InDriver(r) == pc[r] \in {"connect", "probe", "send", "resend"}
DriverCallsReturn == \A r \in Requests : []<>~InDriver(r)
RequestsAnswered ==
    DriverCallsReturn =>
        \A r \in Requests : pc[r] = "lock" ~> pc[r] \in {"done", "past"}
==========================================================================
