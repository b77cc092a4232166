---------------------------- MODULE GateProofs ----------------------------
(***************************************************************************)
(* The two halves of an approved change.  The gate (GateApply), for any    *)
(* number of requests, devices and approvals, any retries and restarts;    *)
(* the approval flow (Approval), for any number of proposals, workers and  *)
(* keys.                                                                   *)
(***************************************************************************)
EXTENDS GateApply, Approval, TLAPS

USE ZenonT(20)

-----------------------------------------------------------------------------
(***************************************************************************)
(* The gate (GateApply).  SingleUse is not inductive: it says nothing of a *)
(* request that is about to commit its intent.  IInv adds which control    *)
(* points imply a committed intent (Phase), that an approved request       *)
(* between the replay guard and the append holds consume_lock and still    *)
(* has no competitor on the chain (Guarded), and hence that an approval    *)
(* the guard asks for has at most one intent.                              *)
(***************************************************************************)

USE ApprovalAssumption, FreeAssumption

(* Control points before and after the request's own intent commit. *)
BeforeIntent == {"new", "lock", "gate", "connect", "probe", "consume", "append"}
AfterIntent == {"cache", "send", "resend", "drop", "close"}

Phase ==
    \A r \in Requests :
        /\ pc[r] \in BeforeIntent => ~intent[r]
        /\ pc[r] \in AfterIntent => intent[r]
        /\ pc[r] \in {"cache", "send", "resend"} => sent[r] = 0
        /\ sent[r] > 0 => intent[r]
        /\ sent[r] <= 1

Guarded ==
    \A r \in Requests :
        /\ pc[r] = "append" /\ op[r] \in Approvals => 
             /\ consume_lock = r
             /\ op[r] \in Chained => \A q \in Requests : op[q] = op[r] => ~intent[q]
        /\ pc[r] = "cache" => consume_lock = r /\ op[r] \in Approvals

OneIntent ==
    \A q, r \in Requests :
        op[q] = op[r] /\ op[q] \in Chained /\ intent[q] /\ intent[r] => q = r

Closers ==
    \A r \in Requests : closer[r] => intent[r] /\ pc[r] \in {"done", "past"}

Answers ==
    \A r \in Requests :
        /\ reply[r] # "none" => pc[r] \in {"done", "past"}
        /\ reply[r] = "refused" => ~intent[r]

(* The inductive invariant. *)
IInv ==
    /\ TypeOK
    /\ Phase
    /\ Guarded
    /\ OneIntent
    /\ Closers
    /\ Answers
    /\ CacheFollowsChain
    /\ NoSilentSuccess
    /\ LostCloserLatches

(* The daemon starts in IInv. *)
LEMMA InitIInv == Init => IInv
<1> SUFFICES ASSUME Init PROVE IInv
  OBVIOUS
<1>2. degraded \in BOOLEAN
  BY DEF Init
<1>3. dev \in [Requests -> Devices]
  BY DEF Init
<1>4. TypeOK
  BY <1>2, <1>3, SMTT(60) DEF Init, TypeOK, Results
<1> QED  BY <1>4, SMTT(60) DEF Init, IInv, Phase, Guarded, OneIntent, Closers, Answers,
         CacheFollowsChain, NoSilentSuccess, LostCloserLatches, Lost,
         BeforeIntent, AfterIntent

(* The steps of a request: the tier gate and the connection. *)
LEMMA EGateKeeps ==
    ASSUME IInv, NEW r \in Requests,
           \/ RejectEarly(r) \/ AcquireExec(r) \/ GateAdmits(r)
           \/ GateRefuses(r) \/ ConnectFails(r) \/ Connect(r)
           \/ ProbeFails(r) \/ ProbeLive(r)
    PROVE  IInv'
<1> USE DEF IInv, Phase, Guarded, OneIntent, Closers, Answers,
           CacheFollowsChain, NoSilentSuccess, LostCloserLatches, Lost, TypeOK,
           vars, ledger, request, BeforeIntent, AfterIntent
<1>1. CASE RejectEarly(r)
  BY <1>1, SMTT(60) DEF RejectEarly, Answer, Goto
<1>2. CASE AcquireExec(r)
  BY <1>2, SMTT(60) DEF AcquireExec, Goto
<1>3. CASE GateAdmits(r)
  BY <1>3, SMTT(60) DEF GateAdmits, Goto
<1>4. CASE GateRefuses(r)
  BY <1>4, SMTT(60) DEF GateRefuses, Refuse, Unlock, Answer, Goto
<1>5. CASE ConnectFails(r)
  BY <1>5, SMTT(60) DEF ConnectFails, Refuse, Unlock, Answer, Goto
<1>6. CASE Connect(r)
  BY <1>6, SMTT(60) DEF Connect, Goto, Approved
<1>7. CASE ProbeFails(r)
  BY <1>7, SMTT(60) DEF ProbeFails, Refuse, Unlock, Answer, Goto
<1>8. CASE ProbeLive(r)
  BY <1>8, SMTT(60) DEF ProbeLive, Goto
<1> QED  BY <1>1, <1>2, <1>3, <1>4, <1>5, <1>6, <1>7, <1>8

(* A latch that keeps its value or is set. *)
LEMMA LatchStays ==
    ASSUME NEW x, NEW y, x \in BOOLEAN, y \in {x, TRUE}
    PROVE  y \in BOOLEAN /\ (x => y)
  OBVIOUS

(* The steps of a request: the replay guard, the intent and the consumption. *)
LEMMA EConsumeKeeps ==
    ASSUME IInv, NEW r \in Requests,
           \/ GuardRefuses(r) \/ GuardPasses(r) \/ AutoExecute(r)
           \/ DegradedRefuses(r) \/ CommitIntent(r) \/ IntentFails(r)
           \/ CacheConsumed(r)
    PROVE  IInv'
<1> USE DEF IInv, Phase, Guarded, OneIntent, Closers, Answers,
           CacheFollowsChain, NoSilentSuccess, LostCloserLatches, Lost, TypeOK,
           vars, ledger, request, BeforeIntent, AfterIntent
<1>1. CASE GuardRefuses(r)
  <2>1. degraded' \in BOOLEAN /\ (degraded => degraded')
    <3>1. degraded' \in {degraded, TRUE}
      BY <1>1 DEF GuardRefuses, RefuseReused
    <3>2. degraded \in BOOLEAN
      OBVIOUS
    <3> DEFINE was == degraded
               is == degraded'
    <3>3. was \in BOOLEAN /\ is \in {was, TRUE}
      BY <3>1, <3>2
    <3> HIDE DEF was, is, IInv, TypeOK, Phase, Guarded, OneIntent, Closers, Answers,
                 CacheFollowsChain, NoSilentSuccess, LostCloserLatches
    <3>4. is \in BOOLEAN /\ (was => is)
      BY <3>3, LatchStays
    <3> QED  BY <3>4 DEF was, is
  <2>2. UNCHANGED <<live, ledger, request, consume_lock, res>>
    BY <1>1 DEF GuardRefuses, RefuseReused
  <2>3. pc[r] = "consume" /\ Refuse(r)
    BY <1>1 DEF GuardRefuses, RefuseReused
  <2> QED  BY <2>1, <2>2, <2>3, SMTT(60) DEF Refuse, Unlock, Answer, Goto
<1>2. CASE GuardPasses(r)
  BY <1>2, SMTT(60) DEF GuardPasses, Goto, Approved, Reused, IntentsFor
<1>3. CASE AutoExecute(r)
  BY <1>3, SMTT(60) DEF AutoExecute, Goto, Approved
<1>4. CASE DegradedRefuses(r)
  BY <1>4, SMTT(60) DEF DegradedRefuses, Refuse, Unlock, Answer, Goto
<1>5. CASE CommitIntent(r)
  BY <1>5, SMTT(60) DEF CommitIntent, Goto, Approved
<1>6. CASE IntentFails(r)
  BY <1>6, SMTT(60) DEF IntentFails, ReleaseConsume, Refuse, Unlock, Answer, Goto
<1>7. CASE CacheConsumed(r)
  <2>1. PICK list \in {consumed, [a \in Approvals |-> Free]} :
           consumed' \in {consumed, IF list[op[r]] = Free
                                      THEN [list EXCEPT ![op[r]] = r] ELSE consumed}
    BY <1>7 DEF CacheConsumed
  <2>2. list \in [Approvals -> Requests \cup {Free}]
        /\ \A a \in Approvals : list[a] \in {consumed[a], Free}
    BY <2>1, SMTT(60)
  <2>3. consumed' \in [Approvals -> Requests \cup {Free}]
        /\ \A a \in Approvals : consumed'[a] # Free =>
             consumed'[a] = consumed[a] \/ (a = op[r] /\ consumed'[a] = r)
    BY <2>1, <2>2, SMTT(60)
  <2>4. /\ pc[r] = "cache" /\ pc' = [pc EXCEPT ![r] = "send"] /\ consume_lock' = Free
        /\ UNCHANGED <<live, intent, closer, sent, request, degraded, exec_mutex, res, reply>>
    BY <1>7 DEF CacheConsumed, Goto
  <2>5. TypeOK'
    BY <2>3, <2>4, SMTT(60)
  <2>6. Phase' /\ Guarded' /\ OneIntent' /\ Closers' /\ Answers'
    BY <2>4, SMTT(60)
  <2>7. CacheFollowsChain'
    BY <2>3, <2>4, SMTT(60)
  <2>8. NoSilentSuccess' /\ LostCloserLatches'
    BY <2>4, SMTT(60)
  <2> HIDE DEF TypeOK, Phase, Guarded, OneIntent, Closers, Answers, CacheFollowsChain,
           NoSilentSuccess, LostCloserLatches
  <2> QED  BY <2>5, <2>6, <2>7, <2>8
<1> QED  BY <1>1, <1>2, <1>3, <1>4, <1>5, <1>6, <1>7

(* The steps of a request: the driver calls. *)
LEMMA EDispatchKeeps ==
    ASSUME IInv, NEW r \in Requests,
           \E w \in Results, n \in 0..1 : Dispatch(r, w, n) \/ Retry(r, w, n)
    PROVE  IInv'
<1> USE DEF IInv, Phase, Guarded, OneIntent, Closers, Answers,
           CacheFollowsChain, NoSilentSuccess, LostCloserLatches, Lost, TypeOK,
           vars, ledger, request, BeforeIntent, AfterIntent
<1>1. CASE \E w \in Results, n \in 0..1 : Dispatch(r, w, n) \/ Retry(r, w, n)
  <2>1. PICK w \in Results, n \in 0..1 : Dispatch(r, w, n) \/ Retry(r, w, n)
    BY <1>1
  <2>2. CASE Dispatch(r, w, n)
    <3>1. pc' = [pc EXCEPT ![r] = pc'[r]] /\ pc'[r] \in {"resend", "drop", "close"}
      BY <2>2, SMTT(60) DEF Dispatch, AfterDriver, Goto
    <3>2. exec_mutex' \in [Devices -> Requests \cup {Free}]
      BY <2>2, SMTT(60) DEF Dispatch, Unlock
    <3>3. n = 0 \/ pc'[r] # "resend"
      BY <2>2, SMTT(60) DEF Dispatch, Reports, AfterDriver, Goto
    <3>4. sent' = [sent EXCEPT ![r] = n] /\ n \in 0..2
      <4>1. sent[r] = 0 /\ sent' = [sent EXCEPT ![r] = sent[r] + n]
        BY <2>2 DEF Dispatch, Reports
      <4> QED  BY <4>1, SMTT(60)
    <3>5. pc[r] = "send" /\ res' = [res EXCEPT ![r] = w] /\ UNCHANGED
            <<live, intent, closer, consumed, request, degraded, consume_lock, reply>>
      BY <2>2 DEF Dispatch, Reports
    <3>6. TypeOK'
      BY <3>1, <3>2, <3>4, <3>5, SMTT(60) DEF Results
    <3>7. Phase'
      BY <3>1, <3>3, <3>4, <3>5, SMTT(60)
    <3>8. Guarded' /\ OneIntent' /\ Closers' /\ Answers'
      BY <3>1, <3>5, SMTT(60)
    <3>9. CacheFollowsChain' /\ NoSilentSuccess' /\ LostCloserLatches'
      BY <3>1, <3>5, SMTT(60)
    <3> HIDE DEF TypeOK, Phase, Guarded, OneIntent, Closers, Answers, CacheFollowsChain,
             NoSilentSuccess, LostCloserLatches
    <3> QED  BY <3>6, <3>7, <3>8, <3>9
  <2>3. CASE Retry(r, w, n)
    BY <2>3, SMTT(60) DEF Retry, Reports, AfterDriver, Goto, Unlock, Results
  <2> QED  BY <2>1, <2>2, <2>3
<1> QED  BY <1>1

(* The steps of a request: the closer. *)
LEMMA ECloseKeeps ==
    ASSUME IInv, NEW r \in Requests,
           \/ NoRetry(r) \/ DropUnknown(r) \/ CloserLands(r)
           \/ CloserFails(r)
    PROVE  IInv'
<1> USE DEF IInv, Phase, Guarded, OneIntent, Closers, Answers,
           CacheFollowsChain, NoSilentSuccess, LostCloserLatches, Lost, TypeOK,
           vars, ledger, request, BeforeIntent, AfterIntent
<1>1. CASE NoRetry(r)
  BY <1>1, SMTT(60) DEF NoRetry, Goto, Unlock
<1>2. CASE DropUnknown(r)
  BY <1>2, SMTT(60) DEF DropUnknown, Goto
<1>3. CASE CloserLands(r)
  BY <1>3, SMTT(60) DEF CloserLands, PlainAnswers, Answer, Goto
<1>4. CASE CloserFails(r)
  <2>1. degraded' = TRUE
    BY <1>4 DEF CloserFails, MarkDegraded
  <2>2. reply' = [reply EXCEPT ![r] = reply'[r]] /\ reply'[r] \in {"error", "unchained"}
    BY <1>4, SMTT(60) DEF CloserFails, ReportsUnchained, PlainAnswers, Answer, Approved
  <2>3. pc[r] = "close" /\ pc' = [pc EXCEPT ![r] = "done"]
    BY <1>4 DEF CloserFails, Answer, Goto
  <2>4. res' = [res EXCEPT ![r] = "none"]
        /\ UNCHANGED <<live, ledger, request, exec_mutex, consume_lock>>
    BY <1>4 DEF CloserFails
  <2>5. TypeOK'
    BY <2>1, <2>2, <2>3, <2>4, SMTT(60)
  <2>6. Phase' /\ Guarded' /\ OneIntent'
    BY <2>3, <2>4, SMTT(60)
  <2>7. Closers' /\ Answers'
    BY <2>2, <2>3, <2>4, SMTT(60)
  <2>8. CacheFollowsChain' /\ NoSilentSuccess' /\ LostCloserLatches'
    BY <2>1, <2>2, <2>3, <2>4, SMTT(60)
  <2> HIDE DEF TypeOK, Phase, Guarded, OneIntent, Closers, Answers, CacheFollowsChain,
           NoSilentSuccess, LostCloserLatches
  <2> QED  BY <2>5, <2>6, <2>7, <2>8
<1> QED  BY <1>1, <1>2, <1>3, <1>4

(* Every step of the handler, of the clock and of a restart keeps IInv. *)
LEMMA StepIInv ==
    ASSUME IInv, [Next]_vars
    PROVE  IInv'
<1> USE DEF IInv, Phase, Guarded, OneIntent, Closers, Answers,
           CacheFollowsChain, NoSilentSuccess, LostCloserLatches, Lost, TypeOK,
           vars, ledger, request, BeforeIntent, AfterIntent
<1>1. CASE \E r \in Requests, o \in Approvals \cup {NoApproval}, d \in Devices : Arrive(r, o, d)
  BY <1>1, SMTT(60) DEF Arrive, Goto
<1>2. CASE \E r \in Requests : Step(r)
  <2> HIDE DEF IInv
  <2> QED  BY <1>2, EGateKeeps, EConsumeKeeps, EDispatchKeeps, ECloseKeeps DEF Step, DaemonStep,
          DriverStep
<1>3. CASE \E a \in Approvals : Expire(a)
  BY <1>3, SMTT(60) DEF Expire
<1>4. CASE Restart
  <2>3. \A r \in Requests : pc'[r] \in {"new", "past"} /\ (pc'[r] = "new" => pc[r] = "new")
          /\ (pc[r] = "done" => pc'[r] = "past") /\ (pc[r] = "past" => pc'[r] = "past")
    BY <1>4 DEF Restart
  <2>4. TypeOK'
    BY <1>4, <2>3 DEF Restart
  <2>5. UNCHANGED <<ledger, request, reply>> /\ consume_lock' = Free
    BY <1>4 DEF Restart
  <2>6. Phase' /\ Guarded' /\ OneIntent'
    BY <2>3, <2>5
  <2>7. Closers' /\ Answers'
    BY <2>3, <2>5
  <2>8. CacheFollowsChain' /\ NoSilentSuccess' /\ LostCloserLatches'
    BY <2>3, <2>5
  <2> HIDE DEF TypeOK, Phase, Guarded, OneIntent, Closers, Answers, CacheFollowsChain,
           NoSilentSuccess, LostCloserLatches
  <2> QED  BY <2>4, <2>6, <2>7, <2>8
<1>5. CASE UNCHANGED vars
  BY <1>5
<1> QED  BY <1>1, <1>2, <1>3, <1>4, <1>5 DEF Next

-----------------------------------------------------------------------------
(* Every variable keeps its type. *)
THEOREM GateTypeCorrect == Spec => []TypeOK
<1>1. IInv => TypeOK
  BY DEF IInv
<1> QED  BY InitIInv, StepIInv, <1>1, PTL DEF Spec

(* An approval whose record names its chain entry is executed at most once, *)
(* over all requests, retries and restarts: the gate_intent on the chain    *)
(* sees to it, whatever became of consumed.list.                            *)
THEOREM GateSingleUse == Spec => []SingleUse
<1>1. IInv => SingleUse
  BY DEF IInv, Phase, OneIntent, SingleUse, TypeOK
<1> QED  BY InitIInv, StepIInv, <1>1, PTL DEF Spec

(* There is no device action without the gate_intent that precedes it. *)
THEOREM IntentPrecedesDispatch == Spec => []IntentBeforeDispatch
<1>1. IInv => IntentBeforeDispatch
  BY DEF IInv, Phase, Closers, IntentBeforeDispatch
<1> QED  BY InitIInv, StepIInv, <1>1, PTL DEF Spec

(* A refused request consumed nothing, and consumed.list never runs ahead *)
(* of the chain.                                                          *)
THEOREM RefusalIsFree == Spec => [](RefusedConsumesNothing /\ CacheFollowsChain)
<1>1. IInv => RefusedConsumesNothing /\ CacheFollowsChain
  BY SMTT(60) DEF IInv, Phase, Answers, CacheFollowsChain, RefusedConsumesNothing, TypeOK
<1> QED  BY InitIInv, StepIInv, <1>1, PTL DEF Spec

(* A missing closer is never presented as a success, and latches the *)
(* daemon that lost it.                                              *)
THEOREM LossIsVisible == Spec => [](NoSilentSuccess /\ LostCloserLatches)
<1>1. IInv => NoSilentSuccess /\ LostCloserLatches
  BY DEF IInv
<1> QED  BY InitIInv, StepIInv, <1>1, PTL DEF Spec

(* A refusal costs nothing and plain output is complete evidence, however *)
(* requests, faults and crashes of gate and execute interleave.           *)
THEOREM RepliesAreTrue == Spec => []ReplyIsTrue
<1>1. RefusedConsumesNothing /\ NoSilentSuccess => ReplyIsTrue
  BY DEF ReplyIsTrue
<1> QED  BY RefusalIsFree, LossIsVisible, <1>1, PTL

-----------------------------------------------------------------------------
(***************************************************************************)
(* The approval flow (Approval).  The inductive invariant says who may be  *)
(* between the append and the record write (only the holder of submit_mu,  *)
(* on a proposal without a record, or with one it could not open) and what *)
(* the last chain entry is then.                                           *)
(***************************************************************************)

Inside(w) == place[w] \in {"append", "write"}

(* submit_mu is held by exactly the worker between append and write. *)
LockOwner == \A w \in Workers : Inside(w) <=> submit_mu = w

(* A worker past the checks carries a signature that was really made. *)
JobsSigned == \A w \in Workers : place[w] # "idle" => job[w] \in signed

(* The section is only entered, and only left, without a record that could *)
(* be opened.                                                              *)
SectionUnrecorded ==
    \A w \in Workers : Inside(w) => record[job[w].id] = {} \/ job[w].id \in misread

(* At the write, the newest entry is the worker's own. *)
OwnEntryLast ==
    \A w \in Workers : place[w] = "write" =>
        LET es == entry[job[w].id]
        IN Len(es) > 0 /\ es[Len(es)] = [key |-> job[w].key, at |-> job[w].at]

(* There is never more than one record. *)
OneRecord == \A p \in Proposals : \A r, q \in record[p] : r = q

(* An executed proposal has a record, and an intent names that record. *)
ExecutedIsNamed ==
    \A p \in Proposals \ misread : executed[p] # 0 =>
        executed[p] = 1 /\ \E r \in record[p] : <<p, r.entry>> \in intents

(* An entry without a record belongs to a submit that is about to write it. *)
EntryAccounted ==
    \A p \in Proposals \ (lossy \cup misread) :
        /\ Len(entry[p]) <= 1
        /\ Len(entry[p]) > 0 =>
             record[p] # {} \/ \E w \in Workers : place[w] = "write" /\ job[w].id = p

(* Only finished submits have answered. *)
AnswersNamed ==
    \A w \in Workers : answer[w] # None =>
        /\ place[w] = "done"
        /\ job[w].id \notin misread => \E r \in record[job[w].id] : r.key = answer[w]

Lifecycle ==
    /\ ApprovalTypeOK
    /\ LockOwner
    /\ JobsSigned
    /\ SectionUnrecorded
    /\ OwnEntryLast
    /\ OneRecord
    /\ RecordIsSigned
    /\ ExecutedIsNamed
    /\ EntryAccounted
    /\ AnswersNamed

(* What the proofs use of sequences and of places in them. *)
LEMMA LenIsNat ==
    ASSUME NEW S, NEW q \in Seq(S)
    PROVE  Len(q) \in Nat /\ Len(q) >= Len(q)
BY SMTT(60)

LEMMA AppendExtends ==
    ASSUME NEW S, NEW q \in Seq(S), NEW x \in S
    PROVE  /\ Append(q, x) \in Seq(S)
           /\ Len(Append(q, x)) > 0 /\ Append(q, x)[Len(Append(q, x))] = x
           /\ Len(Append(q, x)) >= Len(q)
           /\ \A i \in 1..Len(q) : Append(q, x)[i] = q[i]
           /\ Len(q) = 0 => Len(Append(q, x)) <= 1
BY SMTT(60)

LEMMA PlaceKept ==
    ASSUME NEW m \in Nat, NEW n \in Nat, n >= m, NEW i \in 1..m
    PROVE  i \in 1..n
BY SMTT(60)

LEMMA LastPlace ==
    ASSUME NEW n \in Nat
    PROVE  IF n > 0 THEN n \in 1..n ELSE n = 0
BY SMTT(60)

HIDE ApprovalAssumption
HIDE FreeAssumption
USE NoneAssumption, KeysAssumption, TimeAssumption

(* The initial state: nothing proposed, nothing stored, all workers idle.  *)
LEMMA InitLifecycle == ApprovalInit => Lifecycle
BY SMTT(60) DEF ApprovalInit, Lifecycle, ApprovalTypeOK, StoreTypes, RecordTypes, ApplyTypes, ThreadTypes, LockOwner, JobsSigned, SectionUnrecorded, OwnEntryLast,
       OneRecord, RecordIsSigned, ExecutedIsNamed, EntryAccounted, AnswersNamed, Inside

(* A step that leaves entries and records alone, and forgets no signature, *)
(* keeps what is said of them ...                                          *)
LEMMA RecordsFrame ==
    ASSUME Lifecycle, UNCHANGED <<entry, record>>, signed \subseteq signed'
    PROVE  RecordTypes' /\ OneRecord' /\ RecordIsSigned'
<1>1. RecordTypes' BY DEF Lifecycle, ApprovalTypeOK, RecordTypes
<1>2. OneRecord' BY DEF Lifecycle, OneRecord
<1>3. RecordIsSigned'
  <2>1. \A p \in Proposals : \A r \in record[p] :
          /\ Signature(r.key, p, r.at) \in signed'
          /\ entry[p][r.entry] = [key |-> r.key, at |-> r.at]
    BY DEF Lifecycle, RecordIsSigned
  <2>. QED BY <2>1 DEF RecordIsSigned
<1>. QED BY <1>1, <1>2, <1>3

(* ... and what is said of executions, if it executes nothing; ...         *)
LEMMA ExecutionsFrame ==
    ASSUME Lifecycle, UNCHANGED <<record, intents, executed>>, misread \subseteq misread'
    PROVE  ExecutedIsNamed'
BY DEF Lifecycle, ExecutedIsNamed

(* ... and one that also leaves the workers alone keeps what is said of    *)
(* them.                                                                   *)
LEMMA ThreadsFrame ==
    ASSUME Lifecycle, UNCHANGED <<entry, record, lossy, misread, threads>>, signed \subseteq signed'
    PROVE  /\ ThreadTypes' /\ LockOwner' /\ JobsSigned' /\ SectionUnrecorded'
           /\ OwnEntryLast' /\ EntryAccounted' /\ AnswersNamed'
<1>. USE DEF Lifecycle, threads
<1>1. ThreadTypes' /\ LockOwner' BY DEF ApprovalTypeOK, ThreadTypes, LockOwner, Inside
<1>2. JobsSigned' BY DEF JobsSigned
<1>3. SectionUnrecorded' BY DEF SectionUnrecorded, Inside
<1>4. OwnEntryLast' BY DEF OwnEntryLast
<1>5. EntryAccounted' BY DEF EntryAccounted
<1>6. AnswersNamed' BY DEF AnswersNamed
<1>. QED BY <1>1, <1>2, <1>3, <1>4, <1>5, <1>6

(* The steps outside virp_approval_submit() and Apply. *)
LEMMA QuietKeeps ==
    ASSUME Lifecycle, UNCHANGED <<entry, record, lossy, misread, intents, executed, threads>>,
           signed \subseteq signed', (now \in Nat)', StoreTypes', ApplyTypes'
    PROVE  Lifecycle'
BY RecordsFrame, ExecutionsFrame, ThreadsFrame DEF Lifecycle, ApprovalTypeOK

(* Filing a proposal touches no approval. *)
LEMMA ProposeEntryKeeps ==
    ASSUME Lifecycle, NEW p \in Proposals, ProposeEntry(p)
    PROVE  Lifecycle'
<1>. USE DEF ProposeEntry, store, applied, threads
<1>1. (now \in Nat)' BY DEF Lifecycle, ApprovalTypeOK
<1>2. StoreTypes' BY DEF Lifecycle, ApprovalTypeOK, StoreTypes
<1>3. ApplyTypes' BY DEF Lifecycle, ApprovalTypeOK, ApplyTypes
<1>4. UNCHANGED <<entry, record, lossy, misread, intents, executed, threads>> OBVIOUS
<1>5. signed \subseteq signed' OBVIOUS
<1>. QED BY <1>1, <1>2, <1>3, <1>4, <1>5, QuietKeeps

(* Nor does writing its record. *)
LEMMA ProposeRecordKeeps ==
    ASSUME Lifecycle, NEW p \in Proposals, ProposeRecord(p)
    PROVE  Lifecycle'
<1>. USE DEF ProposeRecord, store, applied, threads
<1>1. (now \in Nat)' BY DEF Lifecycle, ApprovalTypeOK
<1>2. StoreTypes' BY SMTT(60) DEF Lifecycle, ApprovalTypeOK, StoreTypes
<1>3. ApplyTypes' BY DEF Lifecycle, ApprovalTypeOK, ApplyTypes
<1>4. UNCHANGED <<entry, record, lossy, misread, intents, executed, threads>> OBVIOUS
<1>5. signed \subseteq signed' OBVIOUS
<1>. QED BY <1>1, <1>2, <1>3, <1>4, <1>5, QuietKeeps

(* Re-issuing a challenge leaves records and signatures alone. *)
LEMMA ChallengeKeeps ==
    ASSUME Lifecycle, NEW p \in Proposals, Challenge(p)
    PROVE  Lifecycle'
<1>. USE DEF Challenge, store, applied, threads
<1>1. (now \in Nat)' BY DEF Lifecycle, ApprovalTypeOK
<1>2. StoreTypes' BY DEF Lifecycle, ApprovalTypeOK, StoreTypes
<1>3. ApplyTypes' BY DEF Lifecycle, ApprovalTypeOK, ApplyTypes
<1>4. UNCHANGED <<entry, record, lossy, misread, intents, executed, threads>> OBVIOUS
<1>5. signed \subseteq signed' OBVIOUS
<1>. QED BY <1>1, <1>2, <1>3, <1>4, <1>5, QuietKeeps

(* A signature is only ever added. *)
LEMMA SignKeeps ==
    ASSUME Lifecycle, NEW p \in Proposals, NEW k \in Keys, Sign(k, p)
    PROVE  Lifecycle'
<1>. USE DEF Sign, store, applied, threads
<1>1. (now \in Nat)' BY DEF Lifecycle, ApprovalTypeOK
<1>2. StoreTypes' BY SMTT(60) DEF Lifecycle, ApprovalTypeOK, StoreTypes, Signature, Signatures
<1>3. ApplyTypes' BY DEF Lifecycle, ApprovalTypeOK, ApplyTypes
<1>4. UNCHANGED <<entry, record, lossy, misread, intents, executed, threads>> OBVIOUS
<1>5. signed \subseteq signed' OBVIOUS
<1>. QED BY <1>1, <1>2, <1>3, <1>4, <1>5, QuietKeeps

(* The outcome entry. *)
LEMMA OutcomeKeeps ==
    ASSUME Lifecycle, NEW p \in Proposals, Outcome(p)
    PROVE  Lifecycle'
<1>. USE DEF Outcome, store, applied, threads
<1>1. (now \in Nat)' BY DEF Lifecycle, ApprovalTypeOK
<1>2. StoreTypes' BY DEF Lifecycle, ApprovalTypeOK, StoreTypes
<1>3. ApplyTypes' BY DEF Lifecycle, ApprovalTypeOK, ApplyTypes
<1>4. UNCHANGED <<entry, record, lossy, misread, intents, executed, threads>> OBVIOUS
<1>5. signed \subseteq signed' OBVIOUS
<1>. QED BY <1>1, <1>2, <1>3, <1>4, <1>5, QuietKeeps

(* The clock. *)
LEMMA TickKeeps ==
    ASSUME Lifecycle, Tick
    PROVE  Lifecycle'
<1>. USE DEF Tick, store, applied, threads
<1>1. (now \in Nat)' BY SMTT(60) DEF Lifecycle, ApprovalTypeOK
<1>2. StoreTypes' BY DEF Lifecycle, ApprovalTypeOK, StoreTypes
<1>3. ApplyTypes' BY DEF Lifecycle, ApprovalTypeOK, ApplyTypes
<1>4. UNCHANGED <<entry, record, lossy, misread, intents, executed, threads>> OBVIOUS
<1>5. signed \subseteq signed' OBVIOUS
<1>. QED BY <1>1, <1>2, <1>3, <1>4, <1>5, QuietKeeps

(* A submit enters with a signature that was made. *)
LEMMA SubmitChecksKeeps ==
    ASSUME Lifecycle, NEW w \in Workers, NEW s \in signed, SubmitChecks(w, s)
    PROVE  Lifecycle'
<1>. USE DEF Lifecycle, SubmitChecks, store, applied, threads
<1>f. RecordTypes' /\ OneRecord' /\ RecordIsSigned' /\ ExecutedIsNamed'
  BY RecordsFrame, ExecutionsFrame
<1>1. ApprovalTypeOK'
  <2>0. (now \in Nat)' BY DEF ApprovalTypeOK
  <2>1. StoreTypes' BY DEF ApprovalTypeOK, StoreTypes, ThreadTypes, JobsSigned, Signature, Signatures
  <2>2. RecordTypes' BY <1>f
  <2>3. ApplyTypes' BY DEF ApprovalTypeOK, ApplyTypes, RecordTypes
  <2>4. ThreadTypes' BY DEF ApprovalTypeOK, StoreTypes, RecordTypes, ThreadTypes
  <2>. QED BY <2>0, <2>1, <2>2, <2>3, <2>4 DEF ApprovalTypeOK
<1>2. LockOwner' BY DEF LockOwner, ApprovalTypeOK, ThreadTypes, Inside
<1>3. JobsSigned' BY DEF JobsSigned, ApprovalTypeOK, ThreadTypes, StoreTypes
<1>4. SectionUnrecorded' BY DEF SectionUnrecorded, ApprovalTypeOK, ThreadTypes, RecordTypes, Inside
<1>5. OwnEntryLast' BY DEF OwnEntryLast, ApprovalTypeOK, ThreadTypes, RecordTypes
<1>9. EntryAccounted' BY DEF EntryAccounted, ApprovalTypeOK, RecordTypes, ThreadTypes
<1>10. AnswersNamed' BY DEF AnswersNamed, ApprovalTypeOK, RecordTypes, ThreadTypes
<1>. QED BY <1>1, <1>2, <1>3, <1>4, <1>5, <1>f, <1>9, <1>10 DEF Lifecycle

(* The refusal under the lock. *)
LEMMA SubmitConsumedKeeps ==
    ASSUME Lifecycle, NEW w \in Workers, SubmitConsumed(w)
    PROVE  Lifecycle'
<1>. USE DEF Lifecycle, SubmitConsumed, Finish, store, applied, threads
<1>f. RecordTypes' /\ OneRecord' /\ RecordIsSigned' /\ ExecutedIsNamed'
  BY RecordsFrame, ExecutionsFrame
<1>1. ApprovalTypeOK'
  <2>0. (now \in Nat)' BY DEF ApprovalTypeOK
  <2>1. StoreTypes' BY DEF ApprovalTypeOK, StoreTypes, ThreadTypes, JobsSigned, Signature, Signatures
  <2>2. RecordTypes' BY <1>f
  <2>3. ApplyTypes' BY DEF ApprovalTypeOK, ApplyTypes, RecordTypes
  <2>4. ThreadTypes' BY DEF ApprovalTypeOK, StoreTypes, RecordTypes, ThreadTypes
  <2>. QED BY <2>0, <2>1, <2>2, <2>3, <2>4 DEF ApprovalTypeOK
<1>2. LockOwner' BY DEF LockOwner, ApprovalTypeOK, ThreadTypes, Inside
<1>3. JobsSigned' BY DEF JobsSigned, ApprovalTypeOK, ThreadTypes, StoreTypes
<1>4. SectionUnrecorded' BY DEF SectionUnrecorded, ApprovalTypeOK, ThreadTypes, RecordTypes, Inside
<1>5. OwnEntryLast' BY DEF OwnEntryLast, ApprovalTypeOK, ThreadTypes, RecordTypes
<1>9. EntryAccounted' BY DEF EntryAccounted, ApprovalTypeOK, RecordTypes, ThreadTypes
<1>10. AnswersNamed' BY DEF AnswersNamed, ApprovalTypeOK, RecordTypes, ThreadTypes
<1>. QED BY <1>1, <1>2, <1>3, <1>4, <1>5, <1>f, <1>9, <1>10 DEF Lifecycle

(* The loser is told the approver of record. *)
LEMMA SubmitExistsKeeps ==
    ASSUME Lifecycle, NEW w \in Workers, SubmitExists(w)
    PROVE  Lifecycle'
<1>. USE DEF Lifecycle, SubmitExists, Finish, store, applied, threads
<1>0. job[w] \in Signatures
  BY DEF JobsSigned, ApprovalTypeOK, StoreTypes
<1>f. RecordTypes' /\ OneRecord' /\ RecordIsSigned' /\ ExecutedIsNamed'
  BY RecordsFrame, ExecutionsFrame
<1>1. ApprovalTypeOK'
  <2>0. (now \in Nat)' BY DEF ApprovalTypeOK
  <2>1. StoreTypes' BY DEF ApprovalTypeOK, StoreTypes, ThreadTypes, JobsSigned, Signature, Signatures
  <2>2. RecordTypes' BY <1>f
  <2>3. ApplyTypes' BY DEF ApprovalTypeOK, ApplyTypes, RecordTypes
  <2>4. ThreadTypes'
    <3>1. PICK r \in record[job[w].id] : Finish(w, r.key) OBVIOUS
    <3>2. record[job[w].id] \subseteq [key : Keys, at : Nat, entry : Nat]
      <4>1. job[w].id \in Proposals BY <1>0 DEF Signatures
      <4>2. record \in [Proposals -> SUBSET [key : Keys, at : Nat, entry : Nat]]
        BY DEF ApprovalTypeOK, RecordTypes
      <4>. HIDE DEF SubmitExists, Lifecycle
      <4>. QED BY <4>1, <4>2
    <3>3. r.key \in Keys BY <3>2
    <3>. QED BY <3>1, <3>3 DEF ApprovalTypeOK, ThreadTypes
  <2>. QED BY <2>0, <2>1, <2>2, <2>3, <2>4 DEF ApprovalTypeOK
<1>p. /\ place[w] = "lock" /\ submit_mu = None /\ submit_mu' = None
      /\ \A v \in Workers : place'[v] = IF v = w THEN "done" ELSE place[v]
  BY DEF ApprovalTypeOK, ThreadTypes
<1>u. UNCHANGED <<entry, record, lossy, misread, signed, job>> OBVIOUS
<1>i. LockOwner /\ JobsSigned /\ SectionUnrecorded /\ OwnEntryLast /\ AnswersNamed
  OBVIOUS
<1>2. LockOwner'
  <2>. HIDE DEF SubmitExists, Lifecycle
  <2>. QED BY <1>p, <1>i DEF LockOwner, Inside
<1>3. JobsSigned'
  <2>. HIDE DEF SubmitExists, Lifecycle
  <2>. QED BY <1>p, <1>u, <1>i DEF JobsSigned
<1>4. SectionUnrecorded'
  <2>. HIDE DEF SubmitExists, Lifecycle
  <2>. QED BY <1>p, <1>u, <1>i DEF SectionUnrecorded, Inside
<1>5. OwnEntryLast'
  <2>. HIDE DEF SubmitExists, Lifecycle
  <2>. QED BY <1>p, <1>u, <1>i DEF OwnEntryLast
<1>9. EntryAccounted'
  <2>1. UNCHANGED <<entry, record, lossy, misread, job>> OBVIOUS
  <2>2. \A v \in Workers : place[v] = "write" => place'[v] = "write"
    BY DEF ApprovalTypeOK, ThreadTypes
  <2>. HIDE DEF SubmitExists
  <2>. QED BY <2>1, <2>2 DEF EntryAccounted
<1>10. AnswersNamed'
  <2>1. PICK r \in record[job[w].id] : Finish(w, r.key) OBVIOUS
  <2>2. \A v \in Workers : answer'[v] = IF v = w THEN r.key ELSE answer[v]
    BY <2>1 DEF ApprovalTypeOK, ThreadTypes
  <2>. HIDE DEF SubmitExists, Lifecycle, Finish
  <2>. QED BY <1>p, <1>u, <1>i, <2>2 DEF AnswersNamed
<1>. QED BY <1>1, <1>2, <1>3, <1>4, <1>5, <1>f, <1>9, <1>10 DEF Lifecycle

(* Taking submit_mu with no record in place. *)
LEMMA SubmitEntersKeeps ==
    ASSUME Lifecycle, NEW w \in Workers, SubmitEnters(w)
    PROVE  Lifecycle'
<1>. USE DEF Lifecycle, SubmitEnters, store, applied, threads
<1>f. RecordTypes' /\ OneRecord' /\ RecordIsSigned' /\ ExecutedIsNamed'
  BY RecordsFrame, ExecutionsFrame
<1>1. ApprovalTypeOK'
  <2>0. (now \in Nat)' BY DEF ApprovalTypeOK
  <2>1. StoreTypes' BY DEF ApprovalTypeOK, StoreTypes, ThreadTypes, JobsSigned, Signature, Signatures
  <2>2. RecordTypes' BY <1>f
  <2>3. ApplyTypes' BY DEF ApprovalTypeOK, ApplyTypes, RecordTypes
  <2>4. ThreadTypes' BY DEF ApprovalTypeOK, StoreTypes, RecordTypes, ThreadTypes
  <2>. QED BY <2>0, <2>1, <2>2, <2>3, <2>4 DEF ApprovalTypeOK
<1>p. /\ place[w] = "lock" /\ submit_mu = None /\ submit_mu' = w
      /\ record[job[w].id] = {}
      /\ \A v \in Workers : place'[v] = IF v = w THEN "append" ELSE place[v]
  BY DEF ApprovalTypeOK, ThreadTypes
<1>u. UNCHANGED <<entry, record, lossy, misread, signed, job, answer>> OBVIOUS
<1>i. /\ LockOwner /\ JobsSigned /\ SectionUnrecorded /\ OwnEntryLast
      /\ EntryAccounted /\ AnswersNamed
  OBVIOUS
<1>n. \A v \in Workers : v # None OBVIOUS
<1>2. LockOwner'
  <2>. HIDE DEF SubmitEnters, Lifecycle
  <2>. QED BY <1>p, <1>i, <1>n DEF LockOwner, Inside
<1>3. JobsSigned'
  <2>. HIDE DEF SubmitEnters, Lifecycle
  <2>. QED BY <1>p, <1>u, <1>i DEF JobsSigned
<1>4. SectionUnrecorded'
  <2>. HIDE DEF SubmitEnters, Lifecycle
  <2>. QED BY <1>p, <1>u, <1>i DEF SectionUnrecorded, Inside
<1>5. OwnEntryLast'
  <2>. HIDE DEF SubmitEnters, Lifecycle
  <2>. QED BY <1>p, <1>u, <1>i DEF OwnEntryLast
<1>9. EntryAccounted'
  <2>1. \A v \in Workers : place[v] = "write" => place'[v] = "write" BY <1>p
  <2>. HIDE DEF SubmitEnters, Lifecycle
  <2>. QED BY <1>u, <1>i, <2>1 DEF EntryAccounted
<1>10. AnswersNamed'
  <2>. HIDE DEF SubmitEnters, Lifecycle
  <2>. QED BY <1>p, <1>u, <1>i DEF AnswersNamed
<1>. QED BY <1>1, <1>2, <1>3, <1>4, <1>5, <1>f, <1>9, <1>10 DEF Lifecycle

(* Taking submit_mu with a record in place that could not be opened. *)
LEMMA SubmitMisreadsKeeps ==
    ASSUME Lifecycle, NEW w \in Workers, SubmitMisreads(w)
    PROVE  Lifecycle'
<1>. USE DEF Lifecycle, SubmitMisreads, store, applied, threads
<1>f. RecordTypes' /\ OneRecord' /\ RecordIsSigned' /\ ExecutedIsNamed'
  BY RecordsFrame, ExecutionsFrame
<1>0. job[w].id \in Proposals
  BY DEF JobsSigned, ApprovalTypeOK, StoreTypes, Signatures
<1>1. ApprovalTypeOK'
  <2>0. (now \in Nat)' BY DEF ApprovalTypeOK
  <2>1. StoreTypes' BY <1>0 DEF ApprovalTypeOK, StoreTypes, ThreadTypes, JobsSigned, Signature, Signatures
  <2>2. RecordTypes' BY <1>f
  <2>3. ApplyTypes' BY DEF ApprovalTypeOK, ApplyTypes, RecordTypes
  <2>4. ThreadTypes' BY DEF ApprovalTypeOK, StoreTypes, RecordTypes, ThreadTypes
  <2>. QED BY <2>0, <2>1, <2>2, <2>3, <2>4 DEF ApprovalTypeOK
<1>p. /\ place[w] = "lock" /\ submit_mu = None /\ submit_mu' = w
      /\ misread' = misread \cup {job[w].id}
      /\ \A v \in Workers : place'[v] = IF v = w THEN "append" ELSE place[v]
  BY DEF ApprovalTypeOK, ThreadTypes
<1>u. UNCHANGED <<entry, record, lossy, signed, job, answer>> OBVIOUS
<1>i. /\ LockOwner /\ JobsSigned /\ SectionUnrecorded /\ OwnEntryLast
      /\ EntryAccounted /\ AnswersNamed
  OBVIOUS
<1>n. \A v \in Workers : v # None OBVIOUS
<1>2. LockOwner'
  <2>. HIDE DEF SubmitMisreads, Lifecycle
  <2>. QED BY <1>p, <1>i, <1>n DEF LockOwner, Inside
<1>3. JobsSigned'
  <2>. HIDE DEF SubmitMisreads, Lifecycle
  <2>. QED BY <1>p, <1>u, <1>i DEF JobsSigned
<1>4. SectionUnrecorded'
  <2>. HIDE DEF SubmitMisreads, Lifecycle
  <2>. QED BY <1>p, <1>u, <1>i DEF SectionUnrecorded, Inside
<1>5. OwnEntryLast'
  <2>. HIDE DEF SubmitMisreads, Lifecycle
  <2>. QED BY <1>p, <1>u, <1>i DEF OwnEntryLast
<1>9. EntryAccounted'
  <2>1. \A v \in Workers : place[v] = "write" => place'[v] = "write" BY <1>p
  <2>. HIDE DEF SubmitMisreads, Lifecycle
  <2>. QED BY <1>p, <1>u, <1>i, <2>1 DEF EntryAccounted
<1>10. AnswersNamed'
  <2>. HIDE DEF SubmitMisreads, Lifecycle
  <2>. QED BY <1>p, <1>u, <1>i DEF AnswersNamed
<1>. QED BY <1>1, <1>2, <1>3, <1>4, <1>5, <1>f, <1>9, <1>10 DEF Lifecycle

(* The APPROVAL entry of the lock's holder. *)
LEMMA SubmitAppendsKeeps ==
    ASSUME Lifecycle, NEW w \in Workers, SubmitAppends(w)
    PROVE  Lifecycle'
<1>. USE DEF Lifecycle, SubmitAppends, store, applied, threads
<1>0. job[w] \in Signatures
  BY DEF JobsSigned, ApprovalTypeOK, StoreTypes
<1>. DEFINE e == [key |-> job[w].key, at |-> job[w].at]
<1>a. /\ entry[job[w].id] \in Seq([key : Keys, at : Nat])
      /\ e \in [key : Keys, at : Nat]
      /\ entry' = [entry EXCEPT ![job[w].id] = Append(@, e)]
      /\ job[w].id \in Proposals
  BY <1>0 DEF ApprovalTypeOK, RecordTypes, Signatures
<1>s. /\ \A q \in Proposals : entry[q] \in Seq([key : Keys, at : Nat])
      /\ entry'[job[w].id] = Append(entry[job[w].id], e)
      /\ \A q \in Proposals : q # job[w].id => entry'[q] = entry[q]
  BY <1>a DEF ApprovalTypeOK, RecordTypes
<1>l. LET es == entry[job[w].id]
      IN  /\ Append(es, e) \in Seq([key : Keys, at : Nat])
          /\ Len(Append(es, e)) > 0 /\ Append(es, e)[Len(Append(es, e))] = e
          /\ Len(Append(es, e)) >= Len(es)
          /\ \A i \in 1..Len(es) : Append(es, e)[i] = es[i]
          /\ Len(es) = 0 => Len(Append(es, e)) <= 1
  <2>. DEFINE E == [key : Keys, at : Nat]  es == entry[job[w].id]
  <2>1. es \in Seq(E) /\ e \in E  BY <1>a
  <2>. HIDE DEF SubmitAppends, Lifecycle, e, es, E
  <2>2. /\ Append(es, e) \in Seq(E)
        /\ Len(Append(es, e)) > 0 /\ Append(es, e)[Len(Append(es, e))] = e
        /\ Len(Append(es, e)) >= Len(es)
        /\ \A i \in 1..Len(es) : Append(es, e)[i] = es[i]
        /\ Len(es) = 0 => Len(Append(es, e)) <= 1
    BY <2>1, AppendExtends
  <2>. QED BY <2>2 DEF es, E
<1>b. \A q \in Proposals :
        /\ Len(entry'[q]) >= Len(entry[q])
        /\ \A i \in 1..Len(entry[q]) : entry'[q][i] = entry[q][i]
  <2>. HIDE DEF SubmitAppends, Lifecycle, e
  <2>. TAKE q \in Proposals
  <2>1. CASE q = job[w].id  BY <1>s, <1>l, <2>1
  <2>2. CASE q # job[w].id  BY <1>s, <2>2, LenIsNat
  <2>. QED BY <2>1, <2>2
<1>c. LET es == entry'[job[w].id] IN Len(es) > 0 /\ es[Len(es)] = e
  <2>. HIDE DEF SubmitAppends, Lifecycle, e
  <2>. QED BY <1>s, <1>l
<1>d. entry' \in [Proposals -> Seq([key : Keys, at : Nat])]
  <2>. DEFINE E == [key : Keys, at : Nat]
  <2>1. Append(entry[job[w].id], e) \in Seq(E) BY <1>l
  <2>2. entry \in [Proposals -> Seq(E)] BY DEF ApprovalTypeOK, RecordTypes
  <2>. DEFINE es == Append(entry[job[w].id], e)
  <2>3. entry' = [entry EXCEPT ![job[w].id] = es] BY <1>a
  <2>. SUFFICES entry' \in [Proposals -> Seq(E)] OBVIOUS
  <2>. HIDE DEF E, es
  <2>. QED BY <2>1, <2>2, <2>3
<1>1. ApprovalTypeOK'
  <2>0. (now \in Nat)' BY DEF ApprovalTypeOK
  <2>1. StoreTypes' BY DEF ApprovalTypeOK, StoreTypes, ThreadTypes, JobsSigned, Signature, Signatures
  <2>2. RecordTypes'
    <3>1. \A q \in Proposals : Len(entry[q]) \in Nat /\ Len(entry'[q]) \in Nat
      <4>. DEFINE E == [key : Keys, at : Nat]
      <4>1. entry \in [Proposals -> Seq(E)] BY DEF ApprovalTypeOK, RecordTypes
      <4>2. entry' \in [Proposals -> Seq(E)] BY <1>d
      <4>. HIDE DEF E, SubmitAppends, Lifecycle
      <4>. QED BY <4>1, <4>2, LenIsNat
    <3>2. record' = record OBVIOUS
    <3>3. \A q \in Proposals : \A r \in record[q] : r.entry \in 1..Len(entry[q])
      BY DEF ApprovalTypeOK, RecordTypes
    <3>4. \A q \in Proposals : \A r \in record[q] : r.entry \in 1..Len(entry'[q])
      <4>. HIDE DEF SubmitAppends, Lifecycle
      <4>. QED BY <1>b, <3>1, <3>3, PlaceKept
    <3>. QED BY <1>d, <3>2, <3>4 DEF ApprovalTypeOK, RecordTypes
  <2>3. ApplyTypes' BY DEF ApprovalTypeOK, ApplyTypes, RecordTypes
  <2>4. ThreadTypes' BY DEF ApprovalTypeOK, StoreTypes, RecordTypes, ThreadTypes
  <2>. QED BY <2>0, <2>1, <2>2, <2>3, <2>4 DEF ApprovalTypeOK
<1>p. /\ place[w] = "append"
      /\ \A v \in Workers : place'[v] = IF v = w THEN "write" ELSE place[v]
  BY DEF ApprovalTypeOK, ThreadTypes
<1>u. UNCHANGED <<submit_mu, record, lossy, misread, signed, job, answer>> OBVIOUS
<1>i. /\ LockOwner /\ JobsSigned /\ SectionUnrecorded /\ OneRecord /\ RecordIsSigned
      /\ AnswersNamed
  OBVIOUS
<1>m. submit_mu = w
  <2>. HIDE DEF SubmitAppends, Lifecycle
  <2>. QED BY <1>p, <1>i DEF LockOwner, Inside
<1>2. LockOwner'
  <2>. HIDE DEF SubmitAppends, Lifecycle
  <2>. QED BY <1>p, <1>u, <1>i, <1>m DEF LockOwner, Inside
<1>3. JobsSigned'
  <2>. HIDE DEF SubmitAppends, Lifecycle
  <2>. QED BY <1>p, <1>u, <1>i DEF JobsSigned
<1>4. SectionUnrecorded'
  <2>. HIDE DEF SubmitAppends, Lifecycle
  <2>. QED BY <1>p, <1>u, <1>i DEF SectionUnrecorded, Inside
<1>5. OwnEntryLast'
  <2>. HIDE DEF SubmitAppends, Lifecycle, e
  <2>1. \A v \in Workers : place'[v] = "write" => v = w
    BY <1>p, <1>m, <1>i DEF LockOwner, Inside
  <2>. QED BY <1>c, <1>u, <2>1 DEF OwnEntryLast, e
<1>6. OneRecord'
  <2>. HIDE DEF SubmitAppends, Lifecycle
  <2>. QED BY <1>u, <1>i DEF OneRecord
<1>7. RecordIsSigned'
  <2>1. record' = record /\ signed' = signed OBVIOUS
  <2>2. \A q \in Proposals : \A r \in record[q] : r.entry \in 1..Len(entry[q])
    BY DEF ApprovalTypeOK, RecordTypes
  <2>3. \A q \in Proposals : \A r \in record[q] :
          entry'[q][r.entry] = [key |-> r.key, at |-> r.at]
    <3>1. SUFFICES ASSUME NEW q \in Proposals, NEW r \in record[q]
                 PROVE  entry'[q][r.entry] = [key |-> r.key, at |-> r.at]
      OBVIOUS
    <3>2. entry[q][r.entry] = [key |-> r.key, at |-> r.at] BY DEF RecordIsSigned
    <3>3. entry'[q][r.entry] = entry[q][r.entry] BY <1>b, <2>2
    <3>. QED BY <3>2, <3>3
  <2>. HIDE DEF SubmitAppends, Lifecycle
  <2>4. \A q \in Proposals : \A r \in record[q] : Signature(r.key, q, r.at) \in signed
    BY <1>i DEF RecordIsSigned
  <2>. QED BY <2>1, <2>3, <2>4 DEF RecordIsSigned
<1>8. ExecutedIsNamed' BY DEF ExecutedIsNamed, ApprovalTypeOK, RecordTypes, ApplyTypes, LockOwner, SectionUnrecorded, JobsSigned, OwnEntryLast, Inside
<1>9. EntryAccounted'
  <2>1. job[w].id \notin lossy \cup misread => Len(entry[job[w].id]) = 0
    <3>1. (record[job[w].id] = {} \/ job[w].id \in misread) /\ place[w] = "append"
      BY <1>p, <1>i DEF SectionUnrecorded, Inside
    <3>2. \A v \in Workers : place[v] = "write" => v = w
      BY <1>m, <1>i DEF LockOwner, Inside
    <3>3. Len(entry[job[w].id]) \in Nat
      BY <1>a, LenIsNat
    <3>4. job[w].id \notin lossy \cup misread => ~(Len(entry[job[w].id]) > 0)
      BY <1>a, <3>1, <3>2 DEF EntryAccounted
    <3> QED  BY <3>3, <3>4, LastPlace
  <2>2. \A v \in Workers : place[v] = "write" \/ v = w => place'[v] = "write"
    BY DEF ApprovalTypeOK, ThreadTypes
  <2>3. job' = job /\ lossy' = lossy /\ misread' = misread /\ record' = record
    OBVIOUS
  <2>4. \A q \in Proposals : q # job[w].id => entry'[q] = entry[q]
    BY <1>s
  <2>5. Len(entry[job[w].id]) = 0 => Len(entry'[job[w].id]) <= 1
    BY <1>s, <1>l
  <2> HIDE DEF SubmitAppends
  <2>6. SUFFICES ASSUME NEW p \in Proposals \ (lossy \cup misread)
                 PROVE  /\ Len(entry'[p]) <= 1
                        /\ Len(entry'[p]) > 0 =>
                             \/ record'[p] # {}
                             \/ \E v \in Workers : place'[v] = "write" /\ job'[v].id = p
    BY <2>3 DEF EntryAccounted
  <2>7. CASE p = job[w].id
    <3>1. Len(entry'[p]) <= 1
      BY <2>1, <2>5, <2>7
    <3>2. place'[w] = "write" /\ job'[w].id = p
      BY <2>2, <2>3, <2>7
    <3> QED  BY <3>1, <3>2
  <2>8. CASE p # job[w].id
    <3>1. entry'[p] = entry[p]
      BY <2>4, <2>8
    <3>2. \A v \in Workers : place[v] = "write" /\ job[v].id = p =>
                              place'[v] = "write" /\ job'[v].id = p
      BY <2>2, <2>3
    <3> QED  BY <2>3, <3>1, <3>2 DEF EntryAccounted
  <2> QED  BY <2>7, <2>8
<1>10. AnswersNamed'
  <2>. HIDE DEF SubmitAppends, Lifecycle
  <2>. QED BY <1>p, <1>u, <1>i DEF AnswersNamed
<1>. QED BY <1>1, <1>2, <1>3, <1>4, <1>5, <1>6, <1>7, <1>8, <1>9, <1>10 DEF Lifecycle

(* The failed append. *)
LEMMA AppendFailsKeeps ==
    ASSUME Lifecycle, NEW w \in Workers, AppendFails(w)
    PROVE  Lifecycle'
<1>. USE DEF Lifecycle, AppendFails, Finish, store, applied, threads
<1>f. RecordTypes' /\ OneRecord' /\ RecordIsSigned' /\ ExecutedIsNamed'
  BY RecordsFrame, ExecutionsFrame
<1>1. ApprovalTypeOK'
  <2>0. (now \in Nat)' BY DEF ApprovalTypeOK
  <2>1. StoreTypes' BY DEF ApprovalTypeOK, StoreTypes, ThreadTypes, JobsSigned, Signature, Signatures
  <2>2. RecordTypes' BY <1>f
  <2>3. ApplyTypes' BY DEF ApprovalTypeOK, ApplyTypes, RecordTypes
  <2>4. ThreadTypes' BY DEF ApprovalTypeOK, StoreTypes, RecordTypes, ThreadTypes
  <2>. QED BY <2>0, <2>1, <2>2, <2>3, <2>4 DEF ApprovalTypeOK
<1>2. LockOwner' BY DEF LockOwner, ApprovalTypeOK, ThreadTypes, Inside
<1>3. JobsSigned' BY DEF JobsSigned, ApprovalTypeOK, ThreadTypes, StoreTypes, LockOwner, Inside
<1>4. SectionUnrecorded' BY DEF SectionUnrecorded, ApprovalTypeOK, ThreadTypes, RecordTypes, Inside, LockOwner
<1>5. OwnEntryLast' BY DEF OwnEntryLast, ApprovalTypeOK, ThreadTypes, RecordTypes, LockOwner, Inside
<1>9. EntryAccounted' BY DEF EntryAccounted, ApprovalTypeOK, RecordTypes, ThreadTypes, LockOwner, Inside
<1>10. AnswersNamed' BY DEF AnswersNamed, ApprovalTypeOK, RecordTypes, ThreadTypes, LockOwner, Inside
<1>. QED BY <1>1, <1>2, <1>3, <1>4, <1>5, <1>f, <1>9, <1>10 DEF Lifecycle

(* The record of the lock's holder. *)
LEMMA SubmitWritesKeeps ==
    ASSUME Lifecycle, NEW w \in Workers, SubmitWrites(w)
    PROVE  Lifecycle'
<1>. USE DEF Lifecycle, SubmitWrites, Finish, Bound, store, applied, threads
<1>0. job[w] \in Signatures
  BY DEF JobsSigned, ApprovalTypeOK, StoreTypes
<1>. DEFINE id == job[w].id  es == entry[id]  b == Bound(w)
<1>a. id \in Proposals /\ job[w].key \in Keys /\ job[w].at \in Nat
  BY <1>0 DEF Signatures
<1>b. /\ es \in Seq([key : Keys, at : Nat])
      /\ Len(es) \in Nat /\ Len(es) > 0
      /\ es[Len(es)] = [key |-> job[w].key, at |-> job[w].at]
  <2>1. es \in Seq([key : Keys, at : Nat]) BY <1>a DEF ApprovalTypeOK, RecordTypes
  <2>2. Len(es) > 0 /\ es[Len(es)] = [key |-> job[w].key, at |-> job[w].at]
    BY DEF OwnEntryLast
  <2>3. Len(es) \in Nat BY <2>1, LenIsNat
  <2>. QED BY <2>1, <2>2, <2>3
<1>c. /\ b.key = job[w].key /\ b.at = job[w].at /\ b.entry = Len(es)
      /\ b \in [key : Keys, at : Nat, entry : Nat]
  BY <1>a, <1>b
<1>d. record'[id] = {b} /\ \A q \in Proposals : q # id => record'[q] = record[q]
  BY <1>a DEF ApprovalTypeOK, RecordTypes
<1>1. ApprovalTypeOK'
  <2>0. (now \in Nat)' BY DEF ApprovalTypeOK
  <2>1. StoreTypes' BY DEF ApprovalTypeOK, StoreTypes, ThreadTypes, JobsSigned, Signature, Signatures
  <2>2. RecordTypes'
    <3>. DEFINE R == [key : Keys, at : Nat, entry : Nat]
    <3>1. entry' = entry /\ record' = [record EXCEPT ![id] = {b}] OBVIOUS
    <3>2. {b} \in SUBSET R BY <1>c
    <3>3. record \in [Proposals -> SUBSET R] BY DEF ApprovalTypeOK, RecordTypes
    <3>4. \A q \in Proposals : \A r \in record[q] : r.entry \in 1..Len(entry[q])
      BY DEF ApprovalTypeOK, RecordTypes
    <3>5. b.entry \in 1..Len(entry[id])
      <4>1. b.entry = Len(entry[id]) BY <1>c
      <4>2. Len(entry[id]) \in Nat /\ Len(entry[id]) > 0 BY <1>b
      <4>. HIDE DEF b, id, SubmitWrites, Lifecycle
      <4>. QED BY <4>1, <4>2, LastPlace
    <3>. HIDE DEF R, b, id
    <3>6. record' \in [Proposals -> SUBSET R] BY <3>1, <3>2, <3>3
    <3>7. \A q \in Proposals : \A r \in record'[q] : r.entry \in 1..Len(entry[q])
      BY <1>d, <3>4, <3>5
    <3>. QED BY <3>1, <3>6, <3>7 DEF RecordTypes, R, ApprovalTypeOK
  <2>3. ApplyTypes' BY DEF ApprovalTypeOK, ApplyTypes, RecordTypes
  <2>4. ThreadTypes' BY <1>a DEF ApprovalTypeOK, ThreadTypes
  <2>. QED BY <2>0, <2>1, <2>2, <2>3, <2>4 DEF ApprovalTypeOK
<1>2. LockOwner' BY DEF LockOwner, ApprovalTypeOK, ThreadTypes, Inside, SectionUnrecorded, JobsSigned, OwnEntryLast
<1>p. /\ place[w] = "write"
      /\ \A v \in Workers : place'[v] = IF v = w THEN "done" ELSE place[v]
  BY DEF ApprovalTypeOK, ThreadTypes
<1>u. UNCHANGED <<entry, signed, lossy, misread, job>> OBVIOUS
<1>i. LockOwner /\ JobsSigned /\ RecordIsSigned OBVIOUS
<1>3. JobsSigned'
  <2>. HIDE DEF SubmitWrites, Lifecycle
  <2>. QED BY <1>p, <1>u, <1>i DEF JobsSigned
<1>e. \A v \in Workers : place'[v] \notin {"append", "write"}
  <2>. HIDE DEF SubmitWrites, Lifecycle
  <2>1. submit_mu = w BY <1>p, <1>i DEF LockOwner, Inside
  <2>. QED BY <1>p, <1>i, <2>1 DEF LockOwner, Inside
<1>4. SectionUnrecorded' BY <1>e DEF SectionUnrecorded, Inside
<1>5. OwnEntryLast' BY <1>e DEF OwnEntryLast
<1>6. OneRecord'
  <2>. HIDE DEF b, id, SubmitWrites
  <2>1. ASSUME NEW q \in Proposals, NEW r \in record'[q], NEW t \in record'[q]
        PROVE  r = t
    <3>1. CASE q = id BY <1>d, <3>1
    <3>2. CASE q # id BY <1>d, <3>2 DEF OneRecord
    <3>. QED BY <3>1, <3>2
  <2>. QED BY <2>1 DEF OneRecord
<1>7. RecordIsSigned'
  <2>1. Signature(b.key, id, b.at) \in signed
    BY ZenonT(30), <1>0, <1>c DEF JobsSigned, Signature, Signatures
  <2>2. entry[id][b.entry] = [key |-> b.key, at |-> b.at]
    BY <1>b, <1>c
  <2>. HIDE DEF b, id, SubmitWrites, Lifecycle
  <2>4. ASSUME NEW q \in Proposals, NEW r \in record'[q]
        PROVE  /\ Signature(r.key, q, r.at) \in signed
               /\ entry[q][r.entry] = [key |-> r.key, at |-> r.at]
    <3>1. CASE q = id BY <1>d, <2>1, <2>2, <3>1
    <3>2. CASE q # id BY <1>d, <1>i, <3>2 DEF RecordIsSigned
    <3>. QED BY <3>1, <3>2
  <2>5. ASSUME NEW q \in Proposals, NEW r \in record'[q]
        PROVE  /\ Signature(r.key, q, r.at) \in signed'
               /\ entry'[q][r.entry] = [key |-> r.key, at |-> r.at]
    BY <1>u, <2>4
  <2>. QED BY <2>5 DEF RecordIsSigned
<1>8. ExecutedIsNamed'
  <2>1. record[id] = {} \/ id \in misread BY DEF SectionUnrecorded, Inside
  <2>2. UNCHANGED <<misread, intents, executed>> OBVIOUS
  <2>. HIDE DEF b, id, SubmitWrites
  <2>. QED BY <1>d, <2>1, <2>2 DEF ExecutedIsNamed
<1>9. EntryAccounted' BY ZenonT(30) DEF EntryAccounted, ApprovalTypeOK, RecordTypes, ThreadTypes, LockOwner, SectionUnrecorded, JobsSigned, OwnEntryLast, Inside
<1>10. AnswersNamed'
  <2>1. \E r \in record'[id] : r.key = job[w].key
    BY <1>c, <1>d
  <2>2. ASSUME NEW v \in Workers, v # w, answer'[v] # None
        PROVE  /\ place'[v] = "done"
               /\ job'[v].id \notin misread' => \E r \in record'[job'[v].id] : r.key = answer'[v]
    <3>1. answer[v] # None /\ place'[v] = place[v]
      BY <2>2 DEF ApprovalTypeOK, ThreadTypes
    <3>2. record[id] = {} \/ id \in misread BY DEF SectionUnrecorded, Inside
    <3>3. job[v].id \in Proposals
      BY <3>1 DEF AnswersNamed, JobsSigned, ApprovalTypeOK, StoreTypes, Signatures
    <3>4. job' = job /\ misread' = misread /\ answer'[v] = answer[v]
      BY <2>2 DEF ApprovalTypeOK, ThreadTypes
    <3>5. place[v] = "done"
          /\ (job[v].id \notin misread => \E r \in record[job[v].id] : r.key = answer[v])
      BY <3>1 DEF AnswersNamed
    <3>. HIDE DEF id, b, SubmitWrites, Lifecycle
    <3>. QED BY ZenonT(30), <1>d, <3>1, <3>2, <3>3, <3>4, <3>5
  <2>3. place'[w] = "done" /\ answer'[w] = job[w].key
    BY DEF ApprovalTypeOK, ThreadTypes
  <2>. QED BY <2>1, <2>2, <2>3 DEF AnswersNamed
<1>. QED BY <1>1, <1>2, <1>3, <1>4, <1>5, <1>6, <1>7, <1>8, <1>9, <1>10 DEF Lifecycle

(* The failed record write. *)
LEMMA WriteFailsKeeps ==
    ASSUME Lifecycle, NEW w \in Workers, WriteFails(w)
    PROVE  Lifecycle'
<1>. USE DEF Lifecycle, WriteFails, Finish, store, applied, threads
<1>f. RecordTypes' /\ OneRecord' /\ RecordIsSigned' /\ ExecutedIsNamed'
  BY RecordsFrame, ExecutionsFrame
<1>1. ApprovalTypeOK'
  <2>0. (now \in Nat)' BY DEF ApprovalTypeOK
  <2>1. StoreTypes' BY DEF ApprovalTypeOK, StoreTypes, ThreadTypes, JobsSigned, Signature, Signatures
  <2>2. RecordTypes' BY <1>f
  <2>3. ApplyTypes' BY DEF ApprovalTypeOK, ApplyTypes, RecordTypes
  <2>4. ThreadTypes' BY DEF ApprovalTypeOK, StoreTypes, RecordTypes, ThreadTypes
  <2>. QED BY <2>0, <2>1, <2>2, <2>3, <2>4 DEF ApprovalTypeOK
<1>2. LockOwner' BY DEF LockOwner, ApprovalTypeOK, ThreadTypes, Inside
<1>3. JobsSigned' BY DEF JobsSigned, ApprovalTypeOK, ThreadTypes, StoreTypes, LockOwner, Inside
<1>4. SectionUnrecorded' BY DEF SectionUnrecorded, ApprovalTypeOK, ThreadTypes, RecordTypes, Inside, LockOwner
<1>5. OwnEntryLast' BY DEF OwnEntryLast, ApprovalTypeOK, ThreadTypes, RecordTypes, LockOwner, Inside
<1>9. EntryAccounted' BY DEF EntryAccounted, ApprovalTypeOK, RecordTypes, ThreadTypes, LockOwner, Inside
<1>10. AnswersNamed' BY DEF AnswersNamed, ApprovalTypeOK, RecordTypes, ThreadTypes, LockOwner, Inside
<1>. QED BY <1>1, <1>2, <1>3, <1>4, <1>5, <1>f, <1>9, <1>10 DEF Lifecycle

(* One execution, named by its intent. *)
LEMMA ApplyKeeps ==
    ASSUME Lifecycle, NEW p \in Proposals, NEW r \in record[p], Apply(p, r)
    PROVE  Lifecycle'
<1>. USE DEF Lifecycle, Apply, store, applied, threads
<1>f. RecordTypes' /\ OneRecord' /\ RecordIsSigned' BY RecordsFrame
<1>t. /\ ThreadTypes' /\ LockOwner' /\ JobsSigned' /\ SectionUnrecorded'
      /\ OwnEntryLast' /\ EntryAccounted' /\ AnswersNamed'
  BY ThreadsFrame
<1>1. ApprovalTypeOK'
  <2>0. (now \in Nat)' BY DEF ApprovalTypeOK
  <2>1. StoreTypes' BY DEF ApprovalTypeOK, StoreTypes, ThreadTypes, JobsSigned, Signature, Signatures
  <2>2. RecordTypes' BY <1>f
  <2>3. ApplyTypes' BY SMTT(60) DEF ApprovalTypeOK, ApplyTypes, RecordTypes
  <2>4. ThreadTypes' BY <1>t
  <2>. QED BY <2>0, <2>1, <2>2, <2>3, <2>4 DEF ApprovalTypeOK
<1>8. ExecutedIsNamed'
  <2>1. p \notin misread => executed[p] = 0
    BY DEF ExecutedIsNamed, OneRecord
  <2>2. <<p, r.entry>> \in intents' /\ r \in record'[p] /\ (p \notin misread => executed'[p] = 1)
    BY <2>1, SMTT(60) DEF ApprovalTypeOK, ApplyTypes
  <2>3. ASSUME NEW q \in Proposals \ misread, q # p, executed'[q] # 0
        PROVE  executed'[q] = 1 /\ \E t \in record'[q] : <<q, t.entry>> \in intents'
    BY <2>3 DEF ExecutedIsNamed, ApprovalTypeOK, ApplyTypes
  <2>. QED BY <2>2, <2>3 DEF ExecutedIsNamed
<1>. QED BY <1>1, <1>8, <1>f, <1>t DEF Lifecycle

(* The crash. *)
LEMMA CrashKeeps ==
    ASSUME Lifecycle, Crash
    PROVE  Lifecycle'
<1>. USE DEF Lifecycle, Crash, store, applied, threads
<1>f. RecordTypes' /\ OneRecord' /\ RecordIsSigned' /\ ExecutedIsNamed'
  BY RecordsFrame, ExecutionsFrame
<1>1. ApprovalTypeOK'
  <2>0. (now \in Nat)' BY DEF ApprovalTypeOK
  <2>1. StoreTypes' BY SMTT(60) DEF ApprovalTypeOK, StoreTypes, ThreadTypes, JobsSigned, Signature, Signatures
  <2>2. RecordTypes' BY <1>f
  <2>3. ApplyTypes' BY DEF ApprovalTypeOK, ApplyTypes, RecordTypes
  <2>4. ThreadTypes' BY DEF ApprovalTypeOK, StoreTypes, RecordTypes, ThreadTypes
  <2>. QED BY <2>0, <2>1, <2>2, <2>3, <2>4 DEF ApprovalTypeOK
<1>2. LockOwner' BY DEF LockOwner, ApprovalTypeOK, ThreadTypes, Inside
<1>3. JobsSigned' BY DEF JobsSigned, ApprovalTypeOK, ThreadTypes, StoreTypes
<1>4. SectionUnrecorded' BY DEF SectionUnrecorded, ApprovalTypeOK, ThreadTypes, RecordTypes, Inside
<1>5. OwnEntryLast' BY DEF OwnEntryLast, ApprovalTypeOK, ThreadTypes, RecordTypes
<1>9. EntryAccounted'
  <2>1. \A v \in Workers : place[v] = "write" => job[v].id \in lossy' OBVIOUS
  <2>2. UNCHANGED <<entry, record, misread>> /\ lossy \subseteq lossy' /\ EntryAccounted OBVIOUS
  <2>. HIDE DEF Crash, Lifecycle
  <2>. QED BY <2>1, <2>2 DEF EntryAccounted
<1>10. AnswersNamed' BY DEF AnswersNamed, ApprovalTypeOK, RecordTypes, ThreadTypes
<1>. QED BY <1>1, <1>2, <1>3, <1>4, <1>5, <1>f, <1>9, <1>10 DEF Lifecycle

(* Every step keeps the invariant. *)
LEMMA StepKeeps ==
    ASSUME Lifecycle, [ApprovalNext]_approvalVars
    PROVE  Lifecycle'
<1>1. CASE UNCHANGED approvalVars
  <2>. USE <1>1 DEF approvalVars, threads
  <2>1. (now \in Nat)' /\ StoreTypes' BY DEF Lifecycle, ApprovalTypeOK, StoreTypes
  <2>2. ApplyTypes' BY DEF Lifecycle, ApprovalTypeOK, ApplyTypes
  <2>. QED BY <2>1, <2>2, QuietKeeps
<1>2. CASE ApprovalNext
  BY <1>2, ProposeEntryKeeps, ProposeRecordKeeps, ChallengeKeeps, SignKeeps,
     SubmitChecksKeeps, SubmitConsumedKeeps, SubmitExistsKeeps, SubmitEntersKeeps,
     SubmitMisreadsKeeps,
     SubmitAppendsKeeps, AppendFailsKeeps, SubmitWritesKeeps, WriteFailsKeeps,
     ApplyKeeps, OutcomeKeeps, TickKeeps, CrashKeeps DEF ApprovalNext, Submit
<1>. QED BY <1>1, <1>2

LEMMA AlwaysLifecycle == ApprovalSpec => []Lifecycle
BY InitLifecycle, StepKeeps, PTL DEF ApprovalSpec

-----------------------------------------------------------------------------
(* Types hold for any number of proposals, workers and keys, and a record  *)
(* always names an APPROVAL entry that is on the chain.                    *)
THEOREM ApprovalTypeCorrect == ApprovalSpec => []ApprovalTypeOK
<1>1. Lifecycle => ApprovalTypeOK BY DEF Lifecycle
<1>. QED BY <1>1, AlwaysLifecycle, PTL

(* An approved proposal is executed at most once, whatever submits race,   *)
(* fail or are cut short by crashes (docs/VIRP-CLAIMS.md C20), as long as  *)
(* no submit failed to open an existing record.                            *)
THEOREM ProposalsExecuteOnce == ApprovalSpec => []OneExecutionPerProposal
<1>1. Lifecycle => OneExecutionPerProposal
  <2>. SUFFICES ASSUME Lifecycle, NEW p \in Proposals \ misread PROVE executed[p] <= 1
    BY DEF OneExecutionPerProposal
  <2>1. executed[p] # 0 => executed[p] = 1 BY DEF Lifecycle, ExecutedIsNamed
  <2>. QED BY <2>1, SMTT(60)
<1>. QED BY <1>1, AlwaysLifecycle, PTL

(* virp_approval_submit() never reports anyone but the approver of record  *)
(* of a proposal whose record every submit could open.                     *)
THEOREM AttributionIsRight == ApprovalSpec => []ApproverOfRecord
<1>1. Lifecycle => ApproverOfRecord
  BY DEF Lifecycle, AnswersNamed, ApproverOfRecord
<1>. QED BY <1>1, AlwaysLifecycle, PTL

(* The approver of record signed what the record and its chain entry say,  *)
(* although virp_approval_challenge() may replace the challenge on file at *)
(* any moment.                                                             *)
THEOREM RecordsAreSigned == ApprovalSpec => []RecordIsSigned
<1>1. Lifecycle => RecordIsSigned BY DEF Lifecycle
<1>. QED BY <1>1, AlwaysLifecycle, PTL

(* Racing submits produce one APPROVAL entry unless a record write failed  *)
(* or a record could not be opened.                                        *)
THEOREM RacingSubmitsOneEntry == ApprovalSpec => []OneEntry
<1>1. Lifecycle => OneEntry BY DEF Lifecycle, EntryAccounted, OneEntry
<1>. QED BY <1>1, AlwaysLifecycle, PTL

(* A written approval record is replaced only by a submit that could not *)
(* open it.                                                              *)
THEOREM RecordsAreFinal == ApprovalSpec => RecordStable
<1>1. Lifecycle /\ [ApprovalNext]_approvalVars =>
        [\A p \in Proposals \ misread : record[p] # {} => record'[p] = record[p]]_approvalVars
  <2>. SUFFICES ASSUME Lifecycle, ApprovalNext
               PROVE  \A p \in Proposals \ misread : record[p] # {} => record'[p] = record[p]
    OBVIOUS
  <2>1. ASSUME NEW w \in Workers, SubmitWrites(w)
        PROVE  \A p \in Proposals \ misread : record[p] # {} => record'[p] = record[p]
    BY <2>1 DEF SubmitWrites, Lifecycle, SectionUnrecorded, Inside, ApprovalTypeOK, RecordTypes
  <2>2. CASE \A w \in Workers : ~SubmitWrites(w)
    BY <2>2 DEF ApprovalNext, Submit, store, ProposeEntry, ProposeRecord, Challenge, Sign,
           SubmitChecks, SubmitConsumed, SubmitExists, SubmitEnters, SubmitMisreads, SubmitAppends,
           AppendFails, WriteFails, Apply, Outcome, Tick, Crash
  <2>. QED BY <2>1, <2>2
<1>. QED BY <1>1, AlwaysLifecycle, PTL DEF ApprovalSpec, RecordStable

===========================================================================
