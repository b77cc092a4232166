------------------------ MODULE PolicyJournalProofs ------------------------
(***************************************************************************)
(* The journal keeps its promises for any number of workers and actions,   *)
(* any budgets and any clock.                                              *)
(***************************************************************************)
EXTENDS PolicyJournal, FiniteSetTheorems, SequenceTheorems, TLAPS

USE BudgetAssumption, TimeAssumption, ActionsAssumption

Reserved == {"send", "wait", "finish"}

(***************************************************************************)
(* A worker between its reservation and its finish owns a pending row of   *)
(* its own, and knows that row to be settled only when it is.              *)
(***************************************************************************)
Tickets ==
    /\ ticket \in [Workers -> Nat]
    /\ \A w \in Workers :
         /\ pc[w] # "idle" => daemon = "up" /\ act[w] \in Actions
         /\ pc[w] \in Reserved =>
              ticket[w] \in 1..Len(attempts) /\ attempts[ticket[w]].state = "pending"
         /\ pc[w] = "send" => fate[ticket[w]] = "unsent"
         /\ pc[w] = "finish" /\ known[w] => fate[ticket[w]] # "open"
    /\ \A u, w \in Workers :
         u # w /\ pc[u] \in Reserved /\ pc[w] \in Reserved => ticket[u] # ticket[w]

(* The states a row never leaves. *)
Closed(i) == attempts[i].state \in {"done", "reconciled"}

ClosedIsSettled == \A i \in DOMAIN attempts : Closed(i) => fate[i] # "open"

(* Overlapping mutations follow one another: the earlier row was closed    *)
(* before the later one was reserved.                                      *)
Serial ==
    \A i, j \in DOMAIN attempts :
        i < j /\ Mutation(i) /\ Mutation(j) /\ Overlap(attempts[i].act, attempts[j].act)
            => Closed(i)

CreatedInOrder == \A i \in DOMAIN attempts : attempts[i].created <= last_time

Disruptive == {i \in DOMAIN attempts : attempts[i].act.effect = 2}

Counted ==
    /\ calls = Len(attempts) /\ calls <= max_calls
    /\ disruptive = Cardinality(Disruptive) /\ disruptive <= max_disruptive

IInv == TypeOK /\ Tickets /\ ClosedIsSettled /\ Serial /\ CreatedInOrder
        /\ ExpiredStaysExpired /\ Counted

Attempt == [act : Actions, created : Nat, state : {"pending", "done", "unknown", "reconciled"}]

(* What the type invariant says of the rows of the journal. *)
LEMMA RowTypes ==
  ASSUME TypeOK
  PROVE  /\ Len(attempts) \in Nat /\ DOMAIN attempts = 1..Len(attempts)
         /\ \A i \in 1..Len(attempts) :
              /\ attempts[i] \in Attempt /\ attempts[i].act \in Actions /\ attempts[i].created \in Nat
              /\ attempts[i].state \in {"pending", "done", "unknown", "reconciled"}
              /\ fate[i] \in {"unsent", "open", "settled"}
<1>1. attempts \in Seq(Attempt) /\ fate \in Seq({"unsent", "open", "settled"}) /\ Len(fate) = Len(attempts)
  BY DEF TypeOK, Attempt
<1> HIDE DEF Attempt
<1>2. Len(attempts) \in Nat /\ DOMAIN attempts = 1..Len(attempts)
  BY <1>1
<1>3. \A i \in 1..Len(attempts) : attempts[i] \in Attempt /\ fate[i] \in {"unsent", "open", "settled"}
  BY <1>1, ElementOfSeq
<1> QED
  BY <1>2, <1>3 DEF Attempt

LEMMA InitIInv == Init => IInv
<1> SUFFICES ASSUME Init PROVE IInv
  OBVIOUS
<1>1. TypeOK /\ Tickets
  <2>1. known \in [Workers -> BOOLEAN]
    BY Zenon DEF Init
  <2>2. attempts = << >> /\ fate = << >> /\ Len(attempts) = 0 /\ Len(fate) = 0
    BY DEF Init
  <2>3. \A S : << >> \in Seq(S)
    OBVIOUS
  <2>4. /\ pc \in [Workers -> {"idle"}] /\ act \in [Workers -> {Idle}] /\ ticket \in [Workers -> {0}]
        /\ \A w \in Workers : pc[w] = "idle" /\ ticket[w] = 0
    BY DEF Init
  <2>5. TypeOK
    <3>1. /\ stopped \in BOOLEAN /\ calls \in Nat /\ disruptive \in Nat
          /\ last_time \in Nat /\ now \in Nat /\ daemon \in {"up", "down"}
      BY Zenon DEF Init
    <3>2. /\ pc \in [Workers -> {"idle", "reserve", "send", "wait", "finish"}]
          /\ act \in [Workers -> Actions \cup {Idle}]
          /\ \A w \in Workers : ticket[w] \in 0..Len(attempts)
      BY <2>2, <2>4
    <3> QED
      BY <2>1, <2>2, <2>3, <3>1, <3>2, Zenon DEF TypeOK
  <2>6. Tickets
    BY <2>4 DEF Tickets, Reserved
  <2> QED
    BY <2>5, <2>6
<1>2. DOMAIN attempts = {}
  BY DEF Init
<1>3. Disruptive = {}
  BY <1>2 DEF Disruptive
<1>4. Counted
  BY <1>3, FS_EmptySet DEF Init, Counted
<1> QED
  BY <1>1, <1>2, <1>4 DEF IInv, ClosedIsSettled, Serial, CreatedInOrder, ExpiredStaysExpired

(* Appending a row: the old rows stay where they are. *)
LEMMA RowAdded ==
  ASSUME TypeOK, NEW r \in Attempt, attempts' = Append(attempts, r), fate' = Append(fate, "unsent")
  PROVE  /\ Len(attempts) \in Nat /\ Len(attempts') = Len(attempts) + 1
         /\ attempts' \in Seq(Attempt) /\ fate' \in Seq({"unsent", "open", "settled"})
         /\ Len(fate') = Len(attempts')
         /\ DOMAIN attempts = 1..Len(attempts) /\ DOMAIN attempts' = 1..(Len(attempts) + 1)
         /\ \A i \in 1..Len(attempts) : attempts'[i] = attempts[i] /\ fate'[i] = fate[i]
         /\ attempts'[Len(attempts) + 1] = r /\ fate'[Len(attempts) + 1] = "unsent"
<1>1. attempts \in Seq(Attempt) /\ fate \in Seq({"unsent", "open", "settled"}) /\ Len(fate) = Len(attempts)
  BY DEF TypeOK, Attempt
<1> HIDE DEF Attempt
<1>2. Len(attempts) \in Nat /\ DOMAIN attempts = 1..Len(attempts)
  BY <1>1
<1> QED
  BY <1>1, <1>2, AppendProperties

LEMMA ReserveStep ==
  ASSUME IInv, NEW w \in Workers, Reserve(w)
  PROVE  IInv'
<1> DEFINE a == act[w]
           r == [act |-> a, state |-> "pending", created |-> now]
           n == Len(attempts) + 1
<1>0. TypeOK /\ Tickets /\ ClosedIsSettled /\ Serial /\ CreatedInOrder /\ ExpiredStaysExpired /\ Counted
  BY DEF IInv
<1>1. a \in Actions /\ daemon = "up"
  BY <1>0 DEF Reserve, Tickets
<1>2. r \in Attempt /\ attempts' = Append(attempts, r) /\ fate' = Append(fate, "unsent")
  BY <1>0, <1>1 DEF Reserve, Attempt, TypeOK
<1> HIDE DEF r
<1>3. /\ Len(attempts) \in Nat /\ Len(attempts') = n
      /\ attempts' \in Seq(Attempt) /\ fate' \in Seq({"unsent", "open", "settled"})
      /\ Len(fate') = Len(attempts')
      /\ DOMAIN attempts = 1..Len(attempts) /\ DOMAIN attempts' = 1..n
      /\ \A i \in 1..Len(attempts) : attempts'[i] = attempts[i] /\ fate'[i] = fate[i]
      /\ attempts'[n] = r /\ fate'[n] = "unsent"
  BY <1>0, <1>2, RowAdded
<1>4. /\ r.act = a /\ r.state = "pending" /\ r.created = now
  BY DEF r
<1>5. TypeOK'
  <2>1. attempts' \in Seq([act : Actions, created : Nat,
                         state : {"pending", "done", "unknown", "reconciled"}])
    BY <1>3 DEF Attempt
  <2>2. calls' \in Nat /\ disruptive' \in Nat /\ last_time' \in Nat
    BY <1>0, SMTT(60) DEF Reserve, TypeOK
  <2>3. \A u \in Workers : ticket'[u] \in 0..Len(attempts')
    BY <1>0, <1>3, SMTT(60) DEF Reserve, TypeOK, Tickets
  <2>4. known' \in [Workers -> BOOLEAN]
    BY <1>0, Zenon DEF Reserve, TypeOK
  <2>5. pc' \in [Workers -> {"idle", "reserve", "send", "wait", "finish"}]
    BY <1>0 DEF Reserve, TypeOK
  <2> QED
    BY <1>0, <1>3, <2>1, <2>2, <2>3, <2>4, <2>5, SMTT(60) DEF Reserve, TypeOK
<1>6. Tickets'
  <2>1. ticket' \in [Workers -> Nat] /\ ticket'[w] = n /\ pc'[w] = "send"
    BY <1>0, <1>3, SMTT(60) DEF Reserve, Tickets, TypeOK
  <2>2. \A u \in Workers : u # w => ticket'[u] = ticket[u] /\ pc'[u] = pc[u] /\ known'[u] = known[u]
    BY <1>0 DEF Reserve, Tickets, TypeOK
  <2>3. daemon' = daemon /\ act' = act
    BY DEF Reserve
  <2>4. ASSUME NEW u \in Workers
        PROVE  /\ pc'[u] # "idle" => daemon' = "up" /\ act'[u] \in Actions
               /\ pc'[u] \in Reserved =>
                    ticket'[u] \in 1..Len(attempts') /\ attempts'[ticket'[u]].state = "pending"
               /\ pc'[u] = "send" => fate'[ticket'[u]] = "unsent"
               /\ pc'[u] = "finish" /\ known'[u] => fate'[ticket'[u]] # "open"
    <3>1. CASE u = w
      BY <1>1, <1>3, <1>4, <2>1, <2>3, <3>1, SMTT(60)
    <3>2. CASE u # w
      BY <1>0, <1>3, <2>2, <2>3, <3>2, SMTT(60) DEF Tickets, Reserved
    <3> QED
      BY <3>1, <3>2
  <2>5. ASSUME NEW u \in Workers, NEW v \in Workers, u # v, pc'[u] \in Reserved, pc'[v] \in Reserved
        PROVE  ticket'[u] # ticket'[v]
    BY <1>0, <1>3, <2>1, <2>2, <2>5, SMTT(60) DEF Tickets
  <2> QED
    BY <2>1, <2>4, <2>5, SMTT(60) DEF Tickets
<1>7. ClosedIsSettled'
  BY <1>0, <1>3, <1>4 DEF ClosedIsSettled, Closed
<1>8. Serial'
  <2> SUFFICES ASSUME NEW i \in 1..n, NEW j \in 1..n, i < j, Mutation(i)', Mutation(j)',
                      Overlap(attempts'[i].act, attempts'[j].act)
               PROVE  attempts'[i].state \in {"done", "reconciled"}
    BY <1>3 DEF Serial, Closed
  <2>0. i \in 1..Len(attempts) /\ attempts'[i] = attempts[i]
    BY <1>3
  <2>1. CASE j = n
    <3>1. a.effect # 0 /\ Overlap(attempts[i].act, a)
      BY <1>3, <1>4, <2>0, <2>1 DEF Mutation
    <3>2. i \notin Ambiguous(a)
      BY <3>1, Zenon DEF Reserve
    <3>3. attempts[i].state # "pending" /\ ~(attempts[i].state = "unknown" /\ attempts[i].act.effect # 0)
      BY <1>3, <2>0, <3>1, <3>2, SMTT(60) DEF Ambiguous
    <3>4. attempts[i].act.effect # 0
      BY <2>0 DEF Mutation
    <3>5. attempts[i].state \in {"pending", "done", "unknown", "reconciled"}
      BY <1>0, <2>0, RowTypes
    <3> QED
      BY <2>0, <3>3, <3>4, <3>5, SMTT(60)
  <2>2. CASE j # n
    <3>1. j \in 1..Len(attempts) /\ attempts'[j] = attempts[j]
      BY <1>3, <2>2
    <3> QED
      BY <1>0, <1>3, <2>0, <3>1, ZenonT(60) DEF Serial, Closed, Mutation
  <2> QED
    BY <2>1, <2>2
<1>9. CreatedInOrder' /\ ExpiredStaysExpired'
  <2>1. last_time <= now /\ last_time' = now /\ now < Expires[a.uid] /\ now \in Nat /\ last_time \in Nat
    BY <1>0 DEF Reserve, InTime, TypeOK
  <2>2. \A i \in 1..Len(attempts) : attempts[i].created \in Nat /\ attempts[i].created <= last_time
    BY <1>0, <1>3, RowTypes, SMTT(60) DEF CreatedInOrder
  <2>3. Expires[a.uid] \in Nat
    BY <1>1 DEF Uids
  <2>4. CreatedInOrder'
    BY <1>3, <1>4, <2>1, <2>2, SMTT(60) DEF CreatedInOrder
  <2>5. ASSUME NEW i \in 1..n, NEW j \in 1..n, i < j
        PROVE  attempts'[i].created < Expires[attempts'[j].act.uid]
    <3>1. i \in 1..Len(attempts) /\ attempts'[i] = attempts[i]
      BY <1>3, <2>5
    <3>2. CASE j = n
      BY <1>3, <1>4, <2>1, <2>2, <2>3, <3>1, <3>2, SMTT(60)
    <3>3. CASE j # n
      <4>1. j \in 1..Len(attempts) /\ attempts'[j] = attempts[j]
        BY <1>3, <3>3
      <4> QED
        BY <1>0, <1>3, <2>5, <3>1, <4>1, Zenon DEF ExpiredStaysExpired
    <3> QED
      BY <3>2, <3>3
  <2> QED
    BY <1>3, <2>4, <2>5, SMTT(60) DEF ExpiredStaysExpired
<1>10. Counted'
  <2>1. IsFiniteSet(Disruptive)
    <3>1. IsFiniteSet(1..Len(attempts))
      BY <1>3, FS_Interval, SMTT(60)
    <3> QED
      BY <1>3, <3>1, FS_Subset DEF Disruptive
  <2>2. calls' = n /\ calls' <= max_calls
    BY <1>0, <1>3, SMTT(60) DEF Reserve, InBudget, Counted
  <2>3. CASE a.effect = 2
    <3>1. Disruptive' = Disruptive \cup {n} /\ n \notin Disruptive
      BY <1>3, <1>4, <2>3, SMTT(60) DEF Disruptive
    <3>2. Cardinality(Disruptive') = Cardinality(Disruptive) + 1
      BY <2>1, <3>1, FS_AddElement, SMTT(60)
    <3> QED
      BY <1>0, <1>3, <2>2, <2>3, <3>2, SMTT(60) DEF Reserve, InBudget, Counted, TypeOK
  <2>4. CASE a.effect # 2
    <3>1. Disruptive' = Disruptive
      BY <1>3, <1>4, <2>4 DEF Disruptive
    <3> QED
      BY <1>0, <1>3, <2>2, <2>4, <3>1, SMTT(60) DEF Reserve, Counted
  <2> QED
    BY <2>3, <2>4
<1> QED
  BY <1>5, <1>6, <1>7, <1>8, <1>9, <1>10, SMTT(60) DEF IInv

(***************************************************************************)
(* The other steps of a worker leave the clock, the counters and what rows *)
(* are about alone: they change the state or the fate of their own row.    *)
(***************************************************************************)
SameRows ==
    /\ DOMAIN attempts' = DOMAIN attempts /\ Len(attempts') = Len(attempts)
    /\ \A i \in DOMAIN attempts :
         /\ attempts'[i].act = attempts[i].act /\ attempts'[i].created = attempts[i].created
         /\ Closed(i) => Closed(i)'
    /\ UNCHANGED <<calls, disruptive, last_time>>

LEMMA SameRowsKeep ==
  ASSUME IInv, SameRows
  PROVE  Serial' /\ CreatedInOrder' /\ ExpiredStaysExpired' /\ Counted'
<1>1. Serial'
  BY SMTT(60) DEF IInv, SameRows, Serial, Mutation
<1>2. CreatedInOrder' /\ ExpiredStaysExpired'
  BY DEF IInv, SameRows, CreatedInOrder, ExpiredStaysExpired
<1>3. Disruptive' = Disruptive
  BY DEF SameRows, Disruptive
<1> QED
  BY <1>1, <1>2, <1>3, SMTT(60) DEF IInv, SameRows, Counted

(* Rows untouched. *)
LEMMA UntouchedRows ==
  ASSUME IInv, UNCHANGED <<attempts, calls, disruptive, last_time>>
  PROVE  SameRows
BY DEF SameRows, Closed

LEMMA CheckStep ==
  ASSUME IInv, NEW w \in Workers, NEW a \in Actions, Check(w, a)
  PROVE  IInv'
<1>1. SameRows
  BY UntouchedRows DEF Check, control
<1>2. TypeOK'
  BY SMTT(60) DEF IInv, TypeOK, Check, control
<1>3. Tickets'
  BY DEF IInv, TypeOK, Tickets, Reserved, Check
<1>4. ClosedIsSettled'
  BY DEF IInv, ClosedIsSettled, Closed, Check
<1> QED
  BY <1>1, <1>2, <1>3, <1>4, SameRowsKeep, SMTT(60) DEF IInv

LEMMA ReserveRefusedStep ==
  ASSUME IInv, NEW w \in Workers, ReserveRefused(w)
  PROVE  IInv'
<1>1. SameRows
  BY UntouchedRows, SMTT(60) DEF ReserveRefused, control
<1>2. TypeOK'
  BY SMTT(60) DEF IInv, TypeOK, ReserveRefused, control
<1>3. Tickets'
  BY DEF IInv, TypeOK, Tickets, Reserved, ReserveRefused
<1>4. ClosedIsSettled'
  BY SMTT(60) DEF IInv, ClosedIsSettled, Closed, ReserveRefused
<1> QED
  BY <1>1, <1>2, <1>3, <1>4, SameRowsKeep, SMTT(60) DEF IInv

LEMMA NotSentStep ==
  ASSUME IInv, NEW w \in Workers, NotSent(w)
  PROVE  IInv'
<1>1. SameRows
  BY UntouchedRows DEF NotSent, control
<1>2. TypeOK'
  BY DEF IInv, TypeOK, NotSent, control
<1>3. Tickets'
  BY DEF IInv, TypeOK, Tickets, Reserved, NotSent
<1>4. ClosedIsSettled'
  BY DEF IInv, ClosedIsSettled, Closed, NotSent
<1> QED
  BY <1>1, <1>2, <1>3, <1>4, SameRowsKeep DEF IInv

(* A change of one row's fate keeps the types. *)
LEMMA FateTypes ==
  ASSUME TypeOK, NEW k \in 1..Len(attempts), NEW f \in {"unsent", "open", "settled"}
  PROVE  LET g == [fate EXCEPT ![k] = f]
         IN  /\ g \in Seq({"unsent", "open", "settled"}) /\ Len(g) = Len(fate)
             /\ g[k] = f /\ \A i \in 1..Len(attempts) : i # k => g[i] = fate[i]
BY ExceptSeq, RowTypes, SMTT(60) DEF TypeOK

LEMMA SendStep ==
  ASSUME IInv, NEW w \in Workers, Send(w)
  PROVE  IInv'
<1> DEFINE k == ticket[w]
<1>0. TypeOK /\ Tickets /\ ClosedIsSettled
  BY DEF IInv
<1>1. SameRows
  BY UntouchedRows DEF Send, control
<1>2. k \in 1..Len(attempts) /\ attempts[k].state = "pending"
  BY <1>0 DEF Tickets, Reserved, Send
<1>3. /\ fate' \in Seq({"unsent", "open", "settled"}) /\ Len(fate') = Len(fate)
      /\ fate'[k] = "open" /\ \A i \in 1..Len(attempts) : i # k => fate'[i] = fate[i]
  BY <1>0, <1>2, FateTypes DEF Send
<1>4. known' \in [Workers -> BOOLEAN] /\ known'[w] = FALSE
      /\ \A u \in Workers : u # w => known'[u] = known[u]
  BY <1>0, Zenon DEF Send, TypeOK
<1>5. /\ pc' \in [Workers -> {"idle", "reserve", "send", "wait", "finish"}] /\ pc'[w] = "wait"
      /\ \A u \in Workers : u # w => pc'[u] = pc[u]
      /\ UNCHANGED <<stopped, calls, disruptive, last_time, attempts, daemon, now, act, ticket>>
  BY <1>0 DEF Send, control, TypeOK
<1>6. TypeOK'
  BY <1>0, <1>3, <1>4, <1>5, SMTT(60) DEF TypeOK
<1>7. Tickets'
  <2>1. ASSUME NEW u \in Workers
        PROVE  /\ pc'[u] # "idle" => daemon = "up" /\ act[u] \in Actions
               /\ pc'[u] \in Reserved =>
                    ticket[u] \in 1..Len(attempts) /\ attempts[ticket[u]].state = "pending"
               /\ pc'[u] = "send" => fate'[ticket[u]] = "unsent"
               /\ pc'[u] = "finish" /\ known'[u] => fate'[ticket[u]] # "open"
    BY <1>0, <1>2, <1>3, <1>4, <1>5, SMTT(60) DEF Tickets, Reserved, Send
  <2> QED
    BY <1>0, <1>5, <2>1, SMTT(60) DEF Tickets, Reserved, Send
<1>8. ClosedIsSettled'
  BY <1>0, <1>2, <1>3, <1>5, RowTypes, SMTT(60) DEF ClosedIsSettled, Closed
<1> QED
  BY <1>1, <1>6, <1>7, <1>8, SameRowsKeep DEF IInv

LEMMA ReturnsStep ==
  ASSUME IInv, NEW w \in Workers, NEW d \in BOOLEAN, Returns(w, d)
  PROVE  IInv'
<1> DEFINE k == ticket[w]
<1>0. TypeOK /\ Tickets /\ ClosedIsSettled
  BY SMTT(60) DEF IInv
<1>1. SameRows
  BY UntouchedRows DEF Returns, control
<1>2. k \in 1..Len(attempts) /\ attempts[k].state = "pending"
  BY <1>0 DEF Tickets, Reserved, Returns
<1>3. /\ fate' \in Seq({"unsent", "open", "settled"}) /\ Len(fate') = Len(fate)
      /\ d => fate'[k] # "open" /\ \A i \in 1..Len(attempts) : i # k => fate'[i] = fate[i]
      /\ ~d => fate' = fate
  <2>1. CASE d
    BY <1>0, <1>2, <2>1, FateTypes, SMTT(60) DEF Returns
  <2>2. CASE ~d
    BY <1>0, <2>2 DEF Returns, TypeOK
  <2> QED
    BY <2>1, <2>2, SMTT(60)
<1>4. known' \in [Workers -> BOOLEAN] /\ known'[w] = d
      /\ \A u \in Workers : u # w => known'[u] = known[u]
  BY <1>0, Zenon DEF Returns, TypeOK
<1>5. /\ pc' \in [Workers -> {"idle", "reserve", "send", "wait", "finish"}] /\ pc'[w] = "finish"
      /\ \A u \in Workers : u # w => pc'[u] = pc[u]
      /\ UNCHANGED <<stopped, calls, disruptive, last_time, attempts, daemon, now, act, ticket>>
  BY <1>0, SMTT(60) DEF Returns, control, TypeOK
<1>6. TypeOK'
  BY <1>0, <1>3, <1>4, <1>5, SMTT(60) DEF TypeOK
<1>7. Tickets'
  <2>1. CASE d
    BY <1>0, <1>2, <1>3, <1>4, <1>5, <2>1, SMTT(60) DEF Tickets, Reserved, Returns
  <2>2. CASE ~d
    BY <1>0, <1>2, <1>3, <1>4, <1>5, <2>2, SMTT(60) DEF Tickets, Reserved, Returns
  <2> QED
    BY <2>1, <2>2, SMTT(60)
<1>8. ClosedIsSettled'
  BY <1>0, <1>2, <1>3, <1>5, RowTypes DEF ClosedIsSettled, Closed
<1> QED
  BY <1>1, <1>6, <1>7, <1>8, SameRowsKeep, SMTT(60) DEF IInv

(* A change of one row's state. *)
LEMMA StateTypes ==
  ASSUME TypeOK, NEW k \in 1..Len(attempts), NEW s \in {"pending", "done", "unknown", "reconciled"},
         attempts' = [attempts EXCEPT ![k].state = s]
  PROVE  /\ attempts' \in Seq(Attempt) /\ Len(attempts') = Len(attempts)
         /\ DOMAIN attempts' = DOMAIN attempts /\ DOMAIN attempts = 1..Len(attempts)
         /\ attempts'[k].state = s /\ attempts'[k].act = attempts[k].act
         /\ attempts'[k].created = attempts[k].created
         /\ \A i \in 1..Len(attempts) : i # k => attempts'[i] = attempts[i]
<1> DEFINE r == [attempts[k] EXCEPT !.state = s]
           g == [attempts EXCEPT ![k] = r]
<1>1. attempts \in Seq(Attempt) /\ attempts[k] \in Attempt
  BY RowTypes, SMTT(60) DEF TypeOK, Attempt
<1>2. r \in Attempt /\ r.state = s /\ r.act = attempts[k].act /\ r.created = attempts[k].created
  BY <1>1, Zenon DEF Attempt
<1> HIDE DEF r, Attempt
<1>3. g \in Seq(Attempt) /\ Len(g) = Len(attempts) /\ DOMAIN g = DOMAIN attempts
      /\ \A i \in 1..Len(attempts) : g[i] = IF i = k THEN r ELSE attempts[i]
  BY <1>1, <1>2, ExceptSeq, SMTT(60)
<1>4. [attempts EXCEPT ![k].state = s] = g
  BY SMTT(60) DEF r
<1> HIDE DEF g
<1> QED
  BY <1>2, <1>3, <1>4, RowTypes, Zenon

(* A worker that is idle again asks nothing of the rows. *)
LEMMA EndCallTypes ==
  ASSUME TypeOK, Tickets, NEW w \in Workers, EndCall(w)
  PROVE  /\ pc' \in [Workers -> {"idle", "reserve", "send", "wait", "finish"}] /\ pc'[w] = "idle"
         /\ act' \in [Workers -> Actions \cup {Idle}]
         /\ ticket' \in [Workers -> Nat] /\ ticket'[w] = 0
         /\ known' \in [Workers -> BOOLEAN]
         /\ \A u \in Workers : u # w =>
              pc'[u] = pc[u] /\ act'[u] = act[u] /\ ticket'[u] = ticket[u] /\ known'[u] = known[u]
<1>1. known' \in [Workers -> BOOLEAN] /\ \A u \in Workers : u # w => known'[u] = known[u]
  BY Zenon DEF EndCall, TypeOK
<1> QED
  BY <1>1 DEF EndCall, TypeOK, Tickets

LEMMA FinishStep ==
  ASSUME IInv, NEW w \in Workers, Finish(w)
  PROVE  IInv'
<1> DEFINE k == ticket[w]
<1>0. TypeOK /\ Tickets /\ ClosedIsSettled /\ EndCall(w)
  BY DEF IInv, Finish
<1>1. k \in 1..Len(attempts) /\ attempts[k].state = "pending" /\ k \in DOMAIN attempts
      /\ (known[w] => fate[k] # "open")
  BY <1>0, RowTypes DEF Tickets, Reserved, Finish
<1>2. PICK s \in FinalState(w) : attempts' = [attempts EXCEPT ![k].state = s]
  BY <1>1, Zenon DEF Finish
<1>3. s \in {"done", "unknown"} /\ (s = "done" => fate[k] # "open")
  BY <1>0, <1>1, <1>2, SMTT(60) DEF FinalState, TypeOK
<1>4. /\ attempts' \in Seq(Attempt) /\ Len(attempts') = Len(attempts)
      /\ DOMAIN attempts' = DOMAIN attempts /\ DOMAIN attempts = 1..Len(attempts)
      /\ attempts'[k].state = s /\ attempts'[k].act = attempts[k].act
      /\ attempts'[k].created = attempts[k].created
      /\ \A i \in 1..Len(attempts) : i # k => attempts'[i] = attempts[i]
  BY <1>0, <1>1, <1>2, <1>3, StateTypes, RowTypes, ZenonT(60)
<1>5. UNCHANGED <<stopped, calls, disruptive, last_time, fate, daemon, now>>
  BY SMTT(60) DEF Finish, control
<1>6. SameRows
  BY <1>1, <1>4, <1>5, SMTT(60) DEF SameRows, Closed
<1>E. /\ pc' \in [Workers -> {"idle", "reserve", "send", "wait", "finish"}] /\ pc'[w] = "idle"
      /\ act' \in [Workers -> Actions \cup {Idle}]
      /\ ticket' \in [Workers -> Nat] /\ ticket'[w] = 0
      /\ \A u \in Workers : u # w => pc'[u] = pc[u] /\ act'[u] = act[u] /\ ticket'[u] = ticket[u]
  BY <1>0, EndCallTypes
<1>L. Len(attempts) \in Nat /\ \A u \in Workers : ticket[u] \in 0..Len(attempts)
  <2>1. Len(attempts) \in Nat
    BY <1>0, RowTypes, SMTT(60)
  <2> QED
    BY <1>0, <2>1, SMTT(60) DEF TypeOK
<1>K. known' \in [Workers -> BOOLEAN] /\ \A u \in Workers : u # w => known'[u] = known[u]
  BY <1>0, EndCallTypes, SMTT(60)
<1>7. TypeOK'
  <2>1. attempts' \in Seq([act : Actions, created : Nat,
                           state : {"pending", "done", "unknown", "reconciled"}])
    <3>1. attempts' \in Seq(Attempt)
      BY <1>4, SMTT(60)
    <3> QED
      BY <3>1, Zenon DEF Attempt
  <2>2. \A u \in Workers : ticket'[u] \in 0..Len(attempts')
    BY <1>4, <1>E, <1>L, SMTT(60)
  <2> QED
    BY <1>0, <1>4, <1>5, <1>E, <1>K, <2>1, <2>2, SMTT(60) DEF TypeOK
<1>8. Tickets'
  <2>1. ASSUME NEW u \in Workers
        PROVE  /\ pc'[u] # "idle" => daemon' = "up" /\ act'[u] \in Actions
               /\ pc'[u] \in Reserved =>
                    ticket'[u] \in 1..Len(attempts') /\ attempts'[ticket'[u]].state = "pending"
               /\ pc'[u] = "send" => fate'[ticket'[u]] = "unsent"
               /\ pc'[u] = "finish" /\ known'[u] => fate'[ticket'[u]] # "open"
    <3>1. CASE u = w
      BY <1>E, <3>1, SMTT(60) DEF Reserved
    <3>2. CASE u # w
      <4>1. pc[u] \in Reserved => ticket[u] \in 1..Len(attempts) /\ ticket[u] # k
        BY <1>0, <3>2, SMTT(60) DEF Tickets, Reserved, Finish
      <4>2. /\ pc'[u] # "idle" => daemon' = "up" /\ act'[u] \in Actions
            /\ pc'[u] \in Reserved =>
                 ticket'[u] \in 1..Len(attempts') /\ attempts'[ticket'[u]].state = "pending"
            /\ pc'[u] = "send" => fate'[ticket'[u]] = "unsent"
        BY <1>0, <1>4, <1>5, <1>E, <3>2, <4>1, SMTT(60) DEF Tickets
      <4>3. pc'[u] = "finish" /\ known'[u] => fate'[ticket'[u]] # "open"
        BY <1>0, <1>5, <1>E, <1>K, <3>2, ZenonT(60) DEF Tickets
      <4> QED
        BY <4>2, <4>3
    <3> QED
      BY <3>1, <3>2, SMTT(60)
  <2>2. ASSUME NEW u \in Workers, NEW v \in Workers, u # v, pc'[u] \in Reserved, pc'[v] \in Reserved
        PROVE  ticket'[u] # ticket'[v]
    <3>1. u # w /\ v # w
      BY <1>E, <2>2, SMTT(60) DEF Reserved
    <3> QED
      BY <1>0, <1>E, <2>2, <3>1, SMTT(60) DEF Tickets
  <2> QED
    BY <1>E, <2>1, <2>2 DEF Tickets
<1>9. ClosedIsSettled'
  BY <1>0, <1>3, <1>4, <1>5, SMTT(60) DEF ClosedIsSettled, Closed
<1> QED
  BY <1>6, <1>7, <1>8, <1>9, SameRowsKeep, SMTT(60) DEF IInv

LEMMA FinishFailsStep ==
  ASSUME IInv, NEW w \in Workers, FinishFails(w)
  PROVE  IInv'
<1>0. TypeOK /\ Tickets /\ ClosedIsSettled /\ EndCall(w)
  BY DEF IInv, FinishFails
<1>1. UNCHANGED <<stopped, calls, disruptive, last_time, attempts, fate, daemon, now>>
  BY DEF FinishFails, control
<1>2. SameRows
  BY <1>1, UntouchedRows, SMTT(60)
<1>E. /\ pc' \in [Workers -> {"idle", "reserve", "send", "wait", "finish"}] /\ pc'[w] = "idle"
      /\ act' \in [Workers -> Actions \cup {Idle}]
      /\ ticket' \in [Workers -> Nat] /\ ticket'[w] = 0
      /\ \A u \in Workers : u # w => pc'[u] = pc[u] /\ act'[u] = act[u] /\ ticket'[u] = ticket[u]
  BY <1>0, EndCallTypes, SMTT(60)
<1>L. Len(attempts) \in Nat /\ \A u \in Workers : ticket[u] \in 0..Len(attempts)
  <2>1. Len(attempts) \in Nat
    BY <1>0, RowTypes, SMTT(60)
  <2> QED
    BY <1>0, <2>1, SMTT(60) DEF TypeOK
<1>K. known' \in [Workers -> BOOLEAN] /\ \A u \in Workers : u # w => known'[u] = known[u]
  BY <1>0, EndCallTypes, SMTT(60)
<1>3. TypeOK'
  <2>1. \A u \in Workers : ticket'[u] \in 0..Len(attempts)
    BY <1>E, <1>L, SMTT(60)
  <2> QED
    BY <1>0, <1>1, <1>E, <1>K, <2>1, SMTT(60) DEF TypeOK
<1>4. Tickets'
  <2>1. ASSUME NEW u \in Workers
        PROVE  /\ pc'[u] # "idle" => daemon' = "up" /\ act'[u] \in Actions
               /\ pc'[u] \in Reserved =>
                    ticket'[u] \in 1..Len(attempts') /\ attempts'[ticket'[u]].state = "pending"
               /\ pc'[u] = "send" => fate'[ticket'[u]] = "unsent"
               /\ pc'[u] = "finish" /\ known'[u] => fate'[ticket'[u]] # "open"
    <3>1. CASE u = w
      BY <1>E, <3>1, SMTT(60) DEF Reserved
    <3>2. CASE u # w
      <4>1. /\ pc'[u] # "idle" => daemon' = "up" /\ act'[u] \in Actions
            /\ pc'[u] \in Reserved =>
                 ticket'[u] \in 1..Len(attempts') /\ attempts'[ticket'[u]].state = "pending"
            /\ pc'[u] = "send" => fate'[ticket'[u]] = "unsent"
        BY <1>0, <1>1, <1>E, <3>2, SMTT(60) DEF Tickets
      <4>2. pc'[u] = "finish" /\ known'[u] => fate'[ticket'[u]] # "open"
        BY <1>0, <1>1, <1>E, <1>K, <3>2, ZenonT(60) DEF Tickets
      <4> QED
        BY <4>1, <4>2, SMTT(60)
    <3> QED
      BY <3>1, <3>2
  <2>2. ASSUME NEW u \in Workers, NEW v \in Workers, u # v, pc'[u] \in Reserved, pc'[v] \in Reserved
        PROVE  ticket'[u] # ticket'[v]
    <3>1. u # w /\ v # w
      BY <1>E, <2>2, SMTT(60) DEF Reserved
    <3> QED
      BY <1>0, <1>E, <2>2, <3>1, SMTT(60) DEF Tickets
  <2> QED
    BY <1>E, <2>1, <2>2, SMTT(60) DEF Tickets
<1>5. ClosedIsSettled'
  BY <1>0, <1>1, SMTT(60) DEF ClosedIsSettled, Closed
<1> QED
  BY <1>2, <1>3, <1>4, <1>5, SameRowsKeep DEF IInv

(* Nobody is working while the daemon is down. *)
LEMMA DownIsIdle ==
  ASSUME IInv, daemon = "down"
  PROVE  \A w \in Workers : pc[w] = "idle"
BY DEF IInv, Tickets

LEMMA StartStep ==
  ASSUME IInv, Start
  PROVE  IInv'
<1>0. TypeOK /\ Tickets /\ ClosedIsSettled
  BY DEF IInv
<1>1. \A w \in Workers : pc[w] = "idle"
  BY DownIsIdle DEF Start
<1>2. UNCHANGED <<stopped, calls, disruptive, last_time, fate, now, pc, act, ticket, known>> /\ daemon' = "up"
  BY DEF Start, control, call
<1> DEFINE Left(i) == IF attempts[i].state = "pending" THEN [attempts[i] EXCEPT !.state = "unknown"]
                      ELSE attempts[i]
<1>3. Len(attempts) \in Nat /\ DOMAIN attempts = 1..Len(attempts)
      /\ \A i \in 1..Len(attempts) : attempts[i] \in Attempt
  BY <1>0, RowTypes
<1>4. attempts' = [i \in 1..Len(attempts) |-> Left(i)]
  BY <1>3 DEF Start, Abandoned
<1>5. \A i \in 1..Len(attempts) : /\ Left(i) \in Attempt /\ Left(i).act = attempts[i].act
                                  /\ Left(i).created = attempts[i].created
                                  /\ attempts[i].state # "pending" => Left(i) = attempts[i]
                                  /\ attempts[i].state = "pending" => Left(i).state = "unknown"
  BY <1>3 DEF Attempt
<1> HIDE DEF Left
<1>6. /\ attempts' \in Seq(Attempt) /\ Len(attempts') = Len(attempts)
      /\ DOMAIN attempts' = 1..Len(attempts) /\ \A i \in 1..Len(attempts) : attempts'[i] = Left(i)
  <2>1. attempts' \in [1..Len(attempts) -> Attempt]
    BY <1>4, <1>5
  <2>2. attempts' \in Seq(Attempt)
    BY <1>3, <2>1, SeqDef, SMTT(60)
  <2> QED
    BY <1>3, <1>4, <2>1, <2>2, LenProperties, SMTT(60)
<1>7. SameRows
  BY <1>2, <1>3, <1>5, <1>6, SMTT(60) DEF SameRows, Closed
<1>8. TypeOK'
  <2>1. attempts' \in Seq([act : Actions, created : Nat,
                           state : {"pending", "done", "unknown", "reconciled"}])
    BY <1>6, SMTT(60) DEF Attempt
  <2> QED
    BY <1>0, <1>2, <1>6, <2>1, SMTT(60) DEF TypeOK
<1>9. Tickets'
  BY <1>0, <1>1, <1>2, SMTT(60) DEF Tickets, Reserved
<1>10. ClosedIsSettled'
  BY <1>0, <1>2, <1>3, <1>5, <1>6, SMTT(60) DEF ClosedIsSettled, Closed
<1> QED
  BY <1>7, <1>8, <1>9, <1>10, SameRowsKeep, SMTT(60) DEF IInv

LEMMA DieStep ==
  ASSUME IInv, Die
  PROVE  IInv'
<1>0. TypeOK /\ Tickets /\ ClosedIsSettled
  BY DEF IInv
<1>1. UNCHANGED <<stopped, calls, disruptive, last_time, attempts, fate, now>> /\ daemon' = "down"
  BY DEF Die, control
<1>2. SameRows
  BY <1>1, UntouchedRows
<1>3. /\ pc' \in [Workers -> {"idle"}] /\ act' \in [Workers -> {Idle}] /\ ticket' \in [Workers -> {0}]
      /\ \A w \in Workers : pc'[w] = "idle" /\ ticket'[w] = 0
  BY DEF Die
<1>4. known' \in [Workers -> BOOLEAN]
  BY Zenon DEF Die
<1>5. TypeOK'
  <2>1. \A w \in Workers : ticket'[w] \in 0..Len(attempts)
    BY <1>0, <1>3, RowTypes, SMTT(60)
  <2>2. pc' \in [Workers -> {"idle", "reserve", "send", "wait", "finish"}]
        /\ act' \in [Workers -> Actions \cup {Idle}]
    BY <1>3, SMTT(60)
  <2> QED
    BY <1>0, <1>1, <1>4, <2>1, <2>2, SMTT(60) DEF TypeOK
<1>6. Tickets'
  BY <1>3 DEF Tickets, Reserved
<1>7. ClosedIsSettled'
  BY <1>0, <1>1 DEF ClosedIsSettled, Closed
<1> QED
  BY <1>2, <1>5, <1>6, <1>7, SameRowsKeep DEF IInv

LEMMA OwnerStopsStep ==
  ASSUME IInv, OwnerStops
  PROVE  IInv'
<1>1. SameRows
  BY UntouchedRows, SMTT(60) DEF OwnerStops
<1>2. TypeOK'
  BY SMTT(60) DEF IInv, TypeOK, OwnerStops, call
<1>3. Tickets' /\ ClosedIsSettled'
  BY DEF IInv, Tickets, ClosedIsSettled, Closed, OwnerStops, call
<1> QED
  BY <1>1, <1>2, <1>3, SameRowsKeep, SMTT(60) DEF IInv

LEMMA ClockStep ==
  ASSUME IInv, NEW c \in 0..MaxTime, ClockSet(c)
  PROVE  IInv'
<1>1. SameRows
  BY UntouchedRows, SMTT(60) DEF ClockSet, control
<1>2. TypeOK'
  BY SMTT(60) DEF IInv, TypeOK, ClockSet, control, call
<1>3. Tickets' /\ ClosedIsSettled'
  BY DEF IInv, Tickets, ClosedIsSettled, Closed, ClockSet, call
<1> QED
  BY <1>1, <1>2, <1>3, SameRowsKeep, SMTT(60) DEF IInv

LEMMA OwnerReconcilesStep ==
  ASSUME IInv, NEW k \in DOMAIN attempts, OwnerReconciles(k)
  PROVE  IInv'
<1>0. TypeOK /\ Tickets /\ ClosedIsSettled
  BY DEF IInv
<1>1. \A w \in Workers : pc[w] = "idle"
  BY DownIsIdle DEF OwnerReconciles
<1>2. UNCHANGED <<stopped, calls, disruptive, last_time, daemon, now, pc, act, ticket, known>>
  BY DEF OwnerReconciles, control, call
<1>3. k \in 1..Len(attempts) /\ attempts[k].state \in {"pending", "unknown"}
  BY <1>0, RowTypes, SMTT(60) DEF OwnerReconciles
<1>4. /\ attempts' \in Seq(Attempt) /\ Len(attempts') = Len(attempts)
      /\ DOMAIN attempts' = DOMAIN attempts /\ DOMAIN attempts = 1..Len(attempts)
      /\ attempts'[k].state = "reconciled" /\ attempts'[k].act = attempts[k].act
      /\ attempts'[k].created = attempts[k].created
      /\ \A i \in 1..Len(attempts) : i # k => attempts'[i] = attempts[i]
  <2>1. attempts' = [attempts EXCEPT ![k].state = "reconciled"]
    BY DEF OwnerReconciles
  <2> QED
    BY <1>0, <1>3, <2>1, StateTypes, ZenonT(60)
<1>5. /\ fate' \in Seq({"unsent", "open", "settled"}) /\ Len(fate') = Len(fate)
      /\ fate'[k] = "settled" /\ \A i \in 1..Len(attempts) : i # k => fate'[i] = fate[i]
  BY <1>0, <1>3, FateTypes, SMTT(60) DEF OwnerReconciles
<1>6. SameRows
  BY <1>2, <1>3, <1>4, SMTT(60) DEF SameRows, Closed
<1>7. TypeOK'
  <2>1. attempts' \in Seq([act : Actions, created : Nat,
                           state : {"pending", "done", "unknown", "reconciled"}])
    BY <1>4, SMTT(60) DEF Attempt
  <2> QED
    BY <1>0, <1>2, <1>4, <1>5, <2>1, SMTT(60) DEF TypeOK
<1>8. Tickets'
  BY <1>0, <1>1, <1>2, ZenonT(60) DEF Tickets, Reserved
<1>9. ClosedIsSettled'
  BY <1>0, <1>4, <1>5 DEF ClosedIsSettled, Closed
<1> QED
  BY <1>6, <1>7, <1>8, <1>9, SameRowsKeep, SMTT(60) DEF IInv

(* The invariant of the journal holds in every state. *)
LEMMA Invariance == Spec => []IInv
<1>1. IInv /\ UNCHANGED vars => IInv'
  <2> SUFFICES ASSUME IInv, UNCHANGED vars PROVE IInv'
    OBVIOUS
  <2>1. SameRows
    BY UntouchedRows, SMTT(60) DEF vars
  <2>2. TypeOK' /\ Tickets' /\ ClosedIsSettled'
    BY SMTT(60) DEF IInv, TypeOK, Tickets, ClosedIsSettled, Closed, vars
  <2> QED
    BY <2>1, <2>2, SameRowsKeep DEF IInv
<1>2. IInv /\ Next => IInv'
  BY CheckStep, ReserveStep, ReserveRefusedStep, NotSentStep, SendStep, FinishStep, FinishFailsStep,
     ReturnsStep, StartStep, DieStep, OwnerStopsStep, OwnerReconcilesStep, ClockStep, SMTT(60) DEF Next
<1> QED
  BY InitIInv, <1>1, <1>2, PTL DEF Spec

(* The journal's tables and the workers' fields keep their types            *)
(* (virp_policy.c's schema and policy_call).                               *)
THEOREM PolicyTypeCorrect == Spec => []TypeOK
<1>1. IInv => TypeOK
  BY SMTT(60) DEF IInv
<1> QED
  BY <1>1, Invariance, PTL

(* virp_policy_reserve(): no mutation is sent while an overlapping one may  *)
(* still be acting, for any number of workers, restarts and failures.      *)
THEOREM MutationsAreSerial == Spec => []NoRepeatWhileOpen
<1>1. IInv => NoRepeatWhileOpen
  BY SMTT(60) DEF IInv, ClosedIsSettled, Serial, NoRepeatWhileOpen
<1> QED
  BY <1>1, Invariance, PTL

(* What virp_policy_finish() recorded as done is not open.                 *)
THEOREM DoneIsFinal == Spec => []DoneIsSettled
<1>1. IInv => DoneIsSettled
  BY DEF IInv, ClosedIsSettled, Closed, DoneIsSettled
<1> QED
  BY <1>1, Invariance, PTL

(* The lifetime budgets of virp_policy_reserve() bound what is ever sent,   *)
(* over all restarts.                                                      *)
THEOREM BudgetsAreKept == Spec => []BudgetsHold
<1>1. ASSUME IInv PROVE BudgetsHold
  <2> DEFINE S == {i \in DOMAIN attempts : Sent(i)}
             E == {i \in DOMAIN attempts : Sent(i) /\ attempts[i].act.effect = 2}
  <2>1. Len(attempts) \in Nat /\ DOMAIN attempts = 1..Len(attempts)
    BY <1>1, RowTypes, SMTT(60) DEF IInv
  <2>2. IsFiniteSet(1..Len(attempts)) /\ Cardinality(1..Len(attempts)) = Len(attempts)
    <3> DEFINE n == Len(attempts)
    <3>1. n \in Nat
      BY <2>1
    <3> HIDE DEF n
    <3>2. IsFiniteSet(1..n) /\ Cardinality(1..n) = IF 1 > n THEN 0 ELSE n - 1 + 1
      BY <3>1, FS_Interval, SMTT(60)
    <3>3. Cardinality(1..n) = n
      BY <3>1, <3>2, SMTT(60)
    <3> QED
      BY <3>2, <3>3 DEF n
  <2>3. IsFiniteSet(S) /\ Cardinality(S) <= Len(attempts)
    <3>1. S \in SUBSET (1..Len(attempts))
      BY <2>1, SMTT(60)
    <3> QED
      BY <2>2, <3>1, FS_Subset, SMTT(60)
  <2>4. IsFiniteSet(Disruptive)
    BY <2>1, <2>2, FS_Subset, SMTT(60) DEF Disruptive
  <2>5. IsFiniteSet(E) /\ Cardinality(E) <= Cardinality(Disruptive)
    <3>1. E \in SUBSET Disruptive
      BY SMTT(60) DEF Disruptive
    <3> QED
      BY <2>4, <3>1, FS_Subset, SMTT(60)
  <2>6. Cardinality(S) \in Nat /\ Cardinality(E) \in Nat /\ Cardinality(Disruptive) \in Nat
    BY <2>3, <2>4, <2>5, FS_CardinalityType, SMTT(60)
  <2>7. /\ Len(attempts) <= max_calls
        /\ Cardinality(Disruptive) <= max_disruptive
    BY <1>1 DEF IInv, Counted
  <2>8. Cardinality(S) <= max_calls /\ Cardinality(E) <= max_disruptive
    <3> HIDE DEF S, E
    <3> QED
      BY <2>1, <2>3, <2>5, <2>6, <2>7, SMTT(60)
  <2> QED
    BY <2>8, SMTT(60) DEF BudgetsHold
<1> QED
  BY <1>1, Invariance, PTL

(* A grant that a reservation has seen expired stays expired when the clock *)
(* is set back: last_time of policy_control.                               *)
THEOREM ExpiryIsFinal == Spec => []ExpiredStaysExpired
<1>1. IInv => ExpiredStaysExpired
  BY DEF IInv
<1> QED
  BY <1>1, Invariance, PTL
============================================================================
