-------------------------- MODULE ObservationProofs --------------------------
(***************************************************************************)
(* The two ends of the observation channel.  The node's session: its keys, *)
(* sequence numbers and v3 observations are right for any number of        *)
(* clients, workers, handshakes and restarts.  The verifier's store: no    *)
(* observation is accepted twice, for any number of sessions, nodes and    *)
(* sequence numbers and any capacity of the table.                         *)
(***************************************************************************)
EXTENDS Session, ReplayStore, SequenceTheorems, TLAPS

-----------------------------------------------------------------------------
(* The session of the node (Session). *)

USE BoundsAssumption

SessionStates == [state : {"DISCONNECTED", "NEGOTIATED", "BOUND", "ACTIVE"},
             generation : Nat, session_id : Nat, client_id : Clients \cup {0},
             transcript : Seq(Messages), session_key : SessionKeys,
             last_seq : Nat, active : BOOLEAN, overdue : BOOLEAN]

Observations == [v : {2, 3}, session_id : Nat, seq : Nat, key : SessionKeys, asked : Nat]

(* The part of the handshake that HELLO and HELLO_ACK leave. *)
Opening(id) ==
    <<[msg |-> "HELLO", client_id |-> acks[id], session_id |-> 0],
      [msg |-> "HELLO_ACK", client_id |-> acks[id], session_id |-> id]>>

(***************************************************************************)
(* What a session structure may hold beside acks and observed: while it is *)
(* in use it is the newest one acknowledged, its transcript is as far as   *)
(* its state says, and its counter is past every number it has signed.     *)
(***************************************************************************)
Sound(s) ==
    /\ s \in SessionStates
    /\ s.session_key # NoKey <=> s.state = "ACTIVE"
    /\ s.state = "DISCONNECTED" => s.transcript = << >>
    /\ s.state # "DISCONNECTED" =>
         /\ acks # << >>
         /\ s.session_id = Len(acks)
         /\ s.client_id = acks[Len(acks)]
         /\ \A i \in DOMAIN observed :
              observed[i].session_id = s.session_id => observed[i].seq <= s.last_seq
    /\ s.state = "NEGOTIATED" => s.transcript = Opening(Len(acks))
    /\ s.state = "ACTIVE" => s.session_key.transcript = Handshake(Len(acks))

ObservedKeys ==
    \A i \in DOMAIN observed :
        /\ observed[i].session_id \in DOMAIN acks
        /\ observed[i].key.transcript = Handshake(observed[i].session_id)

(* A request that runs was admitted with a version. *)
Working ==
    /\ pc \in [Workers -> {"idle", "running"}]
    /\ asked \in [Workers -> [v : {0, 2, 3}, generation : Nat, session_id : Nat]]
    /\ \A w \in Workers : pc[w] = "running" => asked[w].v # 0

IInv == TypeOK /\ Sound(session) /\ Working /\ ObservedKeys /\ SeqGrows /\ V3SameSession

LEMMA BlankSound ==
  ASSUME NEW g \in Nat
  PROVE  Sound(Blank(g)) /\ Blank(g).state = "DISCONNECTED"
<1>1. << >> \in Seq(Messages) /\ NoKey \in SessionKeys
  BY DEF NoKey, SessionKeys
<1>2. Blank(g) \in SessionStates
  BY <1>1 DEF Blank, SessionStates
<1> QED
  BY <1>2 DEF Sound, Blank

LEMMA ResetSound ==
  ASSUME NEW s, Sound(s)
  PROVE  Sound(Reset(s)) /\ Reset(s).state = "DISCONNECTED"
<1>1. s.generation + 1 \in Nat
  BY DEF Sound, SessionStates
<1> QED
  BY <1>1, BlankSound DEF Reset

LEMMA LockedSound ==
  ASSUME Sound(session)
  PROVE  Sound(Locked)
BY ResetSound DEF Locked

(* A step that signs nothing and acknowledges nothing. *)
LEMMA QuietStep ==
  ASSUME IInv, Sound(session'), UNCHANGED <<acks, observed>>, Working'
  PROVE  IInv'
<1>1. Sound(session)'
  BY DEF Sound, Opening, Handshake
<1>2. TypeOK'
  BY SMTT(60) DEF IInv, TypeOK, Working, Sound, SessionStates
<1>3. ObservedKeys' /\ SeqGrows' /\ V3SameSession'
  BY DEF IInv, ObservedKeys, SeqGrows, V3SameSession, Handshake
<1> QED
  BY <1>1, <1>2, <1>3 DEF IInv

LEMMA WorkersSame ==
  ASSUME IInv, UNCHANGED <<pc, asked>>
  PROVE  Working'
BY DEF IInv, Working

LEMMA DoneTypes ==
  ASSUME IInv, NEW w \in Workers, Done(w)
  PROVE  Working'
<1> DEFINE a == Idle
<1>1. a \in [v : {0, 2, 3}, generation : Nat, session_id : Nat]
  BY DEF Idle
<1>2. pc' = [pc EXCEPT ![w] = "idle"] /\ asked' = [asked EXCEPT ![w] = a] /\ Working
  BY DEF IInv, Done
<1> HIDE DEF a
<1> QED
  BY <1>1, <1>2 DEF Working

(* Changes of a session that leave what Sound speaks of alone. *)
LEMMA TouchedSound ==
  ASSUME \A i \in DOMAIN observed : observed[i].seq \in Nat,
         NEW s, Sound(s), NEW r, r \in SessionStates,
         r.session_key = s.session_key, r.state = s.state, r.transcript = s.transcript,
         r.session_id = s.session_id, r.client_id = s.client_id, s.last_seq <= r.last_seq
  PROVE  Sound(r)
<1>1. ASSUME NEW i \in DOMAIN observed, observed[i].seq <= s.last_seq
      PROVE  observed[i].seq <= r.last_seq
  BY <1>1 DEF Sound, SessionStates
<1> QED
  BY <1>1 DEF Sound

LEMMA Logged ==
  ASSUME TypeOK
  PROVE  /\ Len(observed) \in Nat /\ DOMAIN observed = 1..Len(observed)
         /\ \A i \in DOMAIN observed : observed[i] \in Observations /\ observed[i].seq \in Nat
                                        /\ observed[i].session_id \in Nat
         /\ Len(acks) \in Nat /\ DOMAIN acks = 1..Len(acks)
         /\ \A i \in DOMAIN acks : acks[i] \in Clients
<1>1. observed \in Seq(Observations) /\ acks \in Seq(Clients)
  BY DEF TypeOK, Observations
<1> HIDE DEF Observations
<1>2. /\ Len(observed) \in Nat /\ DOMAIN observed = 1..Len(observed)
      /\ \A i \in DOMAIN observed : observed[i] \in Observations
      /\ Len(acks) \in Nat /\ DOMAIN acks = 1..Len(acks)
      /\ \A i \in DOMAIN acks : acks[i] \in Clients
  BY <1>1, ElementOfSeq
<1> QED
  BY <1>2 DEF Observations

LEMMA AppendToPair ==
  ASSUME NEW x, NEW y, NEW z
  PROVE  Append(<<x, y>>, z) = <<x, y, z>>
<1> DEFINE S == {x, y, z}
           p == <<x, y>>
           t == <<x, y, z>>
<1>1. p \in Seq(S) /\ Len(p) = 2 /\ p[1] = x /\ p[2] = y
  OBVIOUS
<1>2. t \in Seq(S) /\ Len(t) = 3 /\ t[1] = x /\ t[2] = y /\ t[3] = z
  OBVIOUS
<1>3. z \in S
  OBVIOUS
<1> HIDE DEF S, p, t
<1>4. /\ Append(p, z) \in Seq(S) /\ Len(Append(p, z)) = 3
      /\ Append(p, z)[1] = x /\ Append(p, z)[2] = y /\ Append(p, z)[3] = z
  <2>0. p \in Seq(S)
    BY <1>1
  <2>1. /\ Append(p, z) \in Seq(S) /\ Len(Append(p, z)) = Len(p) + 1
        /\ \A i \in 1..Len(p) : Append(p, z)[i] = p[i]
        /\ Append(p, z)[Len(p) + 1] = z
    BY <1>3, <2>0, AppendProperties
  <2> QED
    BY <1>1, <2>1
<1>5. \A i \in 1..3 : Append(p, z)[i] = t[i]
  BY <1>2, <1>4
<1>6. Append(p, z) = t
  BY <1>2, <1>4, <1>5, SeqEqual, SMTT(60)
<1> QED
  BY <1>6 DEF p, t

LEMMA HelloStep ==
  ASSUME IInv, NEW c \in Clients, Hello(c)
  PROVE  IInv'
<1> DEFINE n == Len(acks) + 1
           s == Reset(Locked)
           m1 == [msg |-> "HELLO", client_id |-> c, session_id |-> 0]
           m2 == [msg |-> "HELLO_ACK", client_id |-> c, session_id |-> n]
<1>0. TypeOK /\ Sound(session) /\ ObservedKeys /\ SeqGrows /\ V3SameSession
  BY DEF IInv
<1>1. Sound(s) /\ s.state = "DISCONNECTED"
  BY <1>0, LockedSound, ResetSound
<1>2. /\ Len(acks) \in Nat /\ acks' = Append(acks, c) /\ acks' \in Seq(Clients) /\ Len(acks') = n
      /\ acks' # << >>
      /\ acks'[n] = c /\ DOMAIN acks' = 1..n /\ \A i \in 1..Len(acks) : acks'[i] = acks[i]
  <2>1. acks \in Seq(Clients) /\ acks' = Append(acks, c)
    BY <1>0 DEF TypeOK, Hello
  <2> QED
    BY <2>1, AppendProperties
<1>3. UNCHANGED <<pc, asked, observed>>
  BY DEF Hello
<1>4. << >> \o <<m1, m2>> = <<m1, m2>> /\ <<m1, m2>> \in Seq(Messages)
  BY <1>2 DEF Messages
<1>5. session' = [s EXCEPT !.state = "NEGOTIATED", !.session_id = n, !.client_id = c,
                           !.transcript = <<m1, m2>>]
  BY <1>1, <1>4, Zenon DEF Hello, FreshId, Sound
<1> HIDE DEF s, m1, m2
<1>6. /\ session' \in SessionStates /\ session'.state = "NEGOTIATED" /\ session'.session_id = n
      /\ session'.client_id = c /\ session'.transcript = <<m1, m2>>
      /\ session'.session_key = NoKey
  <2> DEFINE tr == <<m1, m2>>
  <2>1. n \in Nat /\ tr \in Seq(Messages) /\ s \in SessionStates /\ s.session_key = NoKey
    BY <1>1, <1>2, <1>4 DEF Sound
  <2>2. session' = [s EXCEPT !.state = "NEGOTIATED", !.session_id = n, !.client_id = c, !.transcript = tr]
    BY <1>5
  <2> HIDE DEF n, tr
  <2>3. session' \in SessionStates
    BY <2>1, <2>2, Zenon DEF SessionStates
  <2>4. /\ session'.state = "NEGOTIATED" /\ session'.session_id = n
        /\ session'.client_id = c /\ session'.transcript = tr /\ session'.session_key = NoKey
    BY <2>1, <2>2 DEF SessionStates
  <2> QED
    BY <2>3, <2>4 DEF n, tr
<1>7. \A i \in DOMAIN observed : observed[i].session_id # n
  BY <1>0, Logged DEF ObservedKeys
<1>8. Opening(Len(acks))' = <<m1, m2>>
  BY <1>2 DEF Opening, m1, m2
<1>9. Sound(session)'
  <2>1. /\ session'.session_key # NoKey <=> session'.state = "ACTIVE"
        /\ session'.state # "DISCONNECTED" /\ session'.state # "ACTIVE"
    BY <1>6
  <2>2. acks' # << >> /\ session'.session_id = Len(acks') /\ session'.client_id = acks'[Len(acks')]
    BY <1>2, <1>6
  <2>3. \A i \in DOMAIN observed' : observed'[i].session_id # session'.session_id
    BY <1>3, <1>6, <1>7
  <2> QED
    BY <1>6, <1>8, <2>1, <2>2, <2>3 DEF Sound
<1>10. TypeOK'
  BY <1>0, <1>2, <1>3, <1>6, <1>9, Zenon DEF TypeOK, Sound, SessionStates
<1>11. ObservedKeys'
  <2>1. ASSUME NEW i \in DOMAIN observed
        PROVE  /\ observed[i].session_id \in DOMAIN acks'
               /\ observed[i].key.transcript = Handshake(observed[i].session_id)'
    <3>1. observed[i].session_id \in 1..Len(acks)
      BY <1>0, Logged DEF ObservedKeys
    <3>2. acks'[observed[i].session_id] = acks[observed[i].session_id]
      BY <1>2, <3>1
    <3>3. Handshake(observed[i].session_id)' = Handshake(observed[i].session_id)
      BY <1>3, <3>2 DEF Handshake
    <3> QED
      BY <1>0, <1>2, <3>1, <3>3 DEF ObservedKeys
  <2> QED
    BY <1>3, <2>1 DEF ObservedKeys
<1>12. SeqGrows' /\ V3SameSession'
  BY <1>0, <1>3 DEF SeqGrows, V3SameSession
<1> QED
  BY <1>3, <1>9, <1>10, <1>11, <1>12, WorkersSame DEF IInv

(* What a BIND that matches leaves. *)
LEMMA BoundSound ==
  ASSUME IInv, NEW c \in Clients, NEW id \in DOMAIN acks, BindMatches(Locked, c, id)
  PROVE  /\ Sound(Bound(Locked, c, id))
         /\ Bound(Locked, c, id).transcript = Handshake(Len(acks))
         /\ Bound(Locked, c, id).state = "BOUND"
<1> DEFINE s == Locked
           b == Bound(s, c, id)
           m == [msg |-> "BIND", client_id |-> c, session_id |-> id]
<1>0. TypeOK /\ Sound(s)
  BY LockedSound DEF IInv
<1>1. /\ s.state = "NEGOTIATED" /\ id = Len(acks) /\ c = acks[Len(acks)] /\ id \in Nat
      /\ s.transcript = Opening(Len(acks))
  BY <1>0, Logged DEF Sound, BindMatches
<1>2. m \in Messages
  BY <1>1 DEF Messages
<1>3. Append(s.transcript, m) = Handshake(Len(acks)) /\ Append(s.transcript, m) \in Seq(Messages)
  <2>1. Append(s.transcript, m) = Handshake(Len(acks))
    BY <1>1, AppendToPair DEF Opening, Handshake
  <2>2. s.transcript \in Seq(Messages)
    BY <1>0 DEF Sound, SessionStates
  <2> HIDE DEF m
  <2>3. Append(s.transcript, m) \in Seq(Messages)
    BY <1>2, <2>2, AppendProperties
  <2> QED
    BY <2>1, <2>3
<1>4. b = [s EXCEPT !.state = "BOUND", !.overdue = FALSE, !.transcript = Handshake(Len(acks))]
  BY <1>0, <1>3, Zenon DEF Bound, Sound, SessionStates
<1>5. Handshake(Len(acks)) \in Seq(Messages)
  BY <1>3, Zenon
<1> HIDE DEF s, b, m
<1>6. /\ b \in SessionStates /\ b.state = "BOUND" /\ b.transcript = Handshake(Len(acks))
      /\ b.session_key = s.session_key /\ b.session_id = s.session_id /\ b.client_id = s.client_id
      /\ b.last_seq = s.last_seq
  BY <1>0, <1>4, <1>5, Zenon DEF Sound, SessionStates
<1>7. Sound(b)
  BY <1>0, <1>1, <1>6 DEF Sound
<1> QED
  BY <1>6, <1>7 DEF b, s

LEMMA BindStep ==
  ASSUME IInv, NEW c \in Clients, NEW id \in DOMAIN acks, Bind(c, id)
  PROVE  IInv'
<1> DEFINE b == Bound(Locked, c, id)
           k == [transcript |-> b.transcript, generation |-> b.generation]
<1>1. Sound(b) /\ b.transcript = Handshake(Len(acks)) /\ b.state = "BOUND"
  BY BoundSound DEF Bind
<1>2. session' = [b EXCEPT !.state = "ACTIVE", !.session_key = k]
  BY DEF Bind
<1>3. k \in SessionKeys /\ k.transcript = Handshake(Len(acks)) /\ k # NoKey
  <2>1. b.transcript \in Seq(Messages) /\ b.generation \in Nat
    BY <1>1 DEF Sound, SessionStates
  <2>2. b.transcript # << >>
    BY <1>1 DEF Handshake
  <2> QED
    BY <1>1, <2>1, <2>2 DEF SessionKeys, NoKey
<1> HIDE DEF b, k
<1>4. session' \in SessionStates
  BY <1>1, <1>2, <1>3, Zenon DEF Sound, SessionStates
<1>5. /\ session'.state = "ACTIVE" /\ session'.session_key = k
      /\ session'.session_id = b.session_id /\ session'.client_id = b.client_id
      /\ session'.last_seq = b.last_seq
  BY <1>1, <1>2 DEF Sound, SessionStates
<1>6. Sound(session')
  BY <1>1, <1>3, <1>4, <1>5 DEF Sound
<1> QED
  BY <1>6, QuietStep, WorkersSame DEF Bind

LEMMA BeginStep ==
  ASSUME IInv, NEW w \in Workers, NEW v \in {2, 3}, Begin(w, v)
  PROVE  IInv'
<1>1. Sound(Locked)
  BY LockedSound DEF IInv
<1>2. Locked.generation \in Nat /\ Locked.session_id \in Nat
  BY <1>1 DEF Sound, SessionStates
<1>3. Working'
  <2> DEFINE a == [v |-> v, generation |-> Locked.generation, session_id |-> Locked.session_id]
  <2>1. a \in [v : {0, 2, 3}, generation : Nat, session_id : Nat] /\ a.v # 0
    BY <1>2
  <2>2. \/ pc' = [pc EXCEPT ![w] = "running"] /\ asked' = [asked EXCEPT ![w] = a]
        \/ UNCHANGED <<pc, asked>>
    BY DEF Begin
  <2> HIDE DEF a
  <2> QED
    BY <2>1, <2>2 DEF IInv, Working
<1> QED
  BY <1>1, <1>3, QuietStep DEF Begin

(* A number taken, with or without the stamp of last_activity_ns. *)
LEMMA NumberTaken ==
  ASSUME TypeOK, NEW s, Sound(s)
  PROVE  /\ Sound([s EXCEPT !.last_seq = @ + 1])
         /\ Sound(Signing(s))
         /\ Signing(s).last_seq = s.last_seq + 1
         /\ Signing(s).session_id = s.session_id /\ Signing(s).state = s.state
<1>1. \A i \in DOMAIN observed : observed[i].seq \in Nat
  BY Logged
<1> DEFINE r == [s EXCEPT !.last_seq = @ + 1]
           z == Signing(s)
<1>0. s \in SessionStates
  BY DEF Sound
<1>2. /\ r \in SessionStates
      /\ r.session_key = s.session_key /\ r.state = s.state /\ r.transcript = s.transcript
      /\ r.session_id = s.session_id /\ r.client_id = s.client_id /\ s.last_seq <= r.last_seq
  BY <1>0, SMTT(60) DEF SessionStates
<1>3. /\ z \in SessionStates
      /\ z.session_key = s.session_key /\ z.state = s.state /\ z.transcript = s.transcript
      /\ z.session_id = s.session_id /\ z.client_id = s.client_id /\ s.last_seq <= z.last_seq
      /\ z.last_seq = s.last_seq + 1
  <2> DEFINE q == s.last_seq + 1
             a == TRUE
             o == FALSE
  <2>1. a \in BOOLEAN /\ o \in BOOLEAN /\ q \in Nat /\ s.last_seq <= q
    BY <1>0 DEF SessionStates
  <2>2. z = [s EXCEPT !.last_seq = q, !.active = a, !.overdue = o]
    BY DEF Signing
  <2>3. q = s.last_seq + 1
    OBVIOUS
  <2> HIDE DEF q, a, o, z
  <2> QED
    BY <1>0, <2>1, <2>2, <2>3, Zenon DEF SessionStates
<1> HIDE DEF r, z
<1>4. Sound(r) /\ Sound(z)
  BY <1>1, <1>2, <1>3, TouchedSound
<1> QED
  BY <1>3, <1>4 DEF r, z

LEMMA SignFailsStep ==
  ASSUME IInv, NEW w \in Workers, SignFails(w)
  PROVE  IInv'
<1>0. TypeOK /\ Sound(session) /\ Sound(Locked)
  BY LockedSound DEF IInv
<1>1. Sound([Locked EXCEPT !.last_seq = @ + 1]) /\ Sound(Signing(Locked))
  BY <1>0, NumberTaken
<1>2. Sound(session')
  BY <1>0, <1>1 DEF SignFails
<1>3. Working' /\ UNCHANGED <<acks, observed>>
  BY DoneTypes, Zenon DEF SignFails, Done
<1> QED
  BY <1>2, <1>3, QuietStep

(* The other steps that only replace the session. *)
LEMMA SessionStep ==
  ASSUME IInv,
         \/ Elapse \/ HelloRefused \/ HelloFails \/ Close
         \/ \E c \in Clients, id \in 1..MaxHello : BindRefused(c, id) \/ BindDeriveFails(c, id)
  PROVE  IInv'
<1>1. TypeOK /\ Sound(session) /\ Sound(Locked)
  BY LockedSound DEF IInv
<1>2. Sound(Reset(Locked))
  BY <1>1, ResetSound
<1>3. CASE Elapse
  <2>1. \A i \in DOMAIN observed : observed[i].seq \in Nat
    BY <1>1, Logged
  <2>0. session \in SessionStates
    BY <1>1 DEF Sound
  <2>2. /\ session' \in SessionStates
        /\ session'.session_key = session.session_key /\ session'.state = session.state
        /\ session'.transcript = session.transcript /\ session'.session_id = session.session_id
        /\ session'.client_id = session.client_id /\ session.last_seq <= session'.last_seq
    <3> DEFINE o == TRUE
    <3>1. o \in BOOLEAN /\ session' = [session EXCEPT !.overdue = o]
      BY <1>3 DEF Elapse
    <3> HIDE DEF o
    <3> QED
      BY <2>0, <3>1, SMTT(60) DEF SessionStates
  <2>3. Sound(session')
    BY <1>1, <2>1, <2>2, TouchedSound
  <2> QED
    BY <1>3, <2>3, QuietStep, WorkersSame DEF Elapse
<1>4. CASE HelloRefused
  BY <1>1, <1>4, QuietStep, WorkersSame DEF HelloRefused
<1>5. CASE HelloFails
  BY <1>2, <1>5, QuietStep, WorkersSame DEF HelloFails
<1>6. CASE Close
  BY <1>2, <1>6, QuietStep, WorkersSame DEF Close
<1>7. ASSUME NEW c \in Clients, NEW id \in 1..MaxHello, BindRefused(c, id)
      PROVE  IInv'
  BY <1>1, <1>7, QuietStep, WorkersSame DEF BindRefused
<1>8. ASSUME NEW c \in Clients, NEW id \in 1..MaxHello, BindDeriveFails(c, id)
      PROVE  IInv'
  <2>1. Sound(session')
    BY <1>8, BoundSound DEF BindDeriveFails
  <2> QED
    BY <1>8, <2>1, QuietStep, WorkersSame DEF BindDeriveFails
<1> QED
  BY <1>3, <1>4, <1>5, <1>6, <1>7, <1>8

LEMMA RestartStep ==
  ASSUME IInv, Restart
  PROVE  IInv'
<1>1. Sound(session')
  BY BlankSound DEF Restart
<1>2. Working'
  BY SMTT(60) DEF Restart, Idle, Working
<1> QED
  BY <1>1, <1>2, QuietStep DEF Restart

LEMMA SignSucceedsStep ==
  ASSUME IInv, NEW w \in Workers, SignSucceeds(w)
  PROVE  IInv'
<1> DEFINE s == Locked
           n == Len(observed)
           o == [v |-> asked[w].v, session_id |-> s.session_id, seq |-> s.last_seq + 1,
                 key |-> s.session_key, asked |-> asked[w].session_id]
<1>0. TypeOK /\ Sound(session) /\ Sound(s) /\ ObservedKeys /\ SeqGrows /\ V3SameSession
  BY LockedSound DEF IInv
<1>1. session' = Signing(s) /\ observed' = Append(observed, o) /\ acks' = acks
  BY DEF SignSucceeds, Done
<1>2. /\ s.state = "ACTIVE" /\ s.session_id = Len(acks) /\ acks # << >>
      /\ s.session_key.transcript = Handshake(Len(acks))
      /\ \A i \in DOMAIN observed :
           observed[i].session_id = s.session_id => observed[i].seq <= s.last_seq
      /\ s.last_seq \in Nat /\ s.session_id \in Nat /\ s.session_key \in SessionKeys
  BY <1>0, SMTT(60) DEF SignSucceeds, Usable, Sound, SessionStates
<1>3. o \in Observations
  <2>1. asked[w] \in [v : {0, 2, 3}, generation : Nat, session_id : Nat]
    BY <1>0 DEF TypeOK
  <2>2. asked[w].v \in {2, 3} /\ asked[w].session_id \in Nat
    BY <2>1, SMTT(60) DEF IInv, Working, SignSucceeds
  <2> HIDE DEF s
  <2> QED
    BY <1>2, <2>2 DEF Observations
<1>4. asked[w].v = 3 => asked[w].session_id = s.session_id
  BY DEF SignSucceeds, SameSession
<1>5. /\ o.session_id = s.session_id /\ o.seq = s.last_seq + 1 /\ o.key = s.session_key
      /\ (o.v = 3 => o.asked = o.session_id)
  BY <1>4
<1>6. /\ n \in Nat /\ DOMAIN observed = 1..n
      /\ \A i \in DOMAIN observed : observed[i].seq \in Nat /\ observed[i].session_id \in Nat
      /\ Len(acks) \in Nat /\ DOMAIN acks = 1..Len(acks)
  BY <1>0, Logged
<1>7. observed \in Seq(Observations)
  BY <1>0 DEF TypeOK, Observations
<1>8. Sound(Signing(s)) /\ Signing(s).last_seq = s.last_seq + 1
      /\ Signing(s).session_id = s.session_id /\ Signing(s).state = s.state
  BY <1>0, NumberTaken, Zenon
<1> HIDE DEF s, o
<1>9. /\ observed' \in Seq(Observations) /\ DOMAIN observed' = 1..(n + 1)
      /\ observed'[n + 1] = o /\ \A i \in 1..n : observed'[i] = observed[i]
  BY <1>1, <1>3, <1>7, AppendProperties
<1> HIDE DEF n
<1>10. SeqGrows'
  <2>1. ASSUME NEW i \in 1..(n + 1), NEW j \in 1..(n + 1), i < j,
               observed'[i].session_id = observed'[j].session_id
        PROVE  observed'[i].seq < observed'[j].seq
    <3>1. CASE j \in 1..n
      <4>1. i \in 1..n /\ observed'[i] = observed[i] /\ observed'[j] = observed[j]
        BY <1>6, <1>9, <2>1, <3>1
      <4>2. i \in DOMAIN observed /\ j \in DOMAIN observed
        BY <1>6, <3>1, <4>1
      <4> QED
        BY <1>0, <2>1, <4>1, <4>2 DEF SeqGrows
    <3>2. CASE j = n + 1
      <4>1. i \in 1..n /\ observed'[i] = observed[i] /\ observed'[j] = o
        BY <1>6, <1>9, <2>1, <3>2
      <4>2. observed[i].seq <= s.last_seq
        BY <1>2, <1>5, <1>6, <2>1, <4>1, SMTT(60)
      <4> QED
        BY <1>2, <1>5, <1>6, <4>1, <4>2, SMTT(60)
    <3> QED
      BY <1>6, <3>1, <3>2
  <2> QED
    BY <1>9, <2>1 DEF SeqGrows
<1>11. V3SameSession'
  <2>1. ASSUME NEW i \in 1..(n + 1)
        PROVE  observed'[i].v = 3 => observed'[i].asked = observed'[i].session_id
    <3>1. CASE i \in 1..n
      BY <1>0, <1>6, <1>9, <3>1, SMTT(60) DEF V3SameSession
    <3>2. CASE i = n + 1
      BY <1>5, <1>9, <3>2
    <3> QED
      BY <1>6, <3>1, <3>2
  <2> QED
    BY <1>9, <2>1 DEF V3SameSession
<1>12. \A id \in Nat : Handshake(id)' = Handshake(id)
  BY <1>1 DEF Handshake
<1>13. ObservedKeys'
  <2>1. ASSUME NEW i \in 1..(n + 1)
        PROVE  /\ observed'[i].session_id \in DOMAIN acks
               /\ observed'[i].key.transcript = Handshake(observed'[i].session_id)
    <3>1. CASE i \in 1..n
      BY <1>0, <1>6, <1>9, <3>1, SMTT(60) DEF ObservedKeys
    <3>2. CASE i = n + 1
      <4>1. Len(acks) \in DOMAIN acks
        BY <1>0, <1>2, <1>6, EmptySeq DEF TypeOK
      <4> QED
        BY <1>2, <1>5, <1>9, <3>2, <4>1
    <3> QED
      BY <1>6, <3>1, <3>2
  <2> QED
    BY <1>1, <1>9, <2>1, Zenon DEF ObservedKeys, Handshake
<1>14. Sound(session)'
  <2>1. ASSUME NEW i \in 1..(n + 1), observed'[i].session_id = s.session_id
        PROVE  observed'[i].seq <= s.last_seq + 1
    <3>1. CASE i \in 1..n
      BY <1>2, <1>6, <1>9, <2>1, <3>1, SMTT(60)
    <3>2. CASE i = n + 1
      BY <1>2, <1>5, <1>9, <3>2
    <3> QED
      BY <1>6, <3>1, <3>2
  <2> DEFINE z == Signing(s)
  <2>2. session' = z /\ Sound(z) /\ z.last_seq = s.last_seq + 1 /\ z.session_id = s.session_id
        /\ z.state = "ACTIVE"
    BY <1>1, <1>2, <1>8
  <2> HIDE DEF z
  <2>3. \A i \in DOMAIN observed' :
          observed'[i].session_id = session'.session_id => observed'[i].seq <= session'.last_seq
    BY <1>9, <2>1, <2>2
  <2> QED
    BY <1>1, <2>2, <2>3 DEF Sound, Opening, Handshake
<1>15. TypeOK'
  <2>1. Working'
    BY DoneTypes DEF SignSucceeds
  <2>2. session' \in SessionStates /\ (session'.session_key # NoKey <=> session'.state = "ACTIVE")
    BY <1>14 DEF Sound
  <2> QED
    BY <1>0, <1>1, <1>9, <2>1, <2>2, Zenon DEF TypeOK, Working, SessionStates, Observations
<1> QED
  BY <1>10, <1>11, <1>13, <1>14, <1>15, DoneTypes DEF IInv, SignSucceeds

LEMMA Invariance ==
  Spec => []IInv
<1>1. Init => IInv
  <2> SUFFICES ASSUME Init PROVE IInv
    OBVIOUS
  <2>1. Sound(session)
    BY BlankSound DEF Init
  <2>2. Working
    BY SMTT(60) DEF Init, Idle, Working
  <2>3. TypeOK
    BY <2>1, <2>2 DEF Init, TypeOK, Working, Sound, SessionStates
  <2> QED
    BY <2>1, <2>2, <2>3 DEF Init, IInv, ObservedKeys, SeqGrows, V3SameSession
<1>2. IInv /\ [Next]_vars => IInv'
  <2> SUFFICES ASSUME IInv, [Next]_vars PROVE IInv'
    OBVIOUS
  <2>1. CASE \/ Elapse \/ HelloRefused \/ HelloFails \/ Close
             \/ \E c \in Clients, id \in 1..MaxHello : BindRefused(c, id) \/ BindDeriveFails(c, id)
    BY <2>1, SessionStep
  <2>2. CASE Restart
    BY <2>2, RestartStep
  <2>3. ASSUME NEW c \in Clients, Hello(c) PROVE IInv'
    BY <2>3, HelloStep, ZenonT(60)
  <2>4. ASSUME NEW c \in Clients, NEW id \in 1..MaxHello, Bind(c, id) PROVE IInv'
    BY <2>4, BindStep, Zenon DEF Bind
  <2>5. ASSUME NEW w \in Workers, NEW v \in {2, 3}, Begin(w, v) PROVE IInv'
    BY <2>5, BeginStep
  <2>6. ASSUME NEW w \in Workers, SignSucceeds(w) PROVE IInv'
    BY <2>6, SignSucceedsStep
  <2>7. ASSUME NEW w \in Workers, SignFails(w) PROVE IInv'
    BY <2>7, SignFailsStep
  <2>8. CASE UNCHANGED vars
    <3>1. UNCHANGED <<acks, observed>> /\ UNCHANGED <<pc, asked>> /\ session' = session
      BY <2>8 DEF vars
    <3>2. Sound(session')
      BY <3>1 DEF IInv
    <3> QED
      BY <3>1, <3>2, QuietStep, WorkersSame
  <2> QED
    BY <2>1, <2>2, <2>3, <2>4, <2>5, <2>6, <2>7, <2>8 DEF Next
<1> QED
  BY <1>1, <1>2, PTL DEF Spec

(* Every reachable session, request and observation is well formed, and a  *)
(* session holds a key exactly while it is ACTIVE (virp_session.c).        *)
THEOREM SessionTypeCorrect == Spec => []TypeOK
<1>1. IInv => TypeOK
  BY DEF IInv
<1> QED
  BY <1>1, Invariance, PTL

(* Within a session the numbers of signed observations only grow: ++last_seq *)
(* under session_mutex, for any number of workers, resets and restarts.      *)
THEOREM NumbersGrow == Spec => []SeqGrows
<1>1. IInv => SeqGrows
  BY SMTT(60) DEF IInv
<1> QED
  BY <1>1, Invariance, PTL

(* The key of an observation is derived from the whole handshake of the    *)
(* session it names and from nothing else: virp_session_derive_key() runs  *)
(* under the lock of virp_handle_session_bind().                           *)
THEOREM KeysBindHandshakes == Spec => []KeyBindsHandshake
<1>1. IInv => KeyBindsHandshake
  BY DEF IInv, Sound, ObservedKeys, KeyBindsHandshake
<1> QED
  BY <1>1, Invariance, PTL

(* A v3 observation is signed in the session that admitted its request:    *)
(* onode_execute_policy_impl() compares generation and id before it signs. *)
THEOREM V3Stays == Spec => []V3SameSession
<1>1. IInv => V3SameSession
  BY DEF IInv
<1> QED
  BY <1>1, Invariance, PTL

-----------------------------------------------------------------------------
(* The verifier and its store (ReplayStore). *)

USE SeqsAssumption, MaxEntriesAssumption, NoSessionAssumption

(***************************************************************************)
(* What NoReplay needs to be inductive: the file is the table, accepted    *)
(* messages belong to sessions already drawn, and every accepted message   *)
(* of the session in progress is covered by a mark.                        *)
(***************************************************************************)
DiskIsTable == disk = SeqstoreLines(entries)

AcceptedUsed == \A m \in Headers : accepts[m] > 0 => m.sid \in used

Covers(e, m) == e.sid = m.sid /\ e.nid = m.nid /\ m.seq <= e.last_seq

Covered ==
  \A m \in Headers :
    m.sid = cur /\ accepts[m] > 0 => \E i \in DOMAIN entries : Covers(entries[i], m)

StoreInv == StoreTypeOK /\ DiskIsTable /\ AcceptedUsed /\ Covered /\ NoReplay

\* Writing a table and loading it again keeps every mark (not the ticks).
LEMMA LoadLines ==
  ASSUME NEW f \in Seq(Line)
  PROVE  /\ SeqstoreLoad(f) \in Seq(Entry)
         /\ Len(SeqstoreLoad(f)) = Len(f)
         /\ SeqstoreLines(SeqstoreLoad(f)) = f
<1> DEFINE es == SeqstoreLoad(f)
<1>1. Len(f) \in Nat /\ \A i \in 1 .. Len(f) : f[i] \in Line
  BY LenProperties, ElementOfSeq
<1>2. es \in [1 .. Len(f) -> Entry]
  BY <1>1 DEF SeqstoreLoad, Line, Entry
<1>3. es \in Seq(Entry)
  BY <1>1, <1>2, SeqDef
<1>4. Len(es) = Len(f)
  BY <1>1, <1>2, <1>3, LenProperties
<1>5. ASSUME NEW i \in 1 .. Len(f)
      PROVE  [sid |-> es[i].sid, nid |-> es[i].nid, last_seq |-> es[i].last_seq] = f[i]
  BY <1>1 DEF SeqstoreLoad, Line
<1>6. SeqstoreLines(es) = [i \in 1 .. Len(f) |-> f[i]]
  BY <1>4, <1>5 DEF SeqstoreLines
<1> QED
  BY <1>3, <1>4, <1>6, LenProperties

LEMMA LinesType ==
  ASSUME NEW es \in Seq(Entry)
  PROVE  /\ SeqstoreLines(es) \in Seq(Line)
         /\ Len(SeqstoreLines(es)) = Len(es)
<1>1. Len(es) \in Nat /\ \A i \in 1 .. Len(es) : es[i] \in Entry
  BY LenProperties, ElementOfSeq
<1>2. SeqstoreLines(es) \in [1 .. Len(es) -> Line]
  BY <1>1 DEF SeqstoreLines, Line, Entry
<1>3. SeqstoreLines(es) \in Seq(Line)
  BY <1>1, <1>2, SeqDef
<1> QED
  BY <1>1, <1>2, <1>3, LenProperties

\* Where a mark may go: inside the table, or one past its end if there is room;
\* never over a mark of the same session that belongs to another node.
LEMMA SlotRange ==
  ASSUME StoreTypeOK, NEW m \in Headers, NEW i \in Slot(m)
  PROVE  /\ i \in 1 .. Len(entries) + 1
         /\ i = Len(entries) + 1 => Len(entries) < MaxEntries
         /\ i # Len(entries) + 1 =>
              entries[i].sid # m.sid \/ (entries[i].sid = m.sid /\ entries[i].nid = m.nid)
BY DEF StoreTypeOK, Slot, Known, Victims

LEMMA PlacedType ==
  ASSUME StoreTypeOK, NEW m \in Headers, NEW i \in Slot(m)
  PROVE  /\ Placed(m, i) \in Seq(Entry)
         /\ Len(Placed(m, i)) <= MaxEntries
         /\ i \in 1 .. Len(Placed(m, i)) /\ Placed(m, i)[i] = Mark(m)
         /\ \A j \in 1 .. Len(entries) :
              j \in 1 .. Len(Placed(m, i)) /\ (j # i => Placed(m, i)[j] = entries[j])
<1>1. Mark(m) \in Entry
  BY DEF StoreTypeOK, Mark, Entry, Headers
<1> QED
  BY <1>1, SlotRange DEF Placed, StoreTypeOK

\* A failed save leaves the table as it was.
LEMMA RollbackRestores ==
  ASSUME StoreTypeOK, NEW m \in Headers, NEW i \in Slot(m)
  PROVE  RolledBack(m, i) = entries
<1>1. Mark(m) \in Entry
  BY DEF StoreTypeOK, Mark, Entry, Headers
<1>2. CASE i = Len(entries) + 1
  <2>1. entries \in Seq(Entry) /\ Len(entries) \in Nat
    BY LenProperties DEF StoreTypeOK
  <2>2. RolledBack(m, i) = SubSeq(Append(entries, Mark(m)), 1, Len(entries))
    BY <1>2 DEF RolledBack, Placed
  <2> QED
    BY <1>1, <2>1, <2>2
<1>3. CASE i # Len(entries) + 1
  <2>1. entries \in [1 .. Len(entries) -> Entry]
    BY LenProperties DEF StoreTypeOK
  <2>2. RolledBack(m, i) = [[entries EXCEPT ![i] = Mark(m)] EXCEPT ![i] = entries[i]]
    BY <1>3 DEF RolledBack, Placed
  <2> QED
    BY <2>1, <2>2
<1> QED
  BY <1>2, <1>3

(***************************************************************************)
(* The inductive step, one action at a time.                               *)
(***************************************************************************)
LEMMA StoreInitInv == StoreInit => StoreInv
BY DEF StoreInit, StoreInv, StoreTypeOK, DiskIsTable, AcceptedUsed, Covered, NoReplay,
       SeqstoreLines, Headers, Replies

LEMMA StartSessionInv ==
  ASSUME StoreInv, NEW s \in Sessions, StartSession(s)
  PROVE  StoreInv'
BY DEF StartSession, StoreInv, StoreTypeOK, DiskIsTable, AcceptedUsed, Covered, NoReplay, Headers

LEMMA RefuseInv ==
  ASSUME StoreInv, NEW m \in Headers, NEW fresh \in BOOLEAN, Refuse(m, fresh)
  PROVE  StoreInv'
BY DEF Refuse, StoreInv, StoreTypeOK, DiskIsTable, AcceptedUsed, Covered, NoReplay, Replies

LEMMA AcceptInv ==
  ASSUME StoreInv, NEW m \in Headers, NEW fresh \in BOOLEAN, Accept(m, fresh)
  PROVE  StoreInv'
<1> PICK i \in Slot(m) : entries' = Placed(m, i)
  BY DEF Accept
<1> USE DEF StoreInv
<1>1. StoreTypeOK'
  <2>1. entries' \in Seq(Entry) /\ Len(entries') <= MaxEntries
    BY PlacedType
  <2>2. disk' \in Seq(Line) /\ Len(disk') <= MaxEntries
    BY <2>1, LinesType DEF Accept
  <2> QED
    BY <2>1, <2>2 DEF Accept, StoreTypeOK, Replies
<1>2. DiskIsTable'
  BY DEF Accept, DiskIsTable, SeqstoreLines
<1>3. m.sid = cur /\ cur \in used /\ ~ IsReplay(m)
  BY DEF Accept, Admits, ReachesStore, StoreTypeOK
<1>4. AcceptedUsed'
  BY <1>3 DEF Accept, AcceptedUsed, StoreTypeOK
<1>5. accepts[m] = 0
  BY <1>3 DEF Covered, Covers, IsReplay, Known, StoreTypeOK
<1>6. NoReplay'
  BY <1>5 DEF NoReplay, Accept, StoreTypeOK
<1>7. Covered'
  <2> SUFFICES ASSUME NEW w \in Headers, w.sid = cur, accepts'[w] > 0
               PROVE  \E k \in DOMAIN entries' : Covers(entries'[k], w)
    BY DEF Covered, Accept
  <2>1. CASE w = m
    <3>1. i \in DOMAIN entries' /\ entries'[i] = Mark(m)
      BY PlacedType
    <3>2. m.seq \in Nat
      BY Zenon DEF Headers
    <3> QED
      BY <2>1, <3>1, <3>2 DEF Covers, Mark
  <2>2. CASE w # m
    <3>1. PICK j \in DOMAIN entries : Covers(entries[j], w)
      BY <2>2 DEF Covered, Accept, StoreTypeOK
    <3>2. j \in 1 .. Len(entries)
      BY DEF StoreTypeOK
    <3>3. CASE j # i
      BY <3>1, <3>2, <3>3, PlacedType DEF Covers
    <3>4. CASE j = i
      <4>1. entries[j].sid = m.sid /\ entries[j].nid = m.nid
        <5>1. entries[j].sid = m.sid
          BY <3>1, <1>3 DEF Covers
        <5>2. j # Len(entries) + 1
          BY <3>2, LenProperties DEF StoreTypeOK
        <5> QED
          BY <5>1, <5>2, <3>4, SlotRange
      <4>2. entries[j].last_seq < m.seq
        <5>1. entries[j] \in Entry
          BY <3>2, ElementOfSeq DEF StoreTypeOK
        <5>2. entries[j].last_seq \in Nat /\ m.seq \in Nat
          BY Zenon, <5>1 DEF Entry, Headers
        <5>3. j \in Known(m)
          BY <4>1 DEF Known
        <5> QED
          BY <1>3, <5>2, <5>3 DEF IsReplay
      <4>3. entries'[j] = Mark(m) /\ j \in DOMAIN entries'
        BY <3>4, PlacedType
      <4> QED
        <5>1. entries[j] \in Entry
          BY <3>2, ElementOfSeq DEF StoreTypeOK
        <5>2. entries[j].last_seq \in Nat /\ m.seq \in Nat /\ w.seq \in Nat
          BY Zenon, <5>1 DEF Entry, Headers
        <5>3. Mark(m).sid = m.sid /\ Mark(m).nid = m.nid /\ Mark(m).last_seq = m.seq
          BY Zenon DEF Mark
        <5>4. w.sid = m.sid /\ w.nid = m.nid /\ w.seq <= entries[j].last_seq
          BY <3>1, <4>1, Zenon DEF Covers
        <5>5. w.seq <= m.seq
          BY <4>2, <5>2, <5>4, SMTT(60)
        <5>6. Covers(Mark(m), w)
          BY <5>3, <5>4, <5>5, Zenon DEF Covers
        <5> QED
          BY <4>3, <5>6, Zenon
    <3> QED
      BY <3>3, <3>4
  <2> QED
    BY <2>1, <2>2
<1> QED
  BY <1>1, <1>2, <1>4, <1>6, <1>7

LEMMA SaveFailsInv ==
  ASSUME StoreInv, NEW m \in Headers, NEW fresh \in BOOLEAN, SaveFails(m, fresh)
  PROVE  StoreInv'
<1>1. entries' = entries
  BY RollbackRestores DEF SaveFails, StoreInv
<1> QED
  BY <1>1 DEF SaveFails, StoreInv, StoreTypeOK, DiskIsTable, AcceptedUsed, Covered, NoReplay, Replies

\* Opening file f: what is proved once for the three ways to get there.
LEMMA ReopenInv ==
  ASSUME StoreInv, NEW f \in Seq(Line), Len(f) <= MaxEntries, Reopen(f),
         cur' = NoSession \/ (cur' = cur /\ f = disk), durable' = durable
  PROVE  StoreInv'
<1>1. /\ entries' \in Seq(Entry) /\ Len(entries') <= MaxEntries
      /\ SeqstoreLines(entries') = f
  BY LoadLines DEF Reopen
<1>2. StoreTypeOK' /\ DiskIsTable' /\ AcceptedUsed' /\ NoReplay'
  BY <1>1 DEF Reopen, StoreInv, StoreTypeOK, DiskIsTable, AcceptedUsed, NoReplay, Replies
<1>3. Covered'
  <2> SUFFICES ASSUME NEW w \in Headers, w.sid = cur', accepts[w] > 0
               PROVE  \E k \in DOMAIN entries' : Covers(entries'[k], w)
    BY DEF Covered, Reopen
  <2>1. cur' = cur /\ f = disk
    BY DEF Headers
  <2>2. PICK j \in DOMAIN entries : Covers(entries[j], w)
    BY <2>1 DEF Covered, StoreInv
  <2>3. j \in DOMAIN entries' /\ Covers(entries'[j], w)
    <3>1. j \in 1 .. Len(entries) /\ Len(disk) = Len(entries)
      BY LinesType, LenProperties DEF StoreInv, DiskIsTable, StoreTypeOK
    <3>2. /\ disk[j].sid = entries[j].sid /\ disk[j].nid = entries[j].nid
          /\ disk[j].last_seq = entries[j].last_seq
      BY <3>1 DEF StoreInv, DiskIsTable, SeqstoreLines
    <3>3. /\ entries'[j].sid = disk[j].sid /\ entries'[j].nid = disk[j].nid
          /\ entries'[j].last_seq = disk[j].last_seq /\ j \in DOMAIN entries'
      BY <2>1, <3>1 DEF Reopen, SeqstoreLoad
    <3> QED
      BY <2>2, <3>2, <3>3 DEF Covers
  <2> QED
    BY <2>3
<1> QED
  BY <1>2, <1>3 DEF StoreInv

LEMMA CrashInv ==
  ASSUME StoreInv, NEW m \in Headers, NEW fresh \in BOOLEAN, CrashAfterRename(m, fresh)
  PROVE  StoreInv'
<1> PICK i \in Slot(m) : Reopen(SeqstoreLines(Placed(m, i)))
  BY DEF CrashAfterRename
<1>1. /\ SeqstoreLines(Placed(m, i)) \in Seq(Line)
      /\ Len(SeqstoreLines(Placed(m, i))) <= MaxEntries
  BY PlacedType, LinesType DEF StoreInv
<1> QED
  BY <1>1, ReopenInv DEF CrashAfterRename

LEMMA StoreStepInv == StoreInv /\ [StoreNext]_storeVars => StoreInv'
<1> SUFFICES ASSUME StoreInv, [StoreNext]_storeVars PROVE StoreInv'
  OBVIOUS
<1>1. CASE UNCHANGED storeVars
  BY <1>1 DEF storeVars, StoreInv, StoreTypeOK, DiskIsTable, AcceptedUsed, Covered, NoReplay
<1>2. CASE StoreRestart
  BY <1>2, ReopenInv DEF StoreRestart, StoreInv, StoreTypeOK
<1>3. CASE PowerLoss
  BY <1>3, ReopenInv DEF PowerLoss, StoreInv, StoreTypeOK
<1> QED
  BY <1>1, <1>2, <1>3, StartSessionInv, RefuseInv, AcceptInv, SaveFailsInv,
     CrashInv DEF StoreNext

(***************************************************************************)
(* Type correctness of the verifier and its store.                         *)
(***************************************************************************)
THEOREM StoreTypeCorrect == StoreSpec => []StoreTypeOK
<1>1. StoreInv => StoreTypeOK
  BY DEF StoreInv
<1> QED
  BY StoreInitInv, StoreStepInv, <1>1, PTL DEF StoreSpec

(***************************************************************************)
(* virp_verify_observation_v2 accepts no message twice, whatever the       *)
(* network duplicates, the table evicts, or a crash loses.                 *)
(***************************************************************************)
THEOREM ReplaySafety == StoreSpec => []NoReplay
<1>1. StoreInv => NoReplay
  BY DEF StoreInv
<1> QED
  BY StoreInitInv, StoreStepInv, <1>1, PTL DEF StoreSpec

(***************************************************************************)
(* "On any non-OK return the store is unchanged."                          *)
(***************************************************************************)
THEOREM ErrorLeavesStore == StoreSpec => UnchangedOnError
<1>1. StoreInv /\ [StoreNext]_storeVars =>
        [reply' \notin {"OK", "none"} => entries' = entries /\ disk' = disk]_storeVars
  <2> SUFFICES ASSUME StoreInv, StoreNext, reply' \notin {"OK", "none"}
               PROVE  entries' = entries /\ disk' = disk
    BY DEF storeVars
  <2>1. ASSUME NEW s \in Sessions, StartSession(s) PROVE entries' = entries /\ disk' = disk
    BY <2>1 DEF StartSession
  <2>2. ASSUME NEW m \in Headers, NEW fresh \in BOOLEAN,
               Refuse(m, fresh) \/ Accept(m, fresh) \/ SaveFails(m, fresh)
                 \/ CrashAfterRename(m, fresh)
        PROVE  entries' = entries /\ disk' = disk
    BY <2>2, RollbackRestores DEF Refuse, Accept, SaveFails, CrashAfterRename, Reopen, StoreInv
  <2> QED
    BY <2>1, <2>2 DEF StoreNext, StoreRestart, PowerLoss, Reopen
<1> QED
  BY StoreInitInv, StoreStepInv, <1>1, PTL DEF StoreSpec, UnchangedOnError
==============================================================================
