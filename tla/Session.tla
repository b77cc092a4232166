------------------------------ MODULE Session ------------------------------
(***************************************************************************)
(* The one session of an O-Node (virp_session.c, virp_handshake.c,         *)
(* virp_transcript.c) and the signing of session-bound observations by     *)
(* concurrent workers (virp_onode.c).  Messages of the handshake may be    *)
(* late, repeated or sent by another client; a session ends by SESSION_    *)
(* CLOSE, by a timeout noticed at the next onode_session_lock(), or with   *)
(* the process.                                                            *)
(*                                                                         *)
(* Abstracted: session_id and both nonces are one fresh number; the        *)
(* transcript is the sequence of the messages that were serialized into    *)
(* it; time is whether the timeout of the current state has run out.       *)
(***************************************************************************)
EXTENDS Naturals, Sequences

CONSTANTS
    Clients,
    Workers,
    MaxHello,   \* bound on HELLO_ACKs
    MaxObs,     \* bound on signed observations
    MaxGen      \* bound on resets of one process

ASSUME BoundsAssumption == MaxHello \in Nat /\ MaxObs \in Nat /\ MaxGen \in Nat

VARIABLES
    session,    \* virp_session_t
    acks,       \* HELLO_ACKs sent: acks[session_id] = client_id
    pc, asked,  \* per worker: running request, its version and session
    observed    \* observations signed, in order

vars == <<session, acks, pc, asked, observed>>

NoKey == [transcript |-> <<>>, generation |-> 0]

Idle == [v |-> 0, generation |-> 0, session_id |-> 0]

(* virp_session_init(), and what virp_session_reset() leaves. *)
Blank(generation) ==
    [state |-> "DISCONNECTED", generation |-> generation, session_id |-> 0,
     client_id |-> 0, transcript |-> <<>>, session_key |-> NoKey, last_seq |-> 0,
     active |-> FALSE,      \* last_activity_ns > 0
     overdue |-> FALSE]     \* the timestamp of the state is too old

Init ==
    /\ session = Blank(0)
    /\ acks = <<>>
    /\ pc = [w \in Workers |-> "idle"]
    /\ asked = [w \in Workers |-> Idle]
    /\ observed = <<>>

-----------------------------------------------------------------------------
(* Fault: a reset keeps the transcript. *)
Reset_KeepsTranscript(s) ==
    [Blank(s.generation + 1) EXCEPT !.transcript = s.transcript]

Reset(s) == Blank(s.generation + 1)

(* virp_session_check_timeouts(): NEGOTIATED for 30 s, ACTIVE idle for     *)
(* 300 s, the latter only after a first observation.  The difference of    *)
(* the clocks is unsigned: a clock set back counts as overdue.             *)
Expired(s) ==
    /\ s.overdue
    /\ s.state = "NEGOTIATED" \/ (s.state = "ACTIVE" /\ s.active)

(* The session as every handler finds it after onode_session_lock(). *)
Locked == IF Expired(session) THEN Reset(session) ELSE session

Elapse ==
    /\ session.state \in {"NEGOTIATED", "ACTIVE"} /\ ~session.overdue
    /\ session' = [session EXCEPT !.overdue = TRUE]
    /\ UNCHANGED <<acks, pc, asked, observed>>

-----------------------------------------------------------------------------
(* Handshake *)

Busy(s) == s.state \in {"ACTIVE", "BOUND"}

(* virp_handle_hello() rejects; an expiry that was noticed stays. *)
HelloRefused ==
    /\ Busy(Locked)
    /\ session' = Locked
    /\ UNCHANGED <<acks, pc, asked, observed>>

(* No common version or algorithm, or no random bytes: the stale session   *)
(* has been reset before that is found out.                                *)
HelloFails ==
    /\ ~Busy(Locked) /\ Locked.generation < MaxGen
    /\ session' = Reset(Locked)
    /\ UNCHANGED <<acks, pc, asked, observed>>

(* Fault: session ids are numbered per process. *)
FreshId_Numbered == Locked.generation + 1

(* RAND_bytes() never repeats a session id, not even after a restart. *)
FreshId == Len(acks) + 1

Hello(c) ==
    LET id == FreshId IN
    /\ ~Busy(Locked) /\ Len(acks) < MaxHello /\ Locked.generation < MaxGen
    /\ acks' = Append(acks, c)
    /\ session' = [Reset(Locked) EXCEPT
           !.state = "NEGOTIATED", !.session_id = id, !.client_id = c,
           !.transcript = @ \o <<[msg |-> "HELLO", client_id |-> c, session_id |-> 0],
                                 [msg |-> "HELLO_ACK", client_id |-> c, session_id |-> id]>>]
    /\ UNCHANGED <<pc, asked, observed>>

BindMatches(s, c, id) ==
    s.state = "NEGOTIATED" /\ id = s.session_id /\ c = s.client_id

Bound(s, c, id) ==
    [s EXCEPT !.state = "BOUND", !.overdue = FALSE,
              !.transcript = Append(@, [msg |-> "BIND", client_id |-> c, session_id |-> id])]

BindRefused(c, id) ==
    /\ id \in DOMAIN acks /\ ~BindMatches(Locked, c, id)
    /\ session' = Locked
    /\ UNCHANGED <<acks, pc, asked, observed>>

(* virp_handle_session_bind() and virp_session_derive_key() under one lock. *)
Bind(c, id) ==
    LET b == Bound(Locked, c, id) IN
    /\ id \in DOMAIN acks /\ BindMatches(Locked, c, id)
    /\ session' = [b EXCEPT !.state = "ACTIVE",
           !.session_key = [transcript |-> b.transcript, generation |-> b.generation]]
    /\ UNCHANGED <<acks, pc, asked, observed>>

(* HKDF fails: the session stays BOUND without a key. *)
BindDeriveFails(c, id) ==
    /\ id \in DOMAIN acks /\ BindMatches(Locked, c, id)
    /\ session' = Bound(Locked, c, id)
    /\ UNCHANGED <<acks, pc, asked, observed>>

Close ==
    /\ Locked.generation < MaxGen
    /\ session' = Reset(Locked)
    /\ UNCHANGED <<acks, pc, asked, observed>>

-----------------------------------------------------------------------------
(* Requests *)

Usable(s) == s.state = "ACTIVE" /\ s.session_key # NoKey

(* onode_execute_policy_impl() and onode_execute_legacy() before the device. *)
Begin(w, v) ==
    /\ pc[w] = "idle"
    /\ session' = Locked
    /\ IF Usable(Locked)
         THEN /\ pc' = [pc EXCEPT ![w] = "running"]
              /\ asked' = [asked EXCEPT ![w] =
                     [v |-> v, generation |-> Locked.generation,
                      session_id |-> Locked.session_id]]
         ELSE UNCHANGED <<pc, asked>>
    /\ UNCHANGED <<acks, observed>>

(* Fault: v3 signing asks only whether a session is active. *)
SameSession_ActiveOnly(w) == TRUE

(* Only v3 remembers the session the request was admitted in. *)
SameSession(w) ==
    asked[w].v = 3 => /\ asked[w].generation = Locked.generation
                      /\ asked[w].session_id = Locked.session_id

Done(w) ==
    /\ pc' = [pc EXCEPT ![w] = "idle"]
    /\ asked' = [asked EXCEPT ![w] = Idle]
    /\ UNCHANGED acks

Signing(s) == [s EXCEPT !.last_seq = @ + 1, !.active = TRUE, !.overdue = FALSE]

(* ++last_seq and the build, which stamps last_activity_ns. *)
SignSucceeds(w) ==
    /\ pc[w] = "running" /\ Len(observed) < MaxObs
    /\ Usable(Locked) /\ SameSession(w)
    /\ session' = Signing(Locked)
    /\ observed' = Append(observed,
           [v |-> asked[w].v, session_id |-> Locked.session_id, seq |-> Locked.last_seq + 1,
            key |-> Locked.session_key, asked |-> asked[w].session_id])
    /\ Done(w)

(* The device fails, the session is gone or another one, or the build fails *)
(* after the number was taken.                                              *)
SignFails(w) ==
    /\ pc[w] = "running"
    /\ \/ session' \in {session, Locked}
       \/ /\ Usable(Locked) /\ SameSession(w) /\ Locked.last_seq < MaxObs
          /\ session' \in {[Locked EXCEPT !.last_seq = @ + 1], Signing(Locked)}
    /\ Done(w)
    /\ UNCHANGED observed

(* Session state is in memory only. *)
Restart ==
    /\ session' = Blank(0)
    /\ pc' = [w \in Workers |-> "idle"]
    /\ asked' = [w \in Workers |-> Idle]
    /\ UNCHANGED <<acks, observed>>

Next ==
    \/ Elapse \/ HelloRefused \/ HelloFails \/ Close \/ Restart
    \/ \E c \in Clients : Hello(c)
    \/ \E c \in Clients, id \in 1..MaxHello :
         BindRefused(c, id) \/ Bind(c, id) \/ BindDeriveFails(c, id)
    \/ \E w \in Workers :
         (\E v \in {2, 3} : Begin(w, v)) \/ SignSucceeds(w) \/ SignFails(w)

Spec == Init /\ [][Next]_vars

-----------------------------------------------------------------------------
(* Properties *)

Messages == [msg : {"HELLO", "HELLO_ACK", "BIND"}, client_id : Clients, session_id : Nat]

SessionKeys == [transcript : Seq(Messages), generation : Nat]

(* The one type invariant of the module. *)
TypeOK ==
    /\ session \in [state : {"DISCONNECTED", "NEGOTIATED", "BOUND", "ACTIVE"},
                    generation : Nat, session_id : Nat, client_id : Clients \cup {0},
                    transcript : Seq(Messages), session_key : SessionKeys,
                    last_seq : Nat, active : BOOLEAN, overdue : BOOLEAN]
    /\ session.session_key # NoKey <=> session.state = "ACTIVE"
    /\ acks \in Seq(Clients)
    /\ pc \in [Workers -> {"idle", "running"}]
    /\ asked \in [Workers -> [v : {0, 2, 3}, generation : Nat, session_id : Nat]]
    /\ observed \in Seq([v : {2, 3}, session_id : Nat, seq : Nat, key : SessionKeys,
                         asked : Nat])

(* What the two ends of session id have said to each other. *)
Handshake(id) ==
    <<[msg |-> "HELLO", client_id |-> acks[id], session_id |-> 0],
      [msg |-> "HELLO_ACK", client_id |-> acks[id], session_id |-> id],
      [msg |-> "BIND", client_id |-> acks[id], session_id |-> id]>>

(* session.last_seq under session_mutex: within a session the numbers of   *)
(* signed observations only grow, whatever workers, resets and restarts    *)
(* interleave.  The verifier's replay store relies on it.                  *)
SeqGrows ==
    \A i, j \in DOMAIN observed :
        i < j /\ observed[i].session_id = observed[j].session_id
            => observed[i].seq < observed[j].seq

(* The key that signs an observation is derived from the complete          *)
(* handshake of the session the observation names, and from no other       *)
(* message; a late or repeated BIND never brings an older session back.    *)
KeyBindsHandshake ==
    /\ \A i \in DOMAIN observed :
         /\ observed[i].session_id \in DOMAIN acks
         /\ observed[i].key.transcript = Handshake(observed[i].session_id)
    /\ session.state = "ACTIVE" =>
         /\ session.session_id = Len(acks)
         /\ session.session_key.transcript = Handshake(Len(acks))

(* v3: the observation belongs to the session the request was admitted in. *)
V3SameSession ==
    \A i \in DOMAIN observed : observed[i].v = 3 => observed[i].asked = observed[i].session_id

(* virp_onode.c:3554: "If the session died while the command ran, fail".   *)
(* Not so of v2, which takes whatever session is active when it signs.     *)
FailsIfSessionDied ==
    \A i \in DOMAIN observed : observed[i].asked = observed[i].session_id
============================================================================
