---------------------------- MODULE ChainLog ----------------------------
(***************************************************************************)
(* What the trust chain promises its callers: one append-only log of       *)
(* artifacts per session.  An append is all or nothing, and what was       *)
(* appended never changes.  It stays, except that a loss of power takes    *)
(* all sessions back together to one earlier moment.                       *)
(***************************************************************************)
EXTENDS Naturals, Sequences

CONSTANT Sessions

VARIABLES
    log,    \* what readers see
    kept    \* what a loss of power would leave

Init ==
    /\ log = [s \in Sessions |-> <<>>]
    /\ kept = [s \in Sessions |-> <<>>]

(* One artifact is added at the end of one session's log. *)
Extends(s) ==
    /\ Len(log'[s]) = Len(log[s]) + 1
    /\ SubSeq(log'[s], 1, Len(log[s])) = log[s]
    /\ \A t \in Sessions \ {s} : log'[t] = log[t]
    /\ UNCHANGED kept

Keeps == kept' = log /\ UNCHANGED log

FallsBack == log' = kept /\ UNCHANGED kept

Next == Keeps \/ FallsBack \/ \E s \in Sessions : Extends(s)

Spec == Init /\ [][Next]_<<log, kept>>
=========================================================================
