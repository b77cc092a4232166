--------------------------- MODULE MCTrustChain ---------------------------
(* Instances of TrustChain for TLC. *)
EXTENDS TrustChain
===========================================================================
