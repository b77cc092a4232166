--------------------------- MODULE MCReplayStore ---------------------------
(* Session and node ids are only compared for equality, so both are        *)
(* symmetric.                                                              *)
EXTENDS ReplayStore, TLC

Symmetry == Permutations(Sessions) \cup Permutations(Nodes)
============================================================================
