--------------------------- MODULE MCGateApply ---------------------------
(* Instances of GateApply for TLC: approvals for one of the devices, so    *)
(* that they can also be presented for the wrong one.  The record of a2    *)
(* names no chain entry.                                                   *)
EXTENDS GateApply, TLC

CONSTANTS r1, r2, d1, d2, a1, a2

MCApprovalDevice == (a1 :> d1) @@ (a2 :> d1)
==========================================================================
