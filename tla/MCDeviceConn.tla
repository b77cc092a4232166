--------------------------- MODULE MCDeviceConn ---------------------------
(* Instances of DeviceConn for TLC. *)
EXTENDS DeviceConn
===========================================================================
