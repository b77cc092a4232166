------------------------------ MODULE Drivers ------------------------------
(***************************************************************************)
(* All device drivers behind the one contract of virp_driver.h, which the  *)
(* node relies on to sign, to retry and to report.                         *)
(***************************************************************************)
EXTENDS ExecDriver

Next ==
    \/ Connect /\ keepalive \in {"off", "gone"} /\ UNCHANGED <<keepalive, waiting>>
    \/ LoginNext /\ UNCHANGED <<keepalive, waiting>>
    \/ Disconnect
    \/ ShellNext
    \/ ExecNext

Spec == DriverInit /\ [][Next]_driverVars

-----------------------------------------------------------------------------
Returned == result.id > 0

(* no_dispatch, the node's only licence to run a command again, is set by no
   return path of any driver once a byte of the command has been written. *)
NotSentIsTrue == Returned /\ result.no_dispatch => result.id \notin sent

(* A call that reports success was run by the device, and its body is the
   device's answer to this call: not the tail of an earlier one, not a probe.
   Two things excuse it, and no other: a drain that ended with something still
   to come on this channel, and a buffer of Wazuh's nothing was written to. *)
SuccessIsOwn ==
    Returned /\ result.success =>
        \/ result.stale
        \/ /\ ran[result.id] # <<>>
           /\ \A i \in DOMAIN result.body :
                 result.body[i].id = result.id \/ result.body[i].what = "log"

(* No call makes the device run the same command twice, reconnects of the
   Cisco driver and the PAN-OS keepalive thread included. *)
RanAtMostOnce == \A c \in Calls : \A i, j \in DOMAIN ran[c] : i # j => ran[c][i][1] # ran[c][j][1]

(* junos_execute_single(), "Refuse commit without prior successful commit
   check": unless a drain had let it fall behind its device, the JunOS driver
   makes the device run a commit only if the device passed a commit check since
   its candidate was opened or rolled back on this connection, whatever reply
   was late or lost in between.  An edit after the check is not checked again. *)
CommitFollowsCheck == \A c \in Calls : \A i \in DOMAIN ran[c] : ran[c][i][1] = "commit" => ran[c][i][2]

(* Whatever fails in a connect(): no SSH driver has offered a password to a
   peer whose host key did not pass virp_ssh_verify_hostkey() on this very
   session, and a connect() that returns no connection has released whatever
   its stages acquired, on every failure path. *)
ConnectIsClean ==
    /\ login.shown => login.trusted
    /\ pc = "idle" /\ ~login.up => login.held = {}
=============================================================================
