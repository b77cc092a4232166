---------------------------- MODULE ShellDriver ----------------------------
(***************************************************************************)
(* The drivers that keep one interactive shell per device: Cisco IOS       *)
(* (driver_cisco.c), ASA (driver_asa.c), JunOS (driver_juniper.c) and      *)
(* PAN-OS (driver_panos.c).  Calls of one connection are serialised by the *)
(* node's exec_mutex; the PAN-OS keepalive thread is the only second user  *)
(* of a channel and takes session_mutex.  call.then names the place that   *)
(* handles the outcome of a send-and-read or of learning the prompt.       *)
(***************************************************************************)
EXTENDS SshConnect

CONSTANT RebootPolicy   \* does the owner policy permit the reboot command

VARIABLES
    keepalive,          \* the PAN-OS thread: off, warm, sleep, locked or gone
    waiting             \* a PAN-OS call that waits for session_mutex

driverVars == <<kind, ch, dev, conn, pc, call, result, sent, ran, conns, logs,
                login, known, keepalive, waiting>>
threads == <<keepalive, waiting, login, known>>
counters == <<kind, conns, logs>>

ShellKinds == {"ios", "asa", "junos", "panos"}

Parked == conn.mode \in {"config", "sub"}

(* A health check is execute() of a read; Cisco's knows about the mode. *)
HealthProbe == IF Parked THEN "do show" ELSE "show"

Commands ==
    CASE kind = "ios" -> {"show", "configure", "port", "reload", "end", HealthProbe}
      [] kind = "asa" -> {"show", "showrun", "configure", "reload"}
      [] kind = "junos" -> {"show", "configure", "set", "check", "commit", "rollback", "exit", "reload"}
      [] kind = "panos" -> {"show", "reload"}
      [] OTHER -> {}

Black(cmd) == cmd = "reload"

DriverInit ==
    /\ kind \in Kinds
    /\ ch = NoChannel /\ conn = NoConn
    /\ dev = [mode |-> "exec", stalled |-> FALSE, passed |-> FALSE]
    /\ pc = "idle" /\ call = NoCall
    /\ result = [id |-> 0, success |-> FALSE, no_dispatch |-> FALSE]
    /\ sent = {} /\ ran = [c \in Calls |-> <<>>]
    /\ conns = 0 /\ logs = 0
    /\ login = NoLogin /\ known = {}
    /\ keepalive = "off" /\ waiting = None

-----------------------------------------------------------------------------
(* Results: success, no_dispatch, disposition and output_truncated of
   virp_exec_result_t, with the error code the call returned, whether the body
   is all that the device sent, and whether it may hold what an earlier call
   left: on a channel that is behind, or in a buffer nothing was written to. *)

Outcome(success, no_dispatch, disposition, err, stored) ==
    [id |-> call'.id, cmd |-> call'.cmd, body |-> IF stored = "withheld" THEN <<>> ELSE call'.body,
     success |-> success, no_dispatch |-> no_dispatch, disposition |-> disposition, err |-> err,
     truncated |-> stored = "truncated", whole |-> stored = "whole",
     stale |-> ch.behind \/ stored = "unset"]

Result(success, no_dispatch, disposition, err) ==
    Outcome(success, no_dispatch, disposition, err, "whole")

Refused(disposition) == Result(FALSE, TRUE, disposition, "ok")

(* store_output(): a body too long for the result is cut and says so; a
   configuration, which has been scrubbed, is withheld instead. *)
Cuts == {"whole"} \cup (IF call.cmd = "show" THEN {"truncated"} ELSE {})
Stores == Cuts \cup (IF call.cmd = "showrun" THEN {"withheld"} ELSE {})

Withheld == Outcome(FALSE, FALSE, "UNSET", "toolarge", "withheld")

(* Every execute() begins by clearing the result it was handed. *)
Clears == result' = [id |-> result.id, success |-> FALSE, no_dispatch |-> FALSE]

(* The call returns; a PAN-OS call gives session_mutex back. *)
Return(r) == result' = r /\ At("idle")

(* Mark the connection down and return. *)
GivesUp(r) == Return(r) /\ conn' = [conn EXCEPT !.connected = FALSE]

(* Begin to send a line, or to learn, and come back at then. *)
Sends(line, then) == call' = [call EXCEPT !.line = line, !.then = then] /\ At("send")
Learns(then) == call' = [call EXCEPT !.then = then] /\ At("learn")

Has(what) == \E i \in DOMAIN call.body : call.body[i].what = what

(* What the learned prompt says of the mode. *)
CiscoParseMode(prompt) == IF prompt \in Modes THEN prompt ELSE "unknown"
AsaParseMode(prompt) == IF prompt \in Modes THEN prompt ELSE "unknown"
JunosParseMode(prompt) == IF prompt \in {"exec", "config"} THEN prompt ELSE "unknown"
Mode ==
    CASE kind = "asa" -> AsaParseMode(conn.prompt)
      [] kind = "junos" -> JunosParseMode(conn.prompt)
      [] OTHER -> CiscoParseMode(conn.prompt)
Settled == [conn EXCEPT !.mode = Mode]
Same == UNCHANGED <<ch, dev, sent, ran, counters, threads>>

(* A call of execute() begins with a command and a number. *)
Begins(cmd) ==
    /\ pc = "idle" /\ login.up
    /\ result.id < MaxCalls /\ (kind \in Brief => result.id + 1 < MaxCalls)
    /\ \E id \in Calls : id = result.id + 1 /\ call' = [NoCall EXCEPT !.id = id, !.cmd = cmd]

-----------------------------------------------------------------------------
(* Connecting: a fresh shell, on which the device greets with its prompt.
   What the driver writes before it learns the prompt is read away. *)

CiscoSetup == {<<"pager">>, <<"pager", "enable", "pager">>}
JunosSetup == {<<"pager">>}
Setup == CASE kind = "ios" -> CiscoSetup [] kind = "junos" -> JunosSetup [] OTHER -> {<<>>}

Greeted ==
    /\ pc = "greeted" /\ kind \in ShellKinds
    /\ \E mode \in IF kind \in {"ios", "asa"} THEN {"user", "exec"} ELSE {"exec"}, words \in Setup :
          /\ ch' = [up |-> TRUE, line |-> [i \in DOMAIN words |-> Line(0, words[i])],
                    out |-> <<Item(0, mode)>>, behind |-> FALSE, late |-> 0]
          /\ dev' = [mode |-> mode, stalled |-> FALSE, passed |-> FALSE]
    /\ login' = [NoLogin EXCEPT !.up = TRUE, !.held = login.held]
    /\ IF kind = "panos"             \* its thread learns the prompt
       THEN /\ conn' = [NoConn EXCEPT !.connected = TRUE]
            /\ keepalive' = "warm" /\ At("idle")
            /\ UNCHANGED call
       ELSE /\ conn' = NoConn
            /\ call' = [call EXCEPT !.then = IF call.again THEN "ios.again" ELSE "up"] /\ At("learn")
            /\ UNCHANGED keepalive
    /\ UNCHANGED <<kind, result, sent, ran, conns, logs, known, waiting>>

(* The connection fails and everything is released. *)
NotConnected ==
    /\ conn' = NoConn /\ ch' = NoChannel /\ call' = NoCall /\ At("idle")
    /\ login' = [login EXCEPT !.up = FALSE, !.key = None, !.held = @ \ (Base \cup {"channel"})]

(* The prompt was learned or the connection fails; ASA goes on to enable, if
   it has the password, or sets the pager and learns again. *)
Connected ==
    /\ pc \in {"up", "up.again"}
    /\ \/ call.rerr # "ok" /\ NotConnected
       \/ /\ call.rerr = "ok" /\ kind = "asa" /\ pc = "up" /\ Mode \in {"user", "exec", "config"}
          /\ conn' = Settled
          /\ \/ Mode = "user" /\ ch' = Writes(ch, 0, "enable") /\ Learns("enabled")
             \/ Mode # "user" /\ ch' = Writes(ch, 0, "pager") /\ Learns("up.again")
          /\ UNCHANGED login
       \/ /\ call.rerr = "ok" /\ ~(kind = "asa" /\ pc = "up" /\ Mode \in {"exec", "config"})
          /\ conn' = [Settled EXCEPT !.connected = TRUE]
          /\ call' = NoCall /\ At("idle")
          /\ UNCHANGED <<ch, login>>
    /\ UNCHANGED <<dev, result, sent, ran, counters, keepalive, waiting, known>>

(* asa_enter_enable() at connect time: a failure is only logged. *)
Enabled_ ==
    /\ pc = "enabled"
    /\ conn' = [(IF call.rerr = "ok" THEN Settled ELSE conn) EXCEPT !.connected = TRUE]
    /\ call' = NoCall /\ At("idle")
    /\ UNCHANGED result /\ Same

(* disconnect(): leave configuration mode and the shell, release everything;
   PAN-OS first stops its thread and waits for it. *)
Disconnect ==
    /\ pc = "idle" /\ login.up /\ waiting = None /\ keepalive # "locked"
    /\ conn' = NoConn /\ ch' = NoChannel /\ login' = NoLogin
    /\ keepalive' = IF keepalive = "off" THEN "off" ELSE "gone"
    /\ UNCHANGED <<kind, dev, pc, call, result, sent, ran, conns, logs, known, waiting>>

-----------------------------------------------------------------------------
(* Cisco IOS *)

ModeChanging == Parked \/ call.cmd \in {"configure", "end"}

(* cisco_execute() up to its first byte. *)
CiscoExecute(cmd) ==
    /\ kind = "ios" /\ Begins(cmd)
    /\ UNCHANGED conn /\ Same
    /\ IF Black(cmd) /\ ~RebootPolicy THEN Return(Refused("NOT_SENT"))
       ELSE IF ~conn.connected THEN Return(Refused("UNSET"))
       ELSE At("ios.start") /\ Clears

CiscoStart ==
    /\ pc = "ios.start"
    /\ IF call.cmd = "port"
       THEN IF conn.mode # "exec"
            THEN UNCHANGED call /\ Return(Refused("NOT_SENT"))
            ELSE /\ call' = [call EXCEPT !.step = 1, !.line = "configure", !.then = "ios.step"]
                 /\ At("send") /\ UNCHANGED result
       ELSE Sends(call.cmd, "ios.ran") /\ UNCHANGED result
    /\ UNCHANGED conn /\ Same

(* Fault: a prompt that did not come is retried like a closed channel. *)
CiscoReconnect_AfterNoPrompt ==
    /\ pc = "ios.ran" /\ call.rerr \in {"closed", "noprompt"} /\ ~call.again /\ ~Parked
    /\ conns < MaxConns
    /\ conns' = conns + 1
    /\ ch' = NoChannel /\ conn' = NoConn
    /\ login' = [NoLogin EXCEPT !.step = 1, !.up = TRUE, !.held = {"outer"}]
    /\ call' = [call EXCEPT !.again = TRUE, !.rerr = "closed"] /\ At("login")
    /\ UNCHANGED <<kind, dev, result, sent, ran, logs, keepalive, waiting, known>>

(* cisco_reconnect_in_place(): one new session for a line that was never
   written, unless it was meant for configuration mode. *)
CiscoReconnect ==
    /\ pc = "ios.ran" /\ call.rerr = "closed" /\ ~call.again /\ ~Parked
    /\ conns < MaxConns
    /\ conns' = conns + 1
    /\ ch' = NoChannel /\ conn' = NoConn
    /\ login' = [NoLogin EXCEPT !.step = 1, !.up = TRUE, !.held = {"outer"}]
    /\ call' = [call EXCEPT !.again = TRUE, !.rerr = "closed"] /\ At("login")
    /\ UNCHANGED <<kind, dev, result, sent, ran, logs, keepalive, waiting, known>>

(* ... and the line is sent once more on it, or the call fails. *)
CiscoAgain ==
    /\ pc = "ios.again"
    /\ IF call.rerr = "ok"
       THEN /\ conn' = [Settled EXCEPT !.connected = TRUE]
            /\ login' = [login EXCEPT !.held = @ \ {"outer"}]
            /\ Sends(call.cmd, "ios.ran") /\ UNCHANGED <<ch, result>>
       ELSE /\ UNCHANGED call /\ GivesUp(Result(FALSE, FALSE, "UNSET", "closed"))
            /\ ch' = NoChannel
            /\ login' = [login EXCEPT !.held = {"outer"}]
    /\ UNCHANGED <<dev, sent, ran, counters, keepalive, waiting, known>>

(* The permitted reboot asked for a confirmation: it is answered and the
   session is over. *)
CiscoConfirm ==
    /\ pc = "ios.ran" /\ call.rerr = "noprompt" /\ Black(call.cmd) /\ Has("confirm")
    /\ Sends("y", "ios.rebooted")
    /\ UNCHANGED <<conn, result>> /\ Same

CiscoRebooted ==
    /\ pc = "ios.rebooted" /\ UNCHANGED call
    /\ GivesUp(Result(FALSE, FALSE, "UNSET", "ok"))
    /\ Same

Confirms == Black(call.cmd) /\ Has("confirm")

(* The old prompt is gone because the mode changed: learn the new one. *)
CiscoModeChanged ==
    /\ pc = "ios.ran" /\ call.rerr = "noprompt" /\ ~Confirms /\ ModeChanging
    /\ Learns("ios.moved")
    /\ UNCHANGED <<conn, result>> /\ Same

(* What cisco_execute() makes of the outcome. *)
CiscoOutcome(rerr, c) ==
    IF rerr = "ok"
    THEN LET success == ~Has("err") /\ (call.cmd = "configure" => c.mode = "config") IN
         /\ \E stored \in Stores :
               Return(IF stored = "withheld" THEN Withheld
                      ELSE Outcome(success, FALSE, IF success THEN "CONFIRMED" ELSE "FAILED", "ok", stored))
         /\ conn' = c
    ELSE GivesUp(IF rerr = "noprompt" THEN Result(FALSE, FALSE, "UNKNOWN", "ok")
                 ELSE Result(FALSE, FALSE, "UNSET", rerr))

CiscoRan ==
    /\ pc = "ios.ran"
    /\ ~(call.rerr = "closed" /\ ~call.again /\ ~Parked /\ conns < MaxConns)
    /\ ~(call.rerr = "noprompt" /\ (Confirms \/ ModeChanging))
    /\ UNCHANGED call /\ CiscoOutcome(call.rerr, conn)
    /\ Same

CiscoMoved ==
    /\ pc = "ios.moved" /\ UNCHANGED call
    /\ LET ok == call.rerr = "ok" /\ Mode # "unknown" IN
       CiscoOutcome(IF ok THEN "ok" ELSE "noprompt", IF ok THEN Settled ELSE conn)
    /\ Same

(* cisco_exec_interface_line(): configure, interface, one line, end.  Each
   line is settled by cisco_send_settle(), which learns a prompt that moved. *)
Steps == <<"configure", "interface", "shutdown", "end">>
StepMode == <<"config", "sub", "sub", "exec">>

CiscoStepMoved ==
    /\ pc = "ios.step" /\ call.rerr = "noprompt"
    /\ Learns("ios.settled")
    /\ UNCHANGED <<conn, result>> /\ Same

(* After the loop: down unless the driver believes itself in EXEC. *)
TransactionEnds(failed, c) ==
    /\ Return(Result(~failed, FALSE, IF failed THEN "UNSET" ELSE "CONFIRMED", "ok"))
    /\ conn' = IF c.mode # "exec" THEN [c EXCEPT !.connected = FALSE] ELSE c

CiscoStep ==
    /\ \/ pc = "ios.step" /\ call.rerr # "noprompt"
       \/ pc = "ios.settled"
    /\ LET ok == call.rerr = "ok" /\ Mode # "unknown"
           c == IF ok THEN Settled ELSE conn
           i == call.step
           failed == call.failed \/ ~ok \/ c.mode # StepMode[i] \/ Has("err")
           next == IF failed THEN 4 ELSE i + 1
       IN IF ~ok \/ i = 4
          THEN /\ UNCHANGED call
               /\ TransactionEnds(failed, IF i = 4 /\ (~ok \/ c.mode # "exec")
                                          THEN [c EXCEPT !.connected = FALSE] ELSE c)
          ELSE /\ call' = [call EXCEPT !.step = next, !.failed = failed, !.line = Steps[next],
                                       !.then = "ios.step"]
               /\ At("send") /\ conn' = c /\ UNCHANGED result
    /\ Same

CiscoNext ==
    \/ \E cmd \in Commands : CiscoExecute(cmd)
    \/ CiscoStart \/ CiscoReconnect \/ CiscoAgain \/ CiscoConfirm \/ CiscoRebooted
    \/ CiscoModeChanged \/ CiscoRan \/ CiscoMoved \/ CiscoStepMoved \/ CiscoStep

-----------------------------------------------------------------------------
(* ASA *)

(* asa_execute() up to asa_verify_enable(), which learns the prompt anew. *)
AsaExecute(cmd) ==
    /\ kind = "asa" /\ Begins(cmd)
    /\ UNCHANGED conn /\ Same
    /\ IF ~conn.connected THEN Return(Refused("UNSET"))
       ELSE IF Black(cmd) /\ ~RebootPolicy THEN Return(Refused("NOT_SENT"))
       ELSE At("asa.start") /\ Clears

AsaStart ==
    /\ pc = "asa.start" /\ Learns("asa.verified")
    /\ UNCHANGED <<conn, result>> /\ Same

(* Enable mode is entered again if the prompt shows it was lost.  A failure
   is logged, and the command is sent all the same. *)
AsaVerified ==
    /\ pc \in {"asa.verified", "asa.enabled"}
    /\ conn' = IF call.rerr = "ok" THEN Settled ELSE conn
    /\ IF pc = "asa.verified" /\ call.rerr = "ok" /\ Mode \notin {"exec", "config", "sub"}
       THEN Learns("asa.enabled") /\ ch' = IF ch.up THEN Writes(ch, 0, "enable") ELSE ch
       ELSE Sends(call.cmd, "asa.ran") /\ UNCHANGED ch
    /\ UNCHANGED <<dev, result, sent, ran, counters, threads>>

AsaRan ==
    /\ pc = "asa.ran" /\ UNCHANGED call
    /\ IF call.rerr # "ok"
       THEN GivesUp(Result(FALSE, FALSE, "UNSET", call.rerr))
       ELSE /\ \E stored \in Stores :
                  Return(IF stored = "withheld" THEN Withheld
                         ELSE Outcome(~Has("err"), FALSE, "UNSET", "ok", stored))
            /\ UNCHANGED conn
    /\ Same

AsaNext == (\E cmd \in Commands : AsaExecute(cmd)) \/ AsaStart \/ AsaVerified \/ AsaRan

-----------------------------------------------------------------------------
(* JunOS *)

RollsBack(c) == IF c.up THEN Writes(c, 0, "rollback") ELSE c

(* Fault: commit is sent whether or not a check succeeded. *)
CommitAllowed_Always == TRUE

(* A commit needs the commit check this driver saw succeed. *)
CommitAllowed == conn.check_ok

(* junos_execute_single() up to its first byte; a commit nobody checked is
   answered by rolling the candidate back. *)
JunosExecute(cmd) ==
    /\ kind = "junos" /\ Begins(cmd)
    /\ UNCHANGED <<dev, sent, ran, counters, threads>>
    /\ conn' = IF conn.connected /\ cmd = "configure" THEN [conn EXCEPT !.check_ok = FALSE] ELSE conn
    /\ IF ~conn.connected THEN Return(Refused("UNSET")) /\ UNCHANGED ch
       ELSE IF Black(cmd) THEN Return(Refused("NOT_SENT")) /\ UNCHANGED ch
       ELSE IF cmd = "commit" /\ ~CommitAllowed
       THEN ch' = RollsBack(ch) /\ At("junos.refuse") /\ Clears
       ELSE At("junos.start") /\ Clears /\ UNCHANGED ch

JunosRefuse ==
    /\ pc = "junos.refuse" /\ Learns("junos.refused")
    /\ UNCHANGED <<conn, result>> /\ Same

JunosStart ==
    /\ pc = "junos.start"
    /\ Sends(IF call.cmd = "show" /\ conn.mode = "config" THEN "run show" ELSE call.cmd, "junos.ran")
    /\ UNCHANGED <<conn, result>> /\ Same

(* Learned or not, the call that rolled back returns on a connection that
   stays up. *)
JunosRefused ==
    /\ pc = "junos.refused" /\ UNCHANGED call
    /\ Return(Result(FALSE, FALSE, "UNSET", "ok"))
    /\ conn' = [Settled EXCEPT !.check_ok = FALSE]
    /\ Same

JunosModeChanging == call.cmd \in {"configure", "rollback", "exit"}

(* A command that moves the prompt learns it: once if the old one did not
   come back, and once more before its reply is used. *)
JunosMoved ==
    /\ \/ pc = "junos.ran" /\ call.rerr = "noprompt" /\ JunosModeChanging /\ Learns("junos.moved")
       \/ pc \in {"junos.ran", "junos.moved"} /\ call.rerr = "ok" /\ JunosModeChanging
          /\ Learns("junos.settled")
    /\ UNCHANGED <<conn, result>> /\ Same

(* The reply: a check that does not succeed rolls the candidate back, a
   commit or a rollback ends what a check stood for. *)
JunosReply ==
    LET success == ~Has("err") /\ (call.cmd = "configure" => Mode = "config")
                               /\ (call.cmd = "check" => Has("okcheck"))
        check_ok == IF call.cmd = "check" THEN Has("okcheck")
                    ELSE conn.check_ok /\ call.cmd # "rollback" /\ ~(call.cmd = "commit" /\ success)
    IN /\ conn' = [Settled EXCEPT !.check_ok = check_ok]
       /\ IF call.cmd = "check" /\ ~Has("okcheck")
          THEN /\ \E n \in Reach : ch' = RollsBack(Drained(n))
               /\ Learns("junos.refused") /\ UNCHANGED result
          ELSE /\ UNCHANGED <<ch, call>>
               /\ \E stored \in Cuts : Return(Outcome(success, FALSE, "UNSET", "ok", stored))

JunosRan ==
    /\ pc \in {"junos.ran", "junos.moved", "junos.settled"}
    /\ pc = "junos.ran" => ~JunosModeChanging \/ call.rerr = "write"
    /\ pc = "junos.moved" => call.rerr # "ok"
    /\ IF call.rerr = "ok" THEN JunosReply
       ELSE /\ UNCHANGED <<ch, call>>
            /\ GivesUp(Result(FALSE, FALSE, "UNSET", IF call.rerr = "write" THEN "ok" ELSE call.rerr))
    /\ UNCHANGED <<dev, sent, ran, counters, threads>>

JunosNext ==
    \/ \E cmd \in Commands : JunosExecute(cmd)
    \/ JunosStart \/ JunosRefuse \/ JunosRefused \/ JunosMoved \/ JunosRan

-----------------------------------------------------------------------------
(* PAN-OS: session_mutex is held by the keepalive thread while it is
   "locked", and by a call from the time it stops waiting to its return. *)

Locked == pc # "idle"

PanosExecute(cmd) ==
    /\ kind = "panos" /\ login.up /\ waiting = None /\ (Locked => keepalive = "locked")
    /\ cmd \in Commands /\ result.id < MaxCalls
    /\ LET id == result.id + 1
           refused == [id |-> id, cmd |-> cmd, body |-> <<>>, success |-> FALSE, no_dispatch |-> TRUE,
                       disposition |-> IF Black(cmd) THEN "NOT_SENT" ELSE "UNSET", err |-> "ok",
                       truncated |-> FALSE, whole |-> TRUE, stale |-> FALSE]
       IN IF Black(cmd) \/ ~conn.connected
          THEN result' = refused /\ UNCHANGED waiting
          ELSE waiting' = [id |-> id, cmd |-> cmd] /\ Clears
    /\ UNCHANGED <<ch, dev, conn, pc, call, sent, ran, counters, keepalive, login, known>>

(* pa_ensure_session_ready_locked(): learn the prompt, then the pager. *)
Ready == conn.prompt # None /\ conn.pager_disabled
EnsureReady(c) ==
    IF conn.prompt = None
    THEN call' = [c EXCEPT !.then = "panos.learned"] /\ At("learn")
    ELSE call' = [c EXCEPT !.id = 0, !.line = "pager", !.then = "panos.pager"] /\ At("send")

(* The call gets the mutex: probe the session, make it ready, send.  It does
   not look at connected again. *)
PanosLocked ==
    /\ kind = "panos" /\ waiting # None /\ ~Locked
    /\ LET c == [NoCall EXCEPT !.id = waiting.id, !.cmd = waiting.cmd] IN
       IF ~ch.up THEN call' = c /\ GivesUp(Refused("UNSET"))
       ELSE /\ UNCHANGED <<conn, result>>
            /\ IF ~Ready THEN EnsureReady(c)
               ELSE call' = [c EXCEPT !.line = c.cmd, !.then = "panos.ran"] /\ At("send")
    /\ waiting' = None
    /\ UNCHANGED <<ch, dev, sent, ran, counters, keepalive, login, known>>

(* The holder's session is ready: the thread lets go, the call is sent. *)
BecomesReady(c) ==
    /\ UNCHANGED result
    /\ IF keepalive = "locked"
       THEN call' = NoCall /\ At("idle") /\ keepalive' = "sleep"
       ELSE /\ \E id \in Calls : id = result.id + 1
                  /\ call' = [c EXCEPT !.id = id, !.line = c.cmd, !.then = "panos.ran"]
            /\ At("send") /\ UNCHANGED keepalive

(* It is not: the connection is down, the thread exits, the call is refused. *)
NeverReady ==
    /\ conn' = [conn EXCEPT !.connected = FALSE]
    /\ IF keepalive = "locked"
       THEN call' = NoCall /\ At("idle") /\ keepalive' = "gone" /\ UNCHANGED result
       ELSE /\ call' = [call EXCEPT !.id = result.id + 1]
            /\ Return(Refused("UNSET")) /\ UNCHANGED keepalive

PanosReady ==
    /\ \/ pc = "panos.learned" /\ call.rerr = "ok" /\ ~conn.pager_disabled
          /\ EnsureReady(call) /\ UNCHANGED <<conn, result, keepalive>>
       \/ pc = "panos.learned" /\ call.rerr = "ok" /\ conn.pager_disabled
          /\ BecomesReady(call) /\ UNCHANGED conn
       \/ pc = "panos.learned" /\ call.rerr # "ok"
          /\ \/ Learns("panos.learned") /\ UNCHANGED <<conn, result, keepalive>>
             \/ NeverReady                \* the 45 s are over
       \/ pc = "panos.pager" /\ call.rerr = "ok"
          /\ conn' = [conn EXCEPT !.pager_disabled = TRUE] /\ BecomesReady(call)
       \/ pc = "panos.pager" /\ call.rerr # "ok" /\ NeverReady
    /\ UNCHANGED <<ch, dev, sent, ran, counters, waiting, login, known>>

PanosRan ==
    /\ pc = "panos.ran" /\ UNCHANGED call
    /\ IF call.rerr # "ok"
       THEN GivesUp(Result(FALSE, FALSE, "UNSET", call.rerr))
       ELSE /\ \E stored \in Cuts : Return(Outcome(~Has("err"), FALSE, "UNSET", "ok", stored))
            /\ UNCHANGED conn
    /\ Same

(* pa_keepalive_thread(): warm the session up, then send a bare newline now
   and then; it exits when the connection is down or stops answering. *)
Keepalive ==
    /\ ~Locked
    /\ \/ keepalive = "warm" /\ conn.connected /\ ~Ready
          /\ keepalive' = "locked" /\ EnsureReady(NoCall) /\ UNCHANGED conn
       \/ keepalive = "warm" /\ ~(conn.connected /\ ~Ready)
          /\ keepalive' = "sleep" /\ UNCHANGED <<conn, pc, call>>
       \/ keepalive = "sleep" /\ (~conn.connected \/ ~ch.up)
          /\ keepalive' = "gone" /\ conn' = [conn EXCEPT !.connected = FALSE] /\ UNCHANGED <<pc, call>>
       \/ keepalive = "sleep" /\ conn.connected /\ ch.up
          /\ keepalive' = "locked" /\ UNCHANGED conn
          /\ call' = [NoCall EXCEPT !.line = "", !.then = "panos.kept"] /\ At("send")
    /\ UNCHANGED <<ch, dev, result, sent, ran, counters, waiting, login, known>>

Kept ==
    /\ pc = "panos.kept"
    /\ keepalive' = IF call.rerr = "ok" THEN "sleep" ELSE "gone"
    /\ conn' = IF call.rerr = "ok" THEN conn ELSE [conn EXCEPT !.connected = FALSE]
    /\ call' = NoCall /\ At("idle")
    /\ UNCHANGED <<ch, dev, result, sent, ran, counters, waiting, login, known>>

PanosNext ==
    \/ \E cmd \in Commands : PanosExecute(cmd)
    \/ PanosLocked \/ PanosReady \/ PanosRan \/ Keepalive \/ Kept

-----------------------------------------------------------------------------
ShellNext ==
    \/ (ChannelStep \/ Environment) /\ UNCHANGED threads
    \/ Greeted \/ Connected \/ Enabled_
    \/ CiscoNext \/ AsaNext \/ JunosNext \/ PanosNext
=============================================================================
