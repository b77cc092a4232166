---------------------------- MODULE ExecDriver ----------------------------
(***************************************************************************)
(* The drivers that open something new for every command: an exec channel  *)
(* (driver_linux.c), a shell (driver_fortigate.c) or an HTTP request       *)
(* (driver_pbs.c, driver_zammad.c, driver_wazuh.c, driver_librenms.c,      *)
(* driver_gns3.c), and the driver the tests use (driver_mock.c).           *)
(***************************************************************************)
EXTENDS ShellDriver

ExecKinds == Kinds \ ShellKinds

(* "bad" stands for a command the driver's own grammar refuses, "post" for
   a write it allows only on some devices. *)
ExecCommands ==
    CASE kind = "linux" -> {"show", "showrun", "reload"}
      [] kind \in {"fortigate", "mock"} -> {"show", "reload"}
      [] kind \in {"zammad", "gns3"} -> {"show", "post", "bad"}
      [] kind = "wazuh" -> {"show", "bad", "reload"}
      [] OTHER -> {"show", "bad"}

Idle == UNCHANGED <<ch, dev, counters, threads>>

(* The command leaves the driver; the device may run it or not. *)
Dispatch(may) ==
    /\ sent' = sent \cup {call'.id}
    /\ \E r \in may : ran' = IF r THEN [ran EXCEPT ![call'.id] = Append(@, <<call'.cmd, FALSE>>)] ELSE ran
Unsent == UNCHANGED <<sent, ran>>

Says_(what) == <<Item(call.id, what)>>
Goes(place) == At(place) /\ Clears

(* The connection is up; what FortiGate then asks about VDOMs decides only
   which lines surround a command. *)
Up ==
    /\ pc = "greeted" /\ kind \in ExecKinds
    /\ conn' = [NoConn EXCEPT !.connected = TRUE, !.authenticated = (kind = "wazuh")]
    /\ login' = [NoLogin EXCEPT !.up = TRUE, !.held = login.held]
    /\ call' = NoCall /\ At("idle")
    /\ UNCHANGED <<ch, dev, result, sent, ran, counters, known, keepalive, waiting>>

-----------------------------------------------------------------------------
(* Linux *)

LinuxExecute(cmd) ==
    /\ kind = "linux" /\ Begins(cmd)
    /\ IF (Black(cmd) /\ ~RebootPolicy) \/ ~conn.connected THEN Return(Refused("NOT_SENT"))
       ELSE Goes("linux.open")
    /\ UNCHANGED conn /\ Unsent /\ Idle

(* A session channel that does not open has carried nothing. *)
LinuxOpen ==
    /\ pc = "linux.open" /\ UNCHANGED call
    /\ \/ Goes("linux.exec") /\ UNCHANGED conn
       \/ GivesUp(Refused("NOT_SENT"))
    /\ Unsent /\ Idle

(* The exec request went out, whether or not its reply came back. *)
LinuxExec ==
    /\ pc = "linux.exec" /\ UNCHANGED call
    /\ Dispatch(BOOLEAN)
    /\ \/ Return(Result(FALSE, FALSE, "UNKNOWN", "ok"))
       \/ Goes("linux.read")
    /\ UNCHANGED conn /\ Idle

(* Everything was read to the end and both sides closed the channel. *)
CleanClose(how, eof, closed) == how = "data" /\ eof /\ closed

(* The verdict: an exit status counts only after a clean close, and a body that
   cannot be scrubbed is withheld. *)
LinuxJudges(how, clean, exit, stored) ==
    IF stored = "withheld" THEN Withheld
    ELSE Outcome(clean /\ exit = "zero", FALSE,
                 IF ~clean THEN "UNKNOWN" ELSE IF exit = "zero" THEN "CONFIRMED" ELSE "FAILED",
                 "ok", IF (clean /\ exit = "signal") \/ how = "buffer" THEN "truncated" ELSE stored)

(* linux_execute() after the exec: read, drain, close, then judge.  A channel
   that was cut off reports exit status 0 like one that was never told. *)
LinuxRead ==
    /\ pc = "linux.read"
    /\ \E how \in {"data", "deadline", "transport", "buffer"}, eof, closed \in BOOLEAN,
          exit \in {"zero", "nonzero", "signal"}, stored \in Stores :
          LET done == ran[call.id] # <<>> IN
          /\ eof /\ closed => done          \* only a command that ran ends its channel
          /\ ~done => exit = "zero"
          /\ stored = "truncated" => how = "buffer"
          /\ call' = [call EXCEPT !.body = IF done THEN Says_("text") ELSE <<>>]
          /\ Return(LinuxJudges(how, CleanClose(how, eof, closed), exit, stored))
    /\ UNCHANGED conn /\ Unsent /\ Idle

LinuxNext == (\E cmd \in ExecCommands : LinuxExecute(cmd)) \/ LinuxOpen \/ LinuxExec \/ LinuxRead

-----------------------------------------------------------------------------
(* FortiGate *)

FgExecute(cmd) ==
    /\ kind = "fortigate" /\ Begins(cmd)
    /\ IF (Black(cmd) /\ ~RebootPolicy) \/ ~conn.connected THEN Return(Refused("NOT_SENT"))
       ELSE Goes("fg.shell")
    /\ UNCHANGED conn /\ Unsent /\ Idle

(* A shell for this command; its failure proves nothing to the caller. *)
FgShell ==
    /\ pc = "fg.shell" /\ UNCHANGED call
    /\ \/ Return(Result(FALSE, FALSE, "UNSET", "transport")) /\ Unsent
       \/ Goes("fg.read") /\ Dispatch(BOOLEAN)
    /\ UNCHANGED conn /\ Idle

(* The reply counts if it ends on a prompt and holds the command's echo; one
   too long for the result is cut without a word.  No memory to read it into
   is a failure after the line was written. *)
FgRead ==
    /\ pc = "fg.read"
    /\ \/ \E prompt, echo \in BOOLEAN, stored \in {"whole", "cut"} :
             LET done == ran[call.id] # <<>> IN
             /\ ~done => ~(prompt /\ echo)
             /\ call' = [call EXCEPT !.body = IF done THEN Says_("text") ELSE <<>>]
             /\ Return(IF prompt /\ echo THEN Outcome(TRUE, FALSE, "UNSET", "ok", stored)
                       ELSE Outcome(FALSE, FALSE, "UNSET", "noprompt", "withheld"))
       \/ UNCHANGED call /\ Return(Result(FALSE, FALSE, "UNSET", "ok"))
    /\ UNCHANGED conn /\ Unsent /\ Idle

FgNext == (\E cmd \in ExecCommands : FgExecute(cmd)) \/ FgShell \/ FgRead

-----------------------------------------------------------------------------
(* HTTP: how curl_easy_perform() ends.  Before the request was written: no
   connection, no name, no TLS, the wrong certificate.  After: a timeout or a
   broken transfer, or an answer. *)

Before == {"connect", "resolve", "tls", "verify"}
After == {"timeout", "broken"}
Statuses == {200, 401, 403, 503}
Bodies == {"text", "err", "long", "empty"}
Answered == [status : Statuses, body : Bodies]

(* What the buffer of the answer holds.  Wazuh's is not initialised: after an
   empty answer it shows what an earlier call left on the stack. *)
Captured(a) ==
    CASE a.body = "empty" /\ kind = "wazuh" ->
            {<<>>} \cup {<<Item(id, w)>> : id \in 1..(call.id - 1), w \in {"text", "err"}}
      [] a.body = "empty" /\ kind # "wazuh" -> {<<>>}
      [] a.body = "err" -> {Says_("err")}
      [] OTHER -> {Says_("text")}

Performs(rc) ==
    IF rc \in Before THEN Unsent ELSE IF rc \in After THEN Dispatch(BOOLEAN) ELSE Unsent
Performed(a) == Dispatch(IF a.status \in {401, 403} THEN {FALSE} ELSE IF a.status = 503 THEN BOOLEAN ELSE {TRUE})

Kept_(a) ==
    CASE a.body = "long" -> "cut"
      [] a.body = "empty" /\ kind = "wazuh" -> "unset"
      [] OTHER -> "whole"

Succeeds(a) == a.status < 400 /\ \A i \in DOMAIN call'.body : call'.body[i].what # "err"
Down(rc, codes) == conn' = IF rc \in codes THEN [conn EXCEPT !.connected = FALSE] ELSE conn

(* A call of a REST driver up to its request. *)
RestBegins(cmd, refuses) ==
    /\ Begins(cmd)
    /\ IF refuses THEN Return(Refused("UNSET"))
       ELSE IF ~conn.connected THEN Return(Result(FALSE, FALSE, "UNSET", "notconnected"))
       ELSE Goes(kind)
    /\ UNCHANGED conn /\ Unsent /\ Idle

(* PBS: parse, build the path, then GET. *)
PbsExecute(cmd) == kind = "pbs" /\ RestBegins(cmd, cmd = "bad")

(* An answer that does not fit is withheld whole, whatever curl said. *)
PbsRequest ==
    /\ pc = "pbs"
    /\ \/ \E rc \in Before \cup After :
             /\ UNCHANGED call /\ Performs(rc)
             /\ Down(rc, {"connect", "timeout", "tls", "verify"})
             /\ Return(Result(FALSE, rc = "verify", "UNSET", "ok"))
       \/ \E a \in Answered :
             /\ \E body \in Captured(a) : call' = [call EXCEPT !.body = body]
             /\ Performed(a)
             /\ UNCHANGED conn
             /\ Return(IF a.body = "long" THEN Outcome(FALSE, FALSE, "UNSET", "ok", "withheld")
                       ELSE Result(a.status < 400, FALSE, "UNSET", "ok"))
    /\ Idle

(* Zammad: the one write is refused unless the device allows it. *)
ZammadExecute(cmd) ==
    /\ kind = "zammad"
    /\ \E allowed \in BOOLEAN : RestBegins(cmd, cmd = "bad" \/ (cmd = "post" /\ ~allowed))

(* Fault: a request that may have been written is reported as not sent. *)
RestAnswers_TimeoutIsUnsent(nothing, down) ==
    /\ \/ \E rc \in Before \cup After :
             /\ UNCHANGED call /\ Performs(rc) /\ Down(rc, down)
             /\ Return(Result(FALSE, rc \in nothing \cup {"timeout"}, "UNSET", "ok"))
       \/ \E a \in Answered :
             /\ \E body \in Captured(a) : call' = [call EXCEPT !.body = body]
             /\ Performed(a)
             /\ conn' = IF a.status = 401 THEN [conn EXCEPT !.authenticated = FALSE] ELSE conn
             /\ Return(Outcome(Succeeds(a), FALSE, "UNSET", "ok", Kept_(a)))
    /\ Idle

(* The write callbacks of Zammad, Wazuh and LibreNMS keep what fits and tell
   curl that they took it all. *)
RestAnswers(nothing, down) ==
    /\ \/ \E rc \in Before \cup After :
             /\ UNCHANGED call /\ Performs(rc) /\ Down(rc, down)
             /\ Return(Result(FALSE, rc \in nothing, "UNSET", "ok"))
       \/ \E a \in Answered :
             /\ \E body \in Captured(a) : call' = [call EXCEPT !.body = body]
             /\ Performed(a)
             /\ conn' = IF a.status = 401 THEN [conn EXCEPT !.authenticated = FALSE] ELSE conn
             /\ Return(Outcome(Succeeds(a), FALSE, "UNSET", "ok", Kept_(a)))
    /\ Idle

ZammadRequest == pc = "zammad" /\ RestAnswers({}, {"connect", "timeout", "tls", "verify"})

LibrenmsExecute(cmd) == kind = "librenms" /\ RestBegins(cmd, cmd = "bad")
LibrenmsRequest == pc = "librenms" /\ RestAnswers({}, {"connect", "timeout", "tls"})

(* Wazuh: the BLACK list, then the path. *)
WazuhExecute(cmd) ==
    /\ kind = "wazuh"
    /\ IF Black(cmd) THEN Begins(cmd) /\ Return(Refused("NOT_SENT")) /\ UNCHANGED conn /\ Unsent /\ Idle
       ELSE RestBegins(cmd, cmd = "bad")

(* wz_ensure_token(): log in again if the token was refused or is too old. *)
WazuhToken ==
    /\ pc = "wazuh" /\ UNCHANGED call
    /\ \/ conn.authenticated /\ Goes("wazuh.request") /\ UNCHANGED conn
       \/ Goes("wazuh.request") /\ conn' = [conn EXCEPT !.authenticated = TRUE]
       \/ /\ conn' = [conn EXCEPT !.connected = FALSE, !.authenticated = FALSE]
          /\ Return(Refused("UNSET"))
    /\ Unsent /\ Idle

WazuhRequest == pc = "wazuh.request" /\ RestAnswers({"connect", "resolve", "tls"}, {"connect", "timeout", "tls"})

-----------------------------------------------------------------------------
(* GNS3: a connection is only a copy of the device entry; each call has a
   handle of its own and says "not sent" until it performs. *)
Gns3Execute(cmd) ==
    /\ kind = "gns3" /\ Begins(cmd)
    /\ \/ cmd = "bad" /\ Return(Refused("NOT_SENT"))
       \/ cmd = "post" /\ Return(Refused("NOT_SENT"))       \* writes disabled on this device
       \/ cmd # "bad" /\ \E err \in {"ok", "null"} : Return(Result(FALSE, TRUE, "NOT_SENT", err))
       \/ cmd # "bad" /\ Goes("gns3")
    /\ UNCHANGED conn /\ Unsent /\ Idle

(* Only an answer that echoes the command settles it. *)
Gns3Judges(a, matched) ==
    LET settled == matched /\ a.body \in {"text", "err"} /\ a.status # 503
        success == settled /\ a.status = 200 /\ a.body = "text"
    IN Outcome(success, FALSE,
               IF success THEN "CONFIRMED" ELSE IF settled THEN "FAILED" ELSE "UNKNOWN",
               "ok", IF a.body = "long" THEN "truncated" ELSE "whole")

Gns3Request ==
    /\ pc = "gns3"
    /\ \/ \E rc \in Before \cup After :
             UNCHANGED call /\ Performs(rc) /\ Return(Result(FALSE, FALSE, "UNKNOWN", "ok"))
       \/ \E a \in Answered, matched \in BOOLEAN :
             /\ \E body \in Captured(a) : call' = [call EXCEPT !.body = body]
             /\ Performed(a)
             /\ matched => a.body \in {"text", "err"}
             /\ Return(Gns3Judges(a, matched))
    /\ UNCHANGED conn /\ Idle

-----------------------------------------------------------------------------
(* The driver of the tests.  Its hooks, in the order they are looked at,
   decide what a call returns; a shared channel shows what a health probe
   wrote since the call began. *)
MockHook ==
    {Result(FALSE, TRUE, "NOT_SENT", "session"),          \* dead session
     Result(FALSE, FALSE, "UNSET", "forced"),             \* forced error
     Result(FALSE, FALSE, "UNSET", "ok"),                 \* unknown failure, or a refusal with a body
     Result(FALSE, TRUE, "NOT_SENT", "ok"),               \* declared refusal
     Result(FALSE, TRUE, "UNSET", "ok")}                  \* soft failure

MockExecute(cmd) ==
    /\ kind = "mock" /\ Begins(cmd)
    /\ \/ \E r \in MockHook : Return(r)
       \/ ~conn.connected /\ Return(Refused("UNSET"))
       \/ conn.connected /\ Goes("mock")
    /\ Unsent /\ UNCHANGED <<conn, dev, counters, threads>>
    /\ ch' = [ch EXCEPT !.out = <<>>]

MockReply ==
    /\ pc = "mock"
    /\ call' = [call EXCEPT !.body = ch.out \o Says_(IF call.cmd = "show" THEN "text" ELSE "err")]
    /\ IF call.cmd = "show" THEN Return(Result(TRUE, FALSE, "UNSET", "ok"))
       ELSE Return(Result(FALSE, FALSE, "FAILED", "ok"))
    /\ Dispatch({TRUE}) /\ UNCHANGED conn /\ Idle

(* A health probe, serialised with calls by the node's exec_mutex. *)
MockHealth ==
    /\ kind = "mock" /\ pc = "idle" /\ login.up /\ Len(ch.out) < 1
    /\ ch' = [ch EXCEPT !.out = Append(@, Item(0, "probe"))]
    /\ UNCHANGED <<pc, call, conn, dev, result, sent, ran, counters, threads>>

RestNext ==
    \/ \E cmd \in ExecCommands :
          \/ PbsExecute(cmd) \/ ZammadExecute(cmd) \/ LibrenmsExecute(cmd)
          \/ WazuhExecute(cmd) \/ Gns3Execute(cmd) \/ MockExecute(cmd)
    \/ PbsRequest \/ ZammadRequest \/ LibrenmsRequest
    \/ WazuhToken \/ WazuhRequest \/ Gns3Request \/ MockReply \/ MockHealth

ExecNext == Up \/ LinuxNext \/ FgNext \/ RestNext
=============================================================================
