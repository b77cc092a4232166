---------------------------- MODULE SshChannel ----------------------------
(***************************************************************************)
(* The shell channel a driver shares with its device, and the reading      *)
(* rules of src/src/virp_ssh_io.c: drain, learn the prompt, send a line,   *)
(* read until the learned prompt.  What travels is abstracted to items:    *)
(* a prompt (named by the mode it shows), a line of output, an error, the  *)
(* text of a successful check, a confirmation question, or a log line the  *)
(* device prints on its own.  Every item carries the call it answers.      *)
(***************************************************************************)
EXTENDS Naturals, Sequences

CONSTANTS
    None,
    Chatty,     \* drivers whose device prints log lines of its own
    MaxCalls, MaxConns, MaxLogs,
    Brief,      \* drivers that get one call fewer
    MaxLate     \* waits on one channel that the device outlasts

ASSUME ChannelAssumption ==
    MaxCalls \in Nat /\ MaxConns \in Nat /\ MaxLogs \in Nat /\ MaxLate \in Nat

ASSUME NoneAssumption == None # "commit"     \* nothing to say is no command

VARIABLES
    kind,       \* which driver
    ch,         \* the channel: open, lines on their way, items on their way back
    dev,        \* the device: mode, answering or stalled, a commit check passed
    conn,       \* the driver's virp_conn
    pc, call,   \* the place in the driver, and the call being served
    result,     \* what the last call returned
    sent,       \* calls with a line that was written whole
    ran,        \* the lines of its own the device ran for each recent call
    conns, logs

Calls == 1..MaxCalls
Modes == {"user", "exec", "config", "sub"}
NoCall == [id |-> 0, cmd |-> None, line |-> None, then |-> None, rerr |-> "ok",
           body |-> <<>>, again |-> FALSE, step |-> 0, failed |-> FALSE]
NoConn == [connected |-> FALSE, prompt |-> None, mode |-> None, check_ok |-> FALSE,
           pager_disabled |-> FALSE, authenticated |-> FALSE]
NoChannel == [up |-> FALSE, line |-> <<>>, out |-> <<>>, behind |-> FALSE, late |-> 0]

Item(id, what) == [id |-> id, what |-> what]
Line(id, word) == [id |-> id, word |-> word]
At(place) == pc' = place
Finishes(rerr, body) == call' = [call EXCEPT !.rerr = rerr, !.body = body] /\ At(call.then)

(* The device will answer a line and has not yet. *)
Owed == ch.line # <<>> /\ ch.up /\ ~dev.stalled

(* A wait that ends too early is counted, and not ended so too often.  The
   driver cannot know of it: behind and late are not state of the code. *)
Waited(c, early) == [c EXCEPT !.late = IF early THEN @ + 1 ELSE @]
MayEnd(early) == early => ch.late < MaxLate

(* virp_ssh_drain() ends after 250 ms of silence, or at its own limits on time
   and bytes, with the first n items read away.  What it leaves or is still
   owed will lead a later read. *)
Early(n) == Owed \/ n < Len(ch.out)
Reach == {n \in 0..Len(ch.out) : MayEnd(Early(n))}
Drained(n) == Waited([ch EXCEPT !.out = SubSeq(@, n + 1, Len(@)), !.behind = @ \/ Early(n)], Early(n))

(* All that has come, read by a call that waited for more. *)
Emptied == Waited([ch EXCEPT !.out = <<>>], Owed)

(* A line a stalled device will never read is gone. *)
Writes(c, id, word) == IF dev.stalled THEN c ELSE [c EXCEPT !.line = Append(@, Line(id, word))]

-----------------------------------------------------------------------------
(* virp_ssh_exec() up to the write: drain, then the whole line or an error.
   Only the Cisco adapter tells a closed peer from other write errors; JunOS
   has a send of its own, without the limit on the length of a line. *)
Send ==
    /\ pc = "send"
    /\ \E n \in Reach :
          \/ /\ ch.up
             /\ ch' = Writes(Drained(n), call.id, call.line)
             /\ sent' = sent \cup {call.id}
             /\ At("read")
             /\ UNCHANGED call
          \/ /\ ch' = Drained(n)
             /\ \/ Finishes(IF kind = "ios" /\ ~ch.up THEN "closed" ELSE "write", <<>>)
                \/ kind # "junos" /\ call.line = "show" /\ Finishes("toolong", <<>>)
             /\ UNCHANGED sent
    /\ UNCHANGED <<kind, dev, conn, result, ran, conns, logs>>

(* virp_ssh_read_until_prompt(): the read ends on the learned prompt at the
   end of what has been read so far; earlier prompts may have been passed. *)
ReadPrompt ==
    /\ pc = "read" /\ conn.prompt # None
    /\ \E k \in 1..Len(ch.out) :
          /\ ch.out[k].what = conn.prompt
          /\ Finishes("ok", SubSeq(ch.out, 1, k - 1))
          /\ ch' = [ch EXCEPT !.out = SubSeq(@, k + 1, Len(@))]
    /\ UNCHANGED <<kind, dev, conn, result, sent, ran, conns, logs>>

(* Fault: end of file or a timeout ends the read like a prompt does. *)
ReadFails_ShortIsOk ==
    /\ pc = "read" /\ MayEnd(Owed)
    /\ Finishes("ok", ch.out)
    /\ ch' = Emptied
    /\ UNCHANGED <<kind, dev, conn, result, sent, ran, conns, logs>>

(* ... and without it the read is an error, whatever arrived: no prompt was
   learned, the line went quiet, the channel ended or the buffer is full. *)
ReadFails ==
    /\ pc = "read"
    /\ \/ conn.prompt = None /\ Finishes("noprompt", <<>>) /\ UNCHANGED ch
       \/ /\ MayEnd(Owed)
          /\ ch.out # <<>> => ch.out[Len(ch.out)].what # conn.prompt
          /\ Finishes("noprompt", ch.out)
          /\ ch' = Emptied
       \/ \E k \in 1..Len(ch.out) :      \* buffer full
             /\ ch.out[k].what # conn.prompt
             /\ Finishes("noprompt", SubSeq(ch.out, 1, k))
             /\ ch' = [ch EXCEPT !.out = SubSeq(@, k + 1, Len(@))]
    /\ UNCHANGED <<kind, dev, conn, result, sent, ran, conns, logs>>

(* virp_ssh_learn_prompt(): forget the prompt, drain, send a bare newline. *)
Learn ==
    /\ pc = "learn"
    /\ conn' = [conn EXCEPT !.prompt = None]
    /\ \E n \in Reach :
          IF ch.up
          THEN ch' = Writes(Drained(n), 0, "") /\ At("probe1") /\ UNCHANGED call
          ELSE ch' = Drained(n) /\ Finishes("noprompt", call.body)
    /\ UNCHANGED <<kind, dev, result, sent, ran, conns, logs>>

(* The first answer is noted and a second newline sent.  The answer is the
   last line when the channel has gone quiet or the read is at its limits. *)
Probe1 ==
    /\ pc = "probe1"
    /\ \E n \in Reach :
          IF n > 0 /\ ch.up
          THEN /\ ch' = Writes(Drained(n), 0, "")
               /\ call' = [call EXCEPT !.rerr = ch.out[n].what]
               /\ At("probe2")
          ELSE ch' = Drained(n) /\ Finishes("noprompt", call.body)
    /\ UNCHANGED <<kind, dev, conn, result, sent, ran, conns, logs>>

(* The second answer must equal the first, or nothing has been learned. *)
Probe2 ==
    /\ pc = "probe2"
    /\ \E n \in Reach :
          /\ ch' = Drained(n)
          /\ IF n > 0 /\ ch.out[n].what = call.rerr
             THEN conn' = [conn EXCEPT !.prompt = call.rerr] /\ Finishes("ok", call.body)
             ELSE UNCHANGED conn /\ Finishes("noprompt", call.body)
    /\ UNCHANGED <<kind, dev, result, sent, ran, conns, logs>>

ChannelStep == Send \/ ReadPrompt \/ ReadFails \/ Learn \/ Probe1 \/ Probe2

-----------------------------------------------------------------------------
(* The device and the network (external) *)

Says(items, mode) == [out |-> Append(items, mode), dev |-> [dev EXCEPT !.mode = mode]]
Here(items) == Says(items, dev.mode)
Configuring == dev.mode \in {"config", "sub"}

(* What a line does to the device, and what it prints.  passed says that a
   commit check succeeded since the candidate was opened or rolled back; a
   set after the check does not take that back, here or in the driver. *)
Answers(word) ==
    CASE word = "" -> {Here(<<>>)}
      [] word = "enable" -> {Says(<<>>, "exec"), Here(<<"err">>)}
      [] word \in {"show", "showrun", "pager"} ->
            {Here(IF kind = "ios" /\ Configuring THEN <<"err">> ELSE <<"text">>)}
      [] word \in {"run show", "do show"} -> {Here(<<"text">>)}
      [] word = "configure" ->
            {Here(<<"err">>)} \cup
            (IF dev.mode = "exec"
             THEN {[Says(<<>>, "config") EXCEPT !.dev.passed = FALSE]} ELSE {})
      [] word = "interface" ->
            {Here(<<"err">>)} \cup (IF Configuring THEN {Says(<<>>, "sub")} ELSE {})
      [] word \in {"shutdown", "set"} -> {Here(<<"err">>), Here(<<>>)}
      [] word \in {"end", "exit"} -> {Says(<<>>, "exec")}
      [] word = "check" ->
            {Here(<<"err">>)} \cup
            (IF Configuring THEN {[Here(<<"okcheck">>) EXCEPT !.dev.passed = TRUE]} ELSE {})
      [] word = "commit" -> {Here(<<"err">>), Here(<<"text">>)}
      [] word = "rollback" -> {[Here(<<"text">>) EXCEPT !.dev.passed = FALSE]}
      [] word = "reload" -> {[out |-> <<"confirm">>, dev |-> dev]}
      [] word = "y" -> {[out |-> <<"text">>, dev |-> [dev EXCEPT !.stalled = TRUE]]}

(* The line that is a call's own command, not one the driver adds to it. *)
OwnLine(l) == l.id \in Calls /\ l.word # ""

(* What is noted of a line that runs: for a commit, that a check passed, or
   that the driver has been reading answers that were not its own. *)
Ran(word) == <<word, word = "commit" /\ (dev.passed \/ ch.behind)>>

(* Lines are run in order: once a call's line runs, no line of an earlier
   call will, and what was noted of those calls is dropped. *)
Since(id) == [c \in Calls |-> IF c < id THEN <<>> ELSE ran[c]]

DeviceStep ==
    /\ ch.up /\ ch.line # <<>> /\ ~dev.stalled
    /\ LET l == Head(ch.line) IN
          /\ \E a \in Answers(l.word) :
                /\ dev' = a.dev
                /\ ch' = [ch EXCEPT !.line = Tail(@),
                                    !.out = @ \o [i \in DOMAIN a.out |-> Item(l.id, a.out[i])]]
          /\ ran' = IF OwnLine(l) THEN [Since(l.id) EXCEPT ![l.id] = Append(@, Ran(l.word))] ELSE ran
    /\ UNCHANGED <<kind, conn, pc, call, result, sent, conns, logs>>

(* The device prints a line nobody asked for. *)
Log ==
    /\ kind \in Chatty /\ ch.up /\ ~dev.stalled /\ logs < MaxLogs
    /\ logs' = logs + 1
    /\ ch' = [ch EXCEPT !.out = Append(@, Item(0, "log"))]
    /\ UNCHANGED <<kind, dev, conn, pc, call, result, sent, ran, conns>>

(* It stops answering for good on this connection. *)
Stall ==
    /\ ch.up /\ ~dev.stalled
    /\ dev' = [dev EXCEPT !.stalled = TRUE]
    /\ UNCHANGED <<kind, ch, conn, pc, call, result, sent, ran, conns, logs>>

(* It closes the channel; lines it has not read are lost. *)
PeerCloses ==
    /\ ch.up
    /\ ch' = [ch EXCEPT !.up = FALSE, !.line = <<>>]
    /\ UNCHANGED <<kind, dev, conn, pc, call, result, sent, ran, conns, logs>>

Environment == DeviceStep \/ Log \/ Stall \/ PeerCloses
=============================================================================
