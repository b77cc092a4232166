# A TLA+ model of VIRP

VIRP lets a machine operate network devices while every operation leaves
evidence. Its centre is the O-Node, a C daemon (`src/src/`) that receives
requests on a socket, decides with a tier gate whether a command may run, asks
for human approval where it may not run by itself, runs it through a device
driver, signs what the device answered, and records all of it in a
hash-linked, MACed chain. This directory holds TLA+ modules for the parts of
the daemon whose correctness depends on interleavings, crashes, failed
writes, devices that stall or answer late, and on text that is classified and
scrubbed by several functions which must agree; the TLC configurations that
check them; and TLAPS proofs.

Source paths below are relative to the repository root, which is checked out
as `src/` (so `src/virp_chain.c` is `src/src/virp_chain.c` in PROJECT.json).

## The system and its parts

```
 client ── socket ──► accept loop ─► worker pool ─► handle_client
                                                      │
     HELLO/BIND/CLOSE ──► session ────────┐           │ EXECUTE
     APPROVAL_* ────────► approval store  │           ▼
                             │            │    tier gate ── owner policy
                             └─ verify ───┼──►   │            journal
                                          │      ▼
              watchdog ─► connection slots ──► driver ─► device
                                          │      │
                                          ▼      ▼
                               signed observation + chain records
                                          │      │
              verifier with replay store ◄┘      └► trust chain (SQLite)
```

| part | source | module |
|---|---|---|
| execution gate and evidence records | `src/virp_onode.c` | GateApply |
| trust chain | `src/virp_chain.c` | TrustChain, ChainLog |
| approval flow | `src/virp_approval.c` | Approval |
| connections, watchdog, worker pool, shutdown | `src/virp_onode.c` | DeviceConn |
| session handshake, session-bound signing | `src/virp_session.c`, `virp_handshake.c`, `virp_transcript.c`, `virp_onode.c` | Session |
| replay store and v2 verification | `src/virp_seqstore.c`, `virp_crypto.c` | ReplayStore |
| owner policy and attempt journal | `src/virp_policy.c`, `tools/policy/owner.py` | PolicyJournal |
| SSH transport, host keys, connecting | `src/virp_ssh_io.c`, `virp_ssh_hostkey.c`, the `*_connect()` functions | SshChannel, SshConnect |
| execute of the shell drivers (Cisco, ASA, JunOS, PAN-OS) | `src/drivers/`, `src/driver_panos.c` | ShellDriver |
| execute of the drivers with one exchange per call (FortiGate, Linux, REST, mock, GNS3) | `src/drivers/` | ExecDriver |
| all drivers behind the contract of `virp_driver.h` | | Drivers |
| command classification | `src/drivers/`, `src/driver_panos.c` | RouteTables (network CLIs), LinuxGate (shell lines, Proxmox), RestGate (APIs), PolicyCatalog (`src/virp_policy.c`) |
| scrubbing and body filter | `src/virp_scrub.c`, `virp_body_filter.c` | Scrub |
| one command from the devices file to the signature | `src/virp_onode_prod.c`, `virp_onode.c` | CommandPath |
| request dispatch, intents and quotas, turn validator, signature eras, federation grammar, key files, codec, tools, Python services, Go codec | see PROJECT.json | not modelled, or partly |

How they interact, and where the models meet:

- *Gate and approvals.* An apply needs a record that Approval writes. GateApply
  takes approvals as given and models the consumption in detail; Approval has
  the apply as one step, justified by GateApply's `SingleUse`: it names one
  approval entry in a committed intent and never does so twice.
- *Gate and chain.* GateApply sees an append as an atomic success or failure.
  That an append is all or nothing, and that a crash leaves exactly the
  acknowledged entries, is TrustChain's `ImplementsLog` and `AckedIsCommitted`.
- *Gate and connections.* GateApply lets every request find, make or fail to
  make a connection. DeviceConn has the slot those outcomes come from.
- *Gate and policy.* When a policy is configured the execution is bracketed by
  a reservation and a finish, which PolicyJournal models with the driver call
  in between.
- *Gate and drivers.* GateApply retries once when a driver reports
  `no_dispatch` and treats everything else as possibly executed. Drivers shows
  that each driver's report is true (`NotSentIsTrue`, `SuccessIsOwn`).
- *Gate and classification.* GateApply takes "the gate admits" as given;
  CommandPath composes the separator policy, the classifier or the owner
  policy's catalog and the driver's own BLACK test, and follows the reply through driver scrub, filter and
  scrubber up to the signature.
- *Session and replay store.* `SeqGrows` says that a session numbers its
  observations increasingly; ReplayStore shows that the receiver then accepts
  each of them at most once.

## The modules

Sections of code under a mutex that contain no blocking call are one step;
everything else (driver calls, file writes, SQLite commits, the gap between
unlocking one mutex and locking another) is a step boundary at which other
threads run and the process may die. A definition carries the name of the
code it stands for where there is one; `map` in PROJECT.json gives the lines.

**GateApply.** State: per request its control point (`pc`), proposal, device,
what the driver reported and what the caller got; per approval the line in
`consumed.list`; `intent`, `closer`, `sent` are history of chain and device.
The actions follow `onode_execute_legacy()` from top to bottom: `Arrive`,
`RejectEarly`, `AcquireExec`, `GateAdmits`/`GateRefuses`,
`Connect`/`ConnectFails`, `ProbeLive`/`ProbeFails`, the replay guard
(`GuardPasses`/`GuardRefuses`), `CommitIntent`/`IntentFails`,
`CacheConsumed`, `Dispatch`, `Retry`, `DropUnknown`,
`CloserLands`/`CloserFails`. `Restart` kills every thread,
keeps chain and `consumed.list`, and clears the degraded latch.
`main()` sets `evidence_required` whatever the devices file says
(`virp_onode_prod.c:1537`), so the path without evidence, on which only
`consumed.list` guards against a second use, is not in the model. The replay
guard asks the chain only about approvals whose record names a chain entry
(`Chained`); the others are in the model and unguarded, as in the code. The
daemon does not start in approval mode without a chain, and with one every
record gets the name.

**TrustChain.** A database is a record of rows, heads and bodies. Three copies
are kept: what the daemon's connection reads (`view`, ahead of the others
while a transaction is open after a failed COMMIT), what other processes read
(`committed`), and what power loss leaves (`synced`, WAL with
`synchronous=NORMAL`). `AppendCommits`, `AppendConflicts`, `AppendRollsBack`,
`CommitFails` and `AppendWedged` are the outcomes of
`chain_append_locked()`; `VerifySession` is the session verifier with head,
link, MAC, body binding, intent and closer checks. `Faults` turns on power
loss and changes made outside the daemon; a body that
`chain_verify_binding_locked()` cannot bind (an empty one, one of a type whose
hash is of something else, one exactly as long as the buffer) is passed over,
as in the code. **ChainLog** is its abstract
specification: one append-only log per session, of which power loss takes
back a suffix of all sessions at once.

**Approval.** `ProposeEntry`/`ProposeRecord`, `Challenge` (overwrites the
previous one), `Sign` by an approver, then `virp_approval_submit()` in steps:
checks without the lock, `SubmitEnters` with the second look under
`submit_mu`, `SubmitAppends`, `SubmitWrites`, and the failure of each. A record
that exists and cannot be opened counts as absent (`SubmitMisreads`): the submit
goes on and replaces it. `misread` keeps the proposals to which this happened.

**DeviceConn.** One device slot, workers, the watchdog and the main thread.
Connections are numbered, so a connection freed and a new one in its place
are different. Workers go through `get_connection()`, the health probe, the
driver call, the retry, and the drop after an unknown outcome, which happens
after `exec_mutex` was released; the watchdog connects without `exec_mutex`
and probes with it. `Accept`, `End`, `Post`, `Drain`, `Join`, `Leak`,
`Destroy` are the life of the pool. Reconnect backoff only delays steps and
is left out.

**Session.** `session` is `virp_session_t`; a fresh number stands for session
id and nonces. `Hello`, `Bind` and `Close` are the handlers with their
refusals; `Elapse` lets a timeout run out, which the next
`onode_session_lock()` notices; `Begin`, `SignSucceeds`, `SignFails` and
`Done` are v2 and v3 requests around the device call.

**ReplayStore.** `entries` is the table with its LRU ticks, `disk` the file.
`Accept`, `SaveFails` and `Refuse` are the outcomes of
`virp_seqstore_accept()` inside `virp_verify_observation_v2()`; the process
may die before or after the rename, and power loss may bring back the
previous file.

**PolicyJournal.** `attempts` is the journal table, `fate` what really
happened to each attempt. `Reserve` is the one transaction of
`virp_policy_reserve()`; `Send` and `Returns` the driver call; `Finish` and
`FinishFails` the update; `Start` the load that declares pending attempts
unknown; `OwnerStops` and `OwnerReconciles` the owner's tool; the wall clock
may go forward or back.

**SshChannel, SshConnect, ShellDriver, ExecDriver, Drivers.** One connection of
one driver at a time, its device at the other end. A byte stream is a sequence
of items (`[id, what]`: the answer, prompt, echo or log line of call `id`), so
that a reply read by the wrong call is visible; prompts are modes. SshChannel
has drain, quiescent read, learning a prompt and reading up to it. A drain ends
in silence or at its limits on time and bytes, so it may leave items in the
channel or end before the device has answered; `behind` notes, for the
properties, that this has happened on the channel. SshConnect
the stages of every `connect()` as data, with what each stage has acquired and
what its failure path releases. ShellDriver adds the Cisco reconnect and
interface transaction, the JunOS commit gate and the PAN-OS keepalive thread;
ExecDriver the FortiGate, Linux, REST, mock and GNS3 calls. `sent` and `ran`
are history: what has left the node, and what the device ran. Lines run in
order, so the notes of earlier calls are dropped when a later call's line runs.

**RouteTables, LinuxGate, RestGate.** The classifiers as operators over parsed
commands: a network command is a string with flags for leading blanks and
capitals; a Linux line a sequence of segments of tokens, each with its quoting
and the words its text splits into; a REST request a method, path segments and
query pairs, each with how often it is percent-encoded; a Zammad body its
characters and how each is written. The tables are the code's rows reduced to
those that differ in what they match or answer.

**Scrub, CommandPath.** A reply is lines of words or a JSON object; a secret is
the word `S`. `virp_scrub_body()` has the rules by line, by label and by JSON
member, with markers that are wider than the words they replace, so that a
body can overflow its buffer; `virp_body_filter_apply()` has the allow lists
and the record of removed keys. CommandPath's actions are `LoadDevice` (once
per entry of the devices file), `Start`, `Request`, `Capture`, `Filter`,
`ScrubAndSign`, `Answered`. A request has one of three modes. `"policy"` is the
gate of a daemon with an owner policy, which the shipped `main()` requires: the
closed catalog of **PolicyCatalog** decides instead of the classifiers
(`virp_onode.c:2677`), and four drivers let the reboot it granted pass their
BLACK test. `"enforced"` and `"open"` are the gate without one, as the library and
the tests run it; `"open"` stands for SHADOW mode and for a command with an
approval, in which RED and UNCLASSIFIED run.

## The runs

| run | instance | result |
|---|---|---|
| `gate` | 2 requests, 2 devices, 2 approvals of which 1 names a chain entry, restarts | holds |
| `chain` | 2 sessions, 2 versions of one artifact, 3 rows, power loss | holds, refines ChainLog |
| `chain_damage` | 1 session, 2 kinds of artifact, 3 rows, changes outside the daemon | holds |
| `chain_headless` | 1 session that can lose its head | `HeadlessNeverVerifies` violated |
| `approval` | 1 proposal, 2 submits at once, 3 keys of which 2 enrolled | holds |
| `approval_misread` | the same | `ApprovedExecutesOnce` violated |
| `policy` | 2 workers, 6 actions on overlapping resources, budgets 2 and 1 | holds |
| `session` | 2 clients, 2 workers, 2 sessions, 2 observations | holds |
| `replay` | 2 sessions, 3 nodes, 2 sequence numbers, 2 table slots | holds |
| `conn` | 2 workers, 2 connections, 2 read generations before the last lock | holds |
| `drivers` | each driver, 2 or 3 calls, 2 connections, 1 log line, 1 wait cut short, 2 host keys | holds |
| `text` | 12 kinds of device, 3 modes, 3 guests, 4 agents, generated commands and replies | holds |

What they show, part by part:

- `gate`: an approval that names its chain entry executes at most once over
  requests, retries and crashes (`SingleUse`); no device action precedes its
  intent; a reply is true (`ReplyIsTrue`): nobody gets plain output for an
  execution whose closer is missing, and a refusal costs nothing; after a lost
  closer nothing more is dispatched until a restart; every request is answered
  if driver calls return.
- `chain`: no crash, failed statement, failed COMMIT or power loss leaves a
  session that does not verify; one federation id has one hash; what callers
  were told is what is committed. `chain_damage`: a session that verifies
  holds acknowledged entries only, and a lost or edited entry, or a garbled body
  that can be bound, is reported for ever, whatever is appended. The exception
  are lost newest entries: an append takes their numbers again.
- `approval`: one execution per proposal even when a failed record write led
  to a second APPROVAL entry, and the approver reported is the approver of
  record, both unless a submit could not open the record; the record is what its
  approver signed; `submit_mu` is released.
- `policy`: no mutation is sent while an overlapping one may still be acting;
  what the journal calls done is settled; budgets and expiries hold across
  restarts and a clock set back.
- `session`: keys are derived from exactly one handshake, numbers grow, a v3
  observation stays in its session.
- `replay`: nothing is accepted twice.
- `conn`: no connection is used by two threads, used after its teardown,
  leaked, or reported as verified by a read on another one; a shutdown ends if
  driver calls return.
- `drivers`: `no_dispatch` is never set once a byte has left; success means the
  device ran this call and the body is its answer, unless a drain on this
  channel had ended too early (or a Wazuh buffer was not written); no call runs
  twice; but for such a drain, the JunOS driver commits only if a check passed
  since the candidate was opened or rolled back, though it may have been edited
  since the check; a
  password is shown only after the host key passed, and a failed connect
  leaves nothing open.
- `text`: see the comments of CommandPath's properties. In short: lists of
  protected guests and agents that parse and fit, of entries that are not
  skipped, are in force or the daemon does not start; without any list an
  enforcing node sends no line that names a guest; no quoting, listing or
  encoding gets a protected or BLACK command to a device, or a refused one
  through, but for the reboot that an owner policy granted; what is signed
  holds no secret in a shape that the scrubber replaces, and only allowed keys
  where a filter applies; an accepted PBS or Zammad operation has one spelling.

Type invariants and five more properties (`CacheFollowsChain`,
`UnchangedOnError`, `OneEntry`, `RecordStable`, `DestroyedIsQuiet`) are proved
below for every value of the constants; the runs do not repeat them.

### Where code and text disagree

- `chain_headless`: `virp_chain_init()` says that a session with entries and no
  head is left "failing virp_chain_verify_session permanently"; the next append
  writes a fresh head and it verifies.
- `approval_misread`: `docs/VIRP-CLAIMS.md` says that an approved apply executes
  exactly once. `virp_approval_submit()` takes any failure to read the record
  for its absence; a second APPROVAL entry replaces the record, and the replay
  guard, which counts intents per entry, lets the proposal run again.

PROJECT.json quotes the lines. Two more disagreements are stated as properties
of the modules; TLC refutes each in a few steps when a configuration names it:

- `FailsIfSessionDied` (Session): "If the session died while the command ran,
  fail". A v2 request checks at signing time that *a* session is active, not
  that it is its own.
- `NothingAfterDestroy` (DeviceConn): a worker's `sem_post()` comes after the
  count that lets the drain, and then `sem_destroy()`, go ahead.

Three are not stated as properties. `virp_driver.h` says that a body which is a
prefix "must never be presented as a complete response"; the write callbacks of
the Zammad, Wazuh and LibreNMS drivers drop what does not fit and the call
succeeds with `output_truncated` false. `SCRUB-DESIGN.md:71` says that scrubbing
is idempotent; a body that ends in a BEGIN line without a newline gets a marker
on that line, and another one on the next pass. And `docs/VIRP-SPEC-RFC-v2.md` has idle sessions
reset, and a session that was bound and never used to sign has no
`last_activity_ns` and does not time out (`Expired` of Session).

### Bounds

Two threads of a kind are enough for every race here: each shared object has
one lock or one slot, and a property relates two users of it. The other
bounds are chosen so that a limit is reached: table slots fewer than nodes
(eviction, and exhaustion by one session), budgets smaller than the number of
workers' attempts, three rows so that an intent, its closer and one more fit in
one session or are split over two, two sessions so that one replaces the other,
`MaxConn = 2` so that a connection can be replaced in use. Clocks have two
values (three with the end of the longest grant): before and after each
expiry. `MaxGen` in DeviceConn bounds new requests and probes, not the steps
of those under way. A handshake message is a parameter of its action and is not
consumed by it, so any message sent so far may arrive late or twice. Symmetry
is used for workers, nodes, sessions and host keys in runs without liveness
properties.

`drivers`: three calls, so that a call can be disturbed by the remains of one
before it and a commit can follow a check with another call in between; two for
the ASA and IOS drivers (`Brief`), whose calls have many steps and no state that
a third would need; two connections, so that one can replace a dead one; one log
line, from the PAN-OS device (`Chatty`), whose keepalive thread reads beside
`execute()`. On one channel one wait may end while the device still owes an
answer or with items unread (`MaxLate = 1`), which is enough for the tail of a
call to reach the next. `SuccessIsOwn` then excuses what is read on that channel
(`result.stale`), because the prompt that ends a reply looks like any other and
the code cannot tell; on a channel where every drain reached the end it must
hold. The bound on log lines is also what `SuccessIsOwn` assumes of the device:
two log lines of the same text, one after each probe, are learned as the prompt
and a third ends a reply. REST servers may answer without a body; the Wazuh
driver's buffer is then not written, which the property excuses by name. Trust
on first use is on and the owner policy permits a reboot, which are the settings
with more behaviours. A libcurl connect error is taken to mean that nothing was
sent, and libcurl to send a request once, as the drivers do.

`text`: the reply buffer holds 11 words, so that bodies fit, fit before their
marks and not after, or are cut; a Proxmox line may have 5 tokens and one more;
two protected ids fit and three do not. A guest's number is written plain, with
one zero in front, and with so many that it has ten digits, one more than
`prox_vmid_digits()` reads. Every row of every table occurs with an
argument, a longer word, blanks, a capital and a separator, every token of a
Linux line in each quoting, every path segment encoded up to twice. Longer
lines and deeper mixtures of quoting are not generated.

`CHECK_DEADLOCK FALSE` is set where a behaviour really ends: all requests
answered (gate), all submits done (approval), the daemon destroyed (conn), the
clock of the LRU at its bound (replay), calls and connections used up
(drivers), a daemon that refused to start (text).

### Fairness

- GateApply: weak fairness of each request's `DaemonStep`, the steps of the
  daemon itself: worker threads are scheduled. That a driver call returns is no
  fairness but the premise of `RequestsAnswered` (`DriverCallsReturn`), since
  the write loops of the SSH drivers retry `EAGAIN` without a bound. Nothing
  is assumed of arrivals, expiry or restarts. Weak fairness is enough because
  there are finitely many requests, each arriving once, so no waiter can be
  passed over for ever.
- Approval: weak fairness of each worker's submit; `LockReleased` does not
  promise that a particular waiter gets the mutex, which pthreads do not.
- DeviceConn: weak fairness of each worker once it runs, of the watchdog and
  of the main thread after the signal, outside driver calls. No fairness of
  `Accept`, `Lock` or the signal itself. `ShutdownEnds` has the same premise as
  `RequestsAnswered`: the drain's deadline lets the main thread give up on a
  wedged worker, but one that hangs in a driver call holds `exec_mutex`, for
  which the watchdog waits (`virp_onode.c:6157`), and the main thread joins the
  watchdog (7135).

## The proofs

The proof modules extend the specification they are about and hold for every
value of the constants that meets the named assumptions. None of the bounds
above is used: `MaxTick`, `MaxRows`, `MaxTime`, `MaxConn`,
`MaxGen` appear only in guards.

- **GateProofs**, of GateApply and Approval: `GateTypeCorrect`, `GateSingleUse`,
  `IntentPrecedesDispatch`, `RepliesAreTrue`, `RefusalIsFree`,
  `LossIsVisible`. In the
  inductive invariant control points say whether the intent is committed
  (`Phase`), a request between the replay guard and its append holds the consume
  lock and has no rival intent (`Guarded`), so an approval whose record names a
  chain entry has one intent (`OneIntent`).
  Of the approval flow: `ApprovalTypeCorrect`, `ProposalsExecuteOnce`,
  `AttributionIsRight`, `RecordsAreSigned`, `RacingSubmitsOneEntry`,
  `RecordsAreFinal`. Its invariant (`Lifecycle`) has the lock's owner, that the
  section under `submit_mu` works on a proposal without a record, that its own
  entry is the last one, and that an executed proposal's record is the one its
  intent names. All but the types and `RecordsAreSigned` are about proposals whose record every
  submit could open, or, as `RecordsAreFinal`, name the misread as the one
  exception.
- **TrustChainProofs**: `ChainTypeCorrect`, `ChainAlwaysVerifies`,
  `FederationIdsUnique`, `AcknowledgedIsCommitted`, `ChainImplementsLog`,
  without outside damage. The invariant says of each of the three databases
  that it is *good*: rows are numbered from 0 without a gap, linked, bound to
  their bodies, headed by the newest, with at most one intent per approval and
  closers that cite an intent. An append to a good database gives a good one.
  Two more hold of a file that is changed from outside. `ChainValidIsAuthentic`:
  MACs are unforgeable, so an entry with a valid one was acknowledged at its
  place (`AuthInv`), whatever is lost or garbled. `ChainDamageIsReported`,
  without power loss: an entry that was lost, edited or whose body was garbled
  stays missing or fails its own checks, and lies under the head if there is one
  (`DamageInv`). No append mends it, except that the numbers of lost newest
  entries are taken again.
- **DeviceConnProofs**: `ConnTypeCorrect`, `CallsExclusive`,
  `NoConnectionLost`, `LateReadVerifiesNothing`, `TeardownIsQuiet`, for a
  finite pool of any size. The invariant says at which control points a thread
  owns `exec_mutex` (`Owner`), that an open connection outside the slot is in
  one pair of hands (`Hands`), that the slot is stable under a worker that took
  its connection (`Using`), and that a finished read whose generation is still
  current ran on what the slot holds (`Generations`). The teardown also needs
  that `workers_live` is the number of live workers, so that 0 means none.

- **PolicyJournalProofs**: `PolicyTypeCorrect`, `MutationsAreSerial`,
  `DoneIsFinal`, `BudgetsAreKept`, `ExpiryIsFinal`. A worker between its
  reservation and its finish owns one pending row and believes it settled only
  when it is (`Tickets`); rows that are done or reconciled are settled
  (`ClosedIsSettled`); of two overlapping mutations the earlier row was closed
  before the later one was reserved (`Serial`), from which
  `NoRepeatWhileOpen` follows. For the budgets the counters must be the
  number of rows (`Counted`), for the expiry `last_time` must be at least every
  `created` (`CreatedInOrder`).
- **ObservationProofs**, of Session and ReplayStore: `SessionTypeCorrect`,
  `NumbersGrow`, `KeysBindHandshakes`, `V3Stays`. `Sound` says of the session
  structure that while it is in use it is the newest one acknowledged, that its
  transcript is as long as its state says, and that its counter is past every
  number signed in it. It holds of the structure before and after
  `virp_session_check_timeouts()`, which every handler calls first, and a
  session that was reset can not come back because its id is not the newest.
  Of the store: `StoreTypeCorrect`, `ReplaySafety`, `ErrorLeavesStore`.
  `NoReplay` needs that every accepted message of the current session is
  covered by a mark (`Covered`), which needs that the file on disk is the
  table (`DiskIsTable`), since a restart reads it back. Eviction is the
  delicate step: the victim belongs to another session, so no mark of the
  current one is lost.
- **DriversProofs**: `DriversNotSentIsTrue` and `DriversRanAtMostOnce`, for all
  twelve drivers, any number of calls, connections, host keys and log lines,
  late and empty replies and drains that end early included. A handler sends a line or learns a prompt
  through the shared channel steps and comes back at `call.then`, so the
  invariants speak of the handler a driver is in (`Place`) and the channel steps
  keep them. `Flow`: before a handler's first write nothing of its call was
  sent, and behind it no path reports `no_dispatch`. `Lines` and `Fresh`: every
  line in flight, run or noted belongs to a call made so far, a call's lines are
  in the order of its steps, and of the step that is about to be sent there is
  no copy anywhere.
- **DriversSessionProofs** extends it with what holds of a connection.
  `DriversConnectIsClean`, as general: what a `connect()` has acquired is what
  the stages before it acquire, and the key of this session was accepted when
  the password stage is reached (`Holds`). `DriversCommitFollowsCheck`, for any
  number of late answers, unless a drain on the channel had ended early
  (`Blind`). Of every other
  driver no line, call or waiter ever holds a commit (`Mute`). Of JunOS, `Gate`
  ties `check_ok` to the device over what is in flight: while the flag is up and
  no rollback is being handled, a check passed since the candidate was opened or
  rolled back and no `configure` or `rollback` is on its way; a check in progress has only itself in flight, so
  its success is the device's; a commit in flight is the first line.
  `NoneAssumption` says that the value for "no command" is not `commit`.
- **CommandPathProofs**: `DeclaredListsHold`, `OperationsHaveOneSpelling`,
  `ProtectedStayHome`, `UnlistedIsRefused`, `NeverTransmitted`,
  `QuotingIsNoPass`, `FilteredStaysAllowlisted`, for every devices file and every command and reply
  of the shapes that `InputsAssumption` names. The loader's invariant is that the lists of the
  entries read so far are in force unless the load has failed (`Loading`);
  a request that is on its way passed separator policy, classifier and the
  driver's test with the lists that are in force now (`Passed`), which is where
  the three sending theorems start. Under an owner policy the catalog stands in
  for the classifier: of what it grants only `qm` and `pct` lines name a guest,
  and the driver's own test reads those. They then follow the scanners: whatever names
  a guest in a `qm`, `pct`, `vzdump` or `pvesh` line is among the fields that
  `linux_prox_self_protect()` looks at, and whatever halts a host is a word
  that `linux_black_self_harm()` sees. `QuotingIsNoPass` compares a line with
  the same line without its quotes: the scans for ids, flags and path segments
  read a token by its parts and never by its quoting (`UnquotedReads`,
  `SameScans`), and the tests that do look at the quoting ask for a bare word,
  which a permitted line has already; so the guard gives the same verdict and
  the table row stays permitted (`SameGuard`, `SameRow`). What is said of the joined words of
  a line needs an induction over its tokens, made from the least element of a
  set of numbers (`Least`) since an induction rule over formulas is not
  available; it gives what `Concat` keeps (`ConcatKeeps`), and the filter
  theorem uses the same fact for the lines of a body. The grammars need no
  induction: the form of a Zammad character is a function of the character, and
  the strict order of PBS keys leaves one parameter list per set of values.
  `AsaRowsAssumption` states that no pattern of the ASA table has two tiers,
  which TLC evaluates from the table.

Only model-checked:

- all liveness (`RequestsAnswered`, `LostCloserStopsDispatch`, `LockReleased`,
  `ShutdownEnds`), which TLAPS does not reach or which is stated as a nested
  temporal formula;
- `SuccessIsOwn` of Drivers, which follows every item the device printed through
  channel, buffer and body and needs an invariant that orders items across all
  of them. It depends on the bound on log lines as well (see the bounds of
  `drivers`), so it is not a theorem for every `MaxLogs`;
- of CommandPath `SecretsNeverSigned`, whose rules cut
  words into characters, which the provers can not look into.

`QuotingNeverPermits` leaves out lines with a token that is held together by
its quotes (`NeedsQuotes`): without them it is several tokens, another line.

## Not modelled

Cryptography is perfect: a MAC or signature is what it covers. Message layouts,
JSON syntax, report formats and log texts are left out everywhere.

Of the daemon:

- `handle_client()` is the dispatch of one parsed request to one handler. The
  handlers are actions; parsing, batch execution (a loop over single
  executions), health and listing, and the copying of node configuration into
  replies are not.
- Intents and their command quotas, chain signatures with their eras and
  epochs, read-only verifier handles, and the grammar and citation rules of
  federation artifacts (`fed_*`) are separate operations of `virp_chain.c`
  that share only the database with what TrustChain has.
- The turn validator is a sequential evaluation of parsed JSON whose result is
  one chain entry.
- `virp_write_file_durable()` is taken as atomic by Approval and ReplayStore,
  with the crash before or after its rename. Two processes that write one
  temporary name are not modelled.
- The tier ceilings of `effective_max_tier()`.
- The path of `onode_execute_legacy()` with `evidence_required` off, which only
  the tests take.

Of the drivers: what the FortiGate driver strips from a reply or clips at
`VIRP_OUTPUT_MAX` and its out-of-memory path, the fingerprint
and certificate checks of the REST drivers (libcurl does them), and the
payloads of GNS3 operations.

What can go wrong in code that is modelled and is not the subject of a property:

- a key derivation that fails leaves the session BOUND, which refuses HELLO and
  has no timeout, until a SESSION_CLOSE (`virp_transcript.c:253`);
- an approval whose lifetime has run out cannot be renewed, a new proposal is
  needed (`virp_approval.c:781`);
- two challenges for one proposal written at once share a temporary file name
  (`virp_approval.c:589`);
- `output_len` of the Zammad driver is what `snprintf()` would have written
  (`driver_zammad.c:1257`), and Drivers has no bytes;
- a channel that closes without an exit status reads as status 0
  (`driver_linux.c:582`);
- an unreadable `known_hosts` counts as empty and is written anew, without the
  lines of other hosts (`virp_ssh_hostkey.c:107`);
- an array key whose value is not an array, or an item that is not an object, is
  kept whole by the body filter (`virp_body_filter.c:328`, 331);
  `FilteredIsAllowlisted` names it as an exception;
- the BEGIN and END lines of a private key are kept verbatim by the scrubber
  (`virp_scrub.c:576-593`); `SecretsNeverSigned` names it as an exception;
- a guest id of more than nine characters, or inside a `--flag=value` token, is
  not read as one by `linux_prox_self_protect()` (`driver_linux.c:1475`);
- a list of protected ids written as a string is cut at 255 bytes without a
  word (`virp_onode_prod.c:182-192`), and the list of an entry that the loader
  skips is not registered; `DeclaredIsInForce` is about the others;
- the flag that makes an absent list fail closed is one for all devices;
- an edit of a JunOS candidate after `commit check` does not clear
  `commit_check_ok` (`driver_juniper.c:930-977`);
- a second `virp_body_filter_init()` would free rules in use
  (`virp_body_filter.c:152`); the daemon calls it once, before any worker.

The message codec and the Go codec are pure serialisation, which the
repository's round-trip and fuzz tests reach better than an abstract model. The
Python services (autopilot, API, broker, camera, TACACS receiver, cage tools)
are clients of the socket with state of their own. PROJECT.json lists every
part with its reason.

## Plan

1. *More of the daemon*: intents and quotas (`INSERT OR REPLACE` sets the
   counter back), chain signatures and eras, the tier ceilings, the
   chain-append admission rules of `handle_client()`.
2. *Around the daemon*: the camera's spool, TACACS reconciliation, the cage
   ledger.
3. *Composition*: GateApply over TrustChain's log instead of atomic records,
   and Approval's one-step apply as the abstract specification that
   GateApply implements.
4. *Proofs*: `SuccessIsOwn` of Drivers for fewer than three log lines.
