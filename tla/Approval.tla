----------------------------- MODULE Approval -----------------------------
(***************************************************************************)
(* propose -> challenge -> submit -> apply (virp_approval.c), the human    *)
(* approval of a command the tier gate blocks.  Challenges are files that  *)
(* any later challenge for the proposal overwrites; submits run in         *)
(* concurrent connection workers and serialise on submit_mu; the approval  *)
(* is first appended to the chain and then written as a record file, and   *)
(* the daemon may die, or the write fail, in between.                      *)
(*                                                                         *)
(* Apply is the whole of GateApply's approved path in one step: it takes   *)
(* an approval whose chain entry no committed intent names, executes, and  *)
(* may or may not record the OUTCOME.                                      *)
(*                                                                         *)
(* Abstracted: JSON, canonical bytes (a signature is what it signs), the   *)
(* command and device binding (a request that does not match is refused    *)
(* and changes nothing).  A file that cannot be opened is refused like a   *)
(* missing one, except where submit looks for an existing record: there it *)
(* counts as no record (SubmitMisreads).                                   *)
(***************************************************************************)
EXTENDS Naturals, Sequences

CONSTANTS
    Proposals,
    Workers,      \* connection workers serving APPROVAL_SUBMIT
    Keys,         \* approver keys that sign
    Enabled,      \* those enrolled and enabled in the approver registry
    None,
    TTL,          \* VIRP_APPROVAL_TTL_SECONDS, in clock ticks
    MaxTime,      \* bound on the clock
    MaxEntries    \* bound on APPROVAL entries per proposal

ASSUME KeysAssumption == Enabled \subseteq Keys
ASSUME TimeAssumption == TTL \in Nat /\ MaxTime \in Nat /\ MaxEntries \in Nat
ASSUME NoneAssumption == None \notin Workers \cup Keys \cup Proposals \cup Nat

VARIABLES
    now,
    proposal,    \* none, entry (on the chain), filed (record written) or lost
    challenge,   \* challenges/<id>.rec: its approved_at, or None
    signed,      \* the signatures approvers made
    entry,       \* APPROVAL chain entries [key, at], a sequence per proposal
    record,      \* approvals/<id>.rec: a set with at most one [key, at, entry]
    lossy,       \* a record write failed, or was cut short by a crash
    misread,     \* an existing record could not be opened by a submit
    intents,     \* <<proposal, entry>> named by a committed gate_intent
    executed,    \* how often the proposal's command was executed
    running,     \* proposals whose execution has not reported its outcome
    outcome,     \* proposals with an OUTCOME chain entry
    submit_mu,
    place, job,  \* per worker: control point, and the signature submitted
    answer       \* per worker: approver the caller was told, or None

approvalVars == <<now, proposal, challenge, signed, entry, record, lossy, misread,
                  intents, executed, running, outcome, submit_mu, place, job, answer>>

store == <<proposal, challenge, signed, entry, record, lossy, misread>>
applied == <<intents, executed, running, outcome>>
threads == <<submit_mu, place, job, answer>>

(* What an approver signs: the canonical payload of a challenge. *)
Signature(k, p, at) == [key |-> k, id |-> p, at |-> at]

ApprovalInit ==
    /\ now = 0
    /\ proposal = [p \in Proposals |-> "none"]
    /\ challenge = [p \in Proposals |-> None]
    /\ signed = {}
    /\ entry = [p \in Proposals |-> <<>>]
    /\ record = [p \in Proposals |-> {}]
    /\ lossy = {}
    /\ misread = {}
    /\ intents = {}
    /\ executed = [p \in Proposals |-> 0]
    /\ running = {}
    /\ outcome = {}
    /\ submit_mu = None
    /\ place = [w \in Workers |-> "idle"]
    /\ job = [w \in Workers |-> None]
    /\ answer = [w \in Workers |-> None]

-----------------------------------------------------------------------------
(* Proposing and challenging *)

(* The PROPOSAL entry is appended first ... *)
ProposeEntry(p) ==
    /\ proposal[p] = "none"
    /\ proposal' = [proposal EXCEPT ![p] = "entry"]
    /\ UNCHANGED <<now, challenge, signed, entry, record, lossy, misread, applied, threads>>

(* ... and the record second; if that fails the id is never used. *)
ProposeRecord(p) ==
    /\ proposal[p] = "entry"
    /\ \E end \in {"filed", "lost"} : proposal' = [proposal EXCEPT ![p] = end]
    /\ UNCHANGED <<now, challenge, signed, entry, record, lossy, misread, applied, threads>>

(* A challenge is written over an earlier one without any lock; it carries *)
(* the approval time the TTL counts from.                                  *)
Challenge(p) ==
    /\ proposal[p] = "filed"
    /\ p \notin outcome
    /\ challenge' = [challenge EXCEPT ![p] = now]
    /\ UNCHANGED <<now, proposal, signed, entry, record, lossy, misread, applied, threads>>

(* virp-tool: the approver signs the canonical bytes it was shown. *)
Sign(k, p) ==
    /\ challenge[p] # None
    /\ signed' = signed \cup {Signature(k, p, challenge[p])}
    /\ UNCHANGED <<now, proposal, challenge, entry, record, lossy, misread, applied, threads>>

-----------------------------------------------------------------------------
(* virp_approval_submit() *)

(* Up to submit_mu: L1, enrolment, and the signature over the challenge on *)
(* file now.                                                               *)
SubmitChecks(w, s) ==
    /\ place[w] \in {"idle", "done"}
    /\ s \in signed
    /\ s.key \in Enabled
    /\ s.id \notin outcome
    /\ s.at = challenge[s.id]
    /\ place' = [place EXCEPT ![w] = "lock"]
    /\ job' = [job EXCEPT ![w] = s]
    /\ answer' = [answer EXCEPT ![w] = None]
    /\ UNCHANGED <<now, store, applied, submit_mu>>

Finish(w, a) ==
    /\ submit_mu' = None
    /\ place' = [place EXCEPT ![w] = "done"]
    /\ answer' = [answer EXCEPT ![w] = a]

(* L1 again, under the lock; a query that fails counts as consumed. *)
SubmitConsumed(w) ==
    /\ place[w] = "lock" /\ submit_mu = None
    /\ \E dbError \in BOOLEAN : dbError \/ job[w].id \in outcome
    /\ Finish(w, None)
    /\ UNCHANGED <<now, store, applied, job>>

(* Fault: the loser of the race is told that it is the approver. *)
SubmitExists_Caller(w) ==
    /\ place[w] = "lock" /\ submit_mu = None
    /\ job[w].id \notin outcome
    /\ record[job[w].id] # {}
    /\ Finish(w, job[w].key)
    /\ UNCHANGED <<now, store, applied, job>>

(* ALREADY_EXISTS: the answer is loaded from the record. *)
SubmitExists(w) ==
    /\ place[w] = "lock" /\ submit_mu = None
    /\ job[w].id \notin outcome
    /\ \E r \in record[job[w].id] : Finish(w, r.key)
    /\ UNCHANGED <<now, store, applied, job>>

(* Fault: the existing record is not looked for under the lock. *)
SubmitEnters_NoRecheck(w) ==
    /\ place[w] = "lock" /\ submit_mu = None
    /\ job[w].id \notin outcome
    /\ submit_mu' = w
    /\ place' = [place EXCEPT ![w] = "append"]
    /\ UNCHANGED <<now, store, applied, job, answer>>

SubmitEnters(w) ==
    /\ place[w] = "lock" /\ submit_mu = None
    /\ job[w].id \notin outcome
    /\ record[job[w].id] = {}
    /\ submit_mu' = w
    /\ place' = [place EXCEPT ![w] = "append"]
    /\ UNCHANGED <<now, store, applied, job, answer>>

(* The probe of an existing record asks only whether read_file() succeeds: *)
(* one that cannot be opened now (EMFILE, EACCES, EIO) counts as none, and *)
(* submit goes on to append and to write over it.                          *)
SubmitMisreads(w) ==
    /\ place[w] = "lock" /\ submit_mu = None
    /\ job[w].id \notin outcome
    /\ record[job[w].id] # {}
    /\ misread' = misread \cup {job[w].id}
    /\ submit_mu' = w
    /\ place' = [place EXCEPT ![w] = "append"]
    /\ UNCHANGED <<now, proposal, challenge, signed, entry, record, lossy, applied,
                   job, answer>>

(* The APPROVAL chain entry. *)
SubmitAppends(w) ==
    /\ place[w] = "append"
    /\ Len(entry[job[w].id]) < MaxEntries
    /\ entry' = [entry EXCEPT ![job[w].id] =
                    Append(@, [key |-> job[w].key, at |-> job[w].at])]
    /\ place' = [place EXCEPT ![w] = "write"]
    /\ UNCHANGED <<now, proposal, challenge, signed, record, lossy, misread, applied,
                   submit_mu, job, answer>>

(* Fault: the error return forgets pthread_mutex_unlock(). *)
AppendFails_KeepsLock(w) ==
    /\ place[w] = "append"
    /\ place' = [place EXCEPT ![w] = "done"]
    /\ UNCHANGED <<now, store, applied, submit_mu, job, answer>>

AppendFails(w) ==
    /\ place[w] = "append"
    /\ Finish(w, None)
    /\ UNCHANGED <<now, store, applied, job>>

(* Fault: the record names the challenge on file, not the one signed. *)
Bound_Reloaded(w) ==
    [key |-> job[w].key, at |-> challenge[job[w].id],
     entry |-> Len(entry[job[w].id])]

(* The record carries the signature, the signed time and the entry hash. *)
Bound(w) ==
    [key |-> job[w].key, at |-> job[w].at, entry |-> Len(entry[job[w].id])]

SubmitWrites(w) ==
    /\ place[w] = "write"
    /\ record' = [record EXCEPT ![job[w].id] = {Bound(w)}]
    /\ Finish(w, job[w].key)
    /\ UNCHANGED <<now, proposal, challenge, signed, entry, lossy, misread, applied, job>>

(* The record write fails: the entry stays on the chain. *)
WriteFails(w) ==
    /\ place[w] = "write"
    /\ lossy' = lossy \cup {job[w].id}
    /\ Finish(w, None)
    /\ UNCHANGED <<now, proposal, challenge, signed, entry, record, misread, applied, job>>

-----------------------------------------------------------------------------
(* Apply, time and crashes *)

(* virp_approval_verify(): TTL from the challenge's time, and the key must *)
(* still be enabled.  The replay guard asks the chain for an intent naming *)
(* this approval entry.                                                    *)
Apply(p, r) ==
    /\ r.key \in Enabled
    /\ now <= r.at + TTL
    /\ <<p, r.entry>> \notin intents
    /\ intents' = intents \cup {<<p, r.entry>>}
    /\ executed' = [executed EXCEPT ![p] = @ + 1]
    /\ running' = running \cup {p}
    /\ UNCHANGED <<now, store, outcome, threads>>

(* approval_emit_outcome(): outside submit_mu, and its append may fail. *)
Outcome(p) ==
    /\ p \in running
    /\ running' = running \ {p}
    /\ outcome' \in {outcome, outcome \cup {p}}
    /\ UNCHANGED <<now, store, intents, executed, threads>>

Tick ==
    /\ now < MaxTime
    /\ now' = now + 1
    /\ UNCHANGED <<store, applied, threads>>

(* The daemon dies: files and chain stay, what the workers did does not. *)
Crash ==
    /\ lossy' = lossy \cup {job[w].id : w \in {v \in Workers : place[v] = "write"}}
    /\ proposal' = [p \in Proposals |-> IF proposal[p] = "entry" THEN "lost" ELSE proposal[p]]
    /\ running' = {}
    /\ submit_mu' = None
    /\ place' = [w \in Workers |-> "idle"]
    /\ job' = [w \in Workers |-> None]
    /\ answer' = [w \in Workers |-> None]
    /\ UNCHANGED <<now, challenge, signed, entry, record, misread, intents, executed, outcome>>

Submit(w) ==
    \/ SubmitConsumed(w) \/ SubmitExists(w) \/ SubmitEnters(w) \/ SubmitMisreads(w)
    \/ SubmitAppends(w) \/ AppendFails(w)
    \/ SubmitWrites(w) \/ WriteFails(w)

ApprovalNext ==
    \/ \E p \in Proposals : ProposeEntry(p) \/ ProposeRecord(p) \/ Challenge(p)
    \/ \E p \in Proposals, k \in Keys : Sign(k, p)
    \/ \E w \in Workers, s \in signed : SubmitChecks(w, s)
    \/ \E w \in Workers : Submit(w)
    \/ \E p \in Proposals : Outcome(p) \/ \E r \in record[p] : Apply(p, r)
    \/ Tick
    \/ Crash

ApprovalSpec == ApprovalInit /\ [][ApprovalNext]_approvalVars

(* A worker inside submit keeps running. *)
FairApprovalSpec == ApprovalSpec /\ \A w \in Workers : WF_approvalVars(Submit(w))

-----------------------------------------------------------------------------
(* Properties *)

Signatures == [key : Keys, id : Proposals, at : Nat]

StoreTypes ==
    /\ proposal \in [Proposals -> {"none", "entry", "filed", "lost"}]
    /\ challenge \in [Proposals -> Nat \cup {None}]
    /\ signed \subseteq Signatures
    /\ lossy \subseteq Proposals
    /\ misread \subseteq Proposals

RecordTypes ==
    /\ entry \in [Proposals -> Seq([key : Keys, at : Nat])]
    /\ record \in [Proposals -> SUBSET [key : Keys, at : Nat, entry : Nat]]
    /\ \A p \in Proposals : \A r \in record[p] : r.entry \in 1..Len(entry[p])

ApplyTypes ==
    /\ intents \subseteq Proposals \X Nat
    /\ executed \in [Proposals -> Nat]
    /\ running \subseteq Proposals
    /\ outcome \subseteq Proposals

ThreadTypes ==
    /\ submit_mu \in Workers \cup {None}
    /\ place \in [Workers -> {"idle", "lock", "append", "write", "done"}]
    /\ job \in [Workers -> Signatures \cup {None}]
    /\ answer \in [Workers -> Keys \cup {None}]

(* The one type invariant of the module: in particular, a record names an  *)
(* entry of its proposal that is on the chain.                             *)
ApprovalTypeOK == now \in Nat /\ StoreTypes /\ RecordTypes /\ ApplyTypes /\ ThreadTypes

(* docs/VIRP-CLAIMS.md C20: "An approved apply executes exactly once".     *)
(* The replay guard only knows approval ENTRIES, and submit writes a       *)
(* second one when it cannot open the record of the first.                 *)
ApprovedExecutesOnce == \A p \in Proposals : executed[p] <= 1

(* A proposal whose record every submit could open is executed at most     *)
(* once, also when a failed or interrupted submit left an entry without a  *)
(* record and a later one appended another.                                *)
OneExecutionPerProposal == \A p \in Proposals \ misread : executed[p] <= 1

(* "so no caller can log or report the loser as the approver": whoever is  *)
(* told an approver is told the approver of record, as long as every       *)
(* submit could open the record.                                           *)
ApproverOfRecord ==
    \A w \in Workers : answer[w] # None /\ job[w].id \notin misread =>
        \E r \in record[job[w].id] : r.key = answer[w]

(* The approver of record signed exactly the time the record carries, and  *)
(* the chain entry it names says the same, although challenges may be      *)
(* overwritten at any moment.                                              *)
RecordIsSigned ==
    \A p \in Proposals : \A r \in record[p] :
        /\ Signature(r.key, p, r.at) \in signed
        /\ entry[p][r.entry] = [key |-> r.key, at |-> r.at]

(* "two concurrent submits for one proposal produce exactly one APPROVAL   *)
(* chain entry", as long as no record write failed or was cut short, and   *)
(* no record could not be opened.                                          *)
OneEntry == \A p \in Proposals \ (lossy \cup misread) : Len(entry[p]) <= 1

(* An approval record, once written, is replaced only by a submit that     *)
(* could not open it.                                                      *)
RecordStable ==
    [][\A p \in Proposals \ misread : record[p] # {} => record'[p] = record[p]]_approvalVars

(* submit_mu is always released again: no return path of submit keeps it.   *)
(* (A waiting submit may still be overtaken: the mutex is not fair.)       *)
LockReleased == submit_mu # None ~> submit_mu = None
===========================================================================
