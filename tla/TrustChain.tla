---------------------------- MODULE TrustChain ----------------------------
(***************************************************************************)
(* The trust chain (virp_chain.c): per session a hash-linked list of       *)
(* entries and one authenticated head row, with artifact bodies beside     *)
(* them, in an SQLite database written by one connection under the chain   *)
(* lock.  An append inserts entry, head and body in one transaction.       *)
(*                                                                         *)
(* A database value is a record: rows (per session a partial function from *)
(* sequence numbers to entries), heads, bodies (what is stored for an      *)
(* artifact id and hash).  Hashes and MACs are represented by what they    *)
(* commit to, so they are injective, and a MAC is only made by the daemon. *)
(* The daemon keeps one connection; `view` is what it reads, `committed`   *)
(* what another process (or this one after a crash) reads and `synced`     *)
(* what a power loss leaves (WAL, synchronous=NORMAL).                     *)
(*                                                                         *)
(* Abstracted: signature tier and native epochs, canonical-string checks,  *)
(* timestamps, milestones (written, never read).                           *)
(***************************************************************************)
EXTENDS Naturals, FiniteSets

CONSTANTS
    Sessions,
    Kinds,          \* the artifact types external callers submit
    Ids, Versions,  \* artifact ids and the bodies submitted under one id
    Approvals,      \* approval entry hashes an intent may cite
    NoRef,          \* nothing cited
    MaxRows,        \* bound on the acknowledged appends
    Faults          \* "power": power loss; "damage": changes outside the daemon

ASSUME RefAssumption == NoRef \notin Approvals
ASSUME KindsAssumption ==
    Kinds \subseteq {"observation", "fed_observation", "comparator_verdict"}
ASSUME MaxRowsAssumption == MaxRows \in Nat
ASSUME VersionsAssumption == Versions \subseteq Nat \ {0}

VARIABLES
    view, committed, synced,
    tx,        \* "idle", or "open" after a COMMIT that failed
    acked,     \* entry hashes returned to callers with VIRP_OK
    damaged,   \* <<session, sequence>> of entries changed outside the daemon
    headless,  \* sessions that once had entries and no head record
    reply      \* result of the last append

vars == <<view, committed, synced, tx, acked, damaged, headless, reply>>

-----------------------------------------------------------------------------
(* Entries, heads and bodies *)

(* ver stands for the body's own content, ref for what the body cites; *)
(* version 0 is one nobody submitted.                                  *)
Artifact(k, i, v, r) == [kind |-> k, id |-> i, ver |-> v, ref |-> r]

ArtifactHash(a) == <<a.ver, a.ref>>

(* The key of the artifacts table. *)
BodyKey(a) == <<a.id, ArtifactHash(a)>>

Genesis(s) == <<s>>

(* sha256 over build_canonical_json(): every field but hash and MAC. *)
Canonical(s, n, p, a) == <<s, n, p, a>>

Row(s, n, p, a) ==
    [prev |-> p, art |-> a, hash |-> Canonical(s, n, p, a), mac |-> Canonical(s, n, p, a)]

HeadRow(s, n, h) == [seq |-> n, hash |-> h, mac |-> <<s, n, h>>]

Rows(d) == UNION {{<<s, n>> : n \in DOMAIN d.rows[s]} : s \in Sessions}

RowAt(d, e) == d.rows[e[1]][e[2]]

EntryHashes(d) == {RowAt(d, e).hash : e \in Rows(d)}

(* stmt_get_last: the next sequence number and the hash to link to. *)
NextSeq(d, s) ==
    IF DOMAIN d.rows[s] = {} THEN 0
    ELSE 1 + CHOOSE n \in DOMAIN d.rows[s] : \A m \in DOMAIN d.rows[s] : m <= n

PrevHash(d, s) ==
    IF NextSeq(d, s) = 0 THEN Genesis(s) ELSE d.rows[s][NextSeq(d, s) - 1].hash

(* Bodies are kept as the hash of their bytes.  Two values no submission has: *)
(* other bytes, and bytes that chain_verify_binding_locked() does not hold    *)
(* against the commitment, an empty body or one at the length limit           *)
(* (VIRP_CHAIN_ARTIFACT_CONTENT_MAX), which may be a prefix.                  *)
OtherBytes == <<0, NoRef>>
Unbindable == <<0>>

(* A body is stored that parses. *)
Readable(d, a) ==
    BodyKey(a) \in DOMAIN d.bodies /\ d.bodies[BodyKey(a)] = ArtifactHash(a)

AtMostOne(S) == \A e, f \in S : e = f

-----------------------------------------------------------------------------
(* Verification *)

(* Fault: a retained body is not rehashed. *)
BindingOk_NotRehashed(d, a) == TRUE

(* virp_chain_type_is_indirect: the hash commits to an observation that the *)
(* chain does not hold.                                                     *)
Indirect(a) == a.kind = "comparator_verdict"

(* chain_verify_binding_locked: only a retained body that could be bound and *)
(* does not hash to its commitment is a failure.                             *)
BindingOk(d, a) ==
    BodyKey(a) \in DOMAIN d.bodies /\ ~Indirect(a)
        => d.bodies[BodyKey(a)] \in {ArtifactHash(a), Unbindable}

IntentsFor(d, x) ==
    {e \in Rows(d) : LET a == RowAt(d, e).art IN
        a.kind = "gate_intent" /\ a.ref = x /\ Readable(d, a)}

ClosersOf(d, h) ==
    {e \in Rows(d) : LET a == RowAt(d, e).art IN
        a.kind = "closer" /\ a.ref = h /\ Readable(d, a)}

(* chain_grade_intent_locked: no double spend, no second disposition. *)
IntentOk(d, r) ==
    /\ Readable(d, r.art) /\ r.art.ref # NoRef
         => AtMostOne(IntentsFor(d, r.art.ref))
    /\ AtMostOne(ClosersOf(d, r.hash))

(* chain_grade_closer_locked: the cited hash is a gate_intent entry. *)
CloserOk(d, r) ==
    Readable(d, r.art) /\ r.art.ref # NoRef =>
        \E e \in Rows(d) : RowAt(d, e).hash = r.art.ref
                           /\ RowAt(d, e).art.kind = "gate_intent"

(* expected_prev of the verification walk. *)
ExpectedPrev(d, s, n) == IF n = 0 THEN Genesis(s) ELSE d.rows[s][n - 1].hash

(* Fault: the HMAC of an entry is not compared. *)
RowOk_NoHmac(d, s, n) ==
    LET r == d.rows[s][n]
    IN /\ r.prev = ExpectedPrev(d, s, n)
       /\ r.hash = Canonical(s, n, r.prev, r.art)
       /\ BindingOk(d, r.art)

(* One step of chain_verify_locked()'s walk. *)
RowOk(d, s, n) ==
    LET r == d.rows[s][n]
    IN /\ r.prev = ExpectedPrev(d, s, n)
       /\ r.hash = Canonical(s, n, r.prev, r.art)
       /\ r.mac = Canonical(s, n, r.prev, r.art)
       /\ BindingOk(d, r.art)
       /\ r.art.kind = "gate_intent" => IntentOk(d, r)
       /\ r.art.kind = "closer" => CloserOk(d, r)

(* chain_verify_locked over 0..head_seq, completeness included. *)
WalkOk(d, s) ==
    \A n \in 0..d.heads[s].seq : n \in DOMAIN d.rows[s] /\ RowOk(d, s, n)

(* chain_verify_session_locked with K_chain: the verdict on a session. *)
VerifySession(d, s) ==
    /\ s \in DOMAIN d.heads
    /\ d.heads[s].mac = <<s, d.heads[s].seq, d.heads[s].hash>>
    /\ WalkOk(d, s)
    /\ d.rows[s][d.heads[s].seq].hash = d.heads[s].hash

-----------------------------------------------------------------------------
(* Append *)

Empty == [rows   |-> [s \in Sessions |-> [n \in {} |-> {}]],
          heads  |-> [s \in {} |-> {}],
          bodies |-> [a \in {} |-> {}]]

Init ==
    /\ view = Empty /\ committed = Empty /\ synced = Empty
    /\ tx = "idle"
    /\ acked = {}
    /\ damaged = {} /\ headless = {}
    /\ reply = "none"

Extended(f, k, v) == [x \in DOMAIN f \cup {k} |-> IF x = k THEN v ELSE f[x]]

(* INSERT OR IGNORE: a body already stored under the pair is left alone. *)
Stored(bodies, a) ==
    IF BodyKey(a) \in DOMAIN bodies THEN bodies
    ELSE Extended(bodies, BodyKey(a), ArtifactHash(a))

(* Fault: the head row is left where it was. *)
Inserted_StaleHead(d, s, a, body) ==
    LET n == NextSeq(d, s)
        r == Row(s, n, PrevHash(d, s), a)
    IN [rows   |-> [d.rows EXCEPT ![s] = Extended(@, n, r)],
        heads  |-> IF n = 0 THEN Extended(d.heads, s, HeadRow(s, n, r.hash)) ELSE d.heads,
        bodies |-> IF body THEN Stored(d.bodies, a) ELSE d.bodies]

(* Fault: the newest sequence number is taken again. *)
Inserted_Overwrites(d, s, a, body) ==
    LET n == IF NextSeq(d, s) = 0 THEN 0 ELSE NextSeq(d, s) - 1
        r == Row(s, n, PrevHash(d, s), a)
    IN [rows   |-> [d.rows EXCEPT ![s] = Extended(@, n, r)],
        heads  |-> Extended(d.heads, s, HeadRow(s, n, r.hash)),
        bodies |-> IF body THEN Stored(d.bodies, a) ELSE d.bodies]

(* The database after INSERT, head upsert and, where a body is submitted, *)
(* the body store.                                                        *)
Inserted(d, s, a, body) ==
    LET n == NextSeq(d, s)
        r == Row(s, n, PrevHash(d, s), a)
    IN [rows   |-> [d.rows EXCEPT ![s] = Extended(@, n, r)],
        heads  |-> Extended(d.heads, s, HeadRow(s, n, r.hash)),
        bodies |-> IF body THEN Stored(d.bodies, a) ELSE d.bodies]

(* Fault: the conflict query reads the stored bodies, not the entries. *)
Gate5Conflict_Bodies(d, a) ==
    /\ a.kind = "fed_observation"
    /\ \E b \in DOMAIN d.bodies : b[1] = a.id /\ b[2] # ArtifactHash(a)

(* GATE 5: a federation id already committed under another artifact_hash. *)
Gate5Conflict(d, a) ==
    /\ a.kind = "fed_observation"
    /\ \E e \in Rows(d) : /\ RowAt(d, e).art.id = a.id
                           /\ ArtifactHash(RowAt(d, e).art) # ArtifactHash(a)

Room == Cardinality(acked) < MaxRows

(* What callers submit, with or without a body: observations and federation *)
(* items ...                                                                *)
Observations ==
    {<<Artifact(k, i, v, NoRef), b>> :
        k \in Kinds, i \in Ids, v \in Versions, b \in BOOLEAN}

(* ... and the records of the execution gate: an intent citing no approval, *)
(* or one that no intent cites yet, ...                                     *)
IntentRecords(d) ==
    {<<Artifact("gate_intent", Cardinality(Rows(d)), 1, x), TRUE>> :
        x \in {NoRef} \cup {y \in Approvals : IntentsFor(d, y) = {}}}

(* ... and the closer of an intent nothing closes yet. *)
OpenIntents(d) ==
    {e \in Rows(d) : RowAt(d, e).art.kind = "gate_intent"
                     /\ ClosersOf(d, RowAt(d, e).hash) = {}}

CloserRecords(d) ==
    {<<Artifact("closer", Cardinality(Rows(d)), 1, RowAt(d, e).hash), TRUE>> :
        e \in OpenIntents(d)}

Submissions(d) == Observations \cup IntentRecords(d) \cup CloserRecords(d)

NewHash(d, s, a) == Canonical(s, NextSeq(d, s), PrevHash(d, s), a)

(* COMMIT succeeded: the append is acknowledged.  It takes the number after *)
(* the last entry that is left, so that lost newest entries are no longer   *)
(* missed.                                                                  *)
AppendCommits(s, a, body) ==
    /\ tx = "idle" /\ Room /\ ~Gate5Conflict(view, a)
    /\ view' = Inserted(view, s, a, body)
    /\ committed' = view'
    /\ acked' = acked \cup {NewHash(view, s, a)}
    /\ damaged' = {e \in damaged : e[1] = s => e[2] < NextSeq(view, s)}
    /\ reply' = "ok"
    /\ UNCHANGED <<synced, tx, headless>>

(* DUPLICATE_MISMATCH; ROLLBACK. *)
AppendConflicts(s, a) ==
    /\ tx = "idle" /\ Gate5Conflict(view, a)
    /\ reply' = "duplicate_mismatch"
    /\ UNCHANGED <<view, committed, synced, tx, acked, damaged, headless>>

(* Fault: a failed body store still commits entry and head. *)
AppendRollsBack_KeepsEntry(s, a) ==
    /\ tx = "idle" /\ Room
    /\ view' = Inserted(view, s, a, FALSE)
    /\ committed' = view'
    /\ reply' = "error"
    /\ UNCHANGED <<synced, tx, acked, damaged, headless>>

(* Any failure before COMMIT: explicit ROLLBACK. *)
AppendRollsBack(s, a) ==
    /\ tx = "idle"
    /\ reply' = "error"
    /\ UNCHANGED <<view, committed, synced, tx, acked, damaged, headless>>

(* COMMIT failed and the transaction is still open: there is no ROLLBACK on *)
(* this path, and the connection goes on reading its own uncommitted rows.  *)
CommitFails(s, a, body) ==
    /\ tx = "idle" /\ Room /\ ~Gate5Conflict(view, a)
    /\ view' = Inserted(view, s, a, body)
    /\ tx' = "open"
    /\ reply' = "error"
    /\ UNCHANGED <<committed, synced, acked, damaged, headless>>

(* BEGIN inside the open transaction fails: every later append is refused. *)
AppendWedged(s, a) ==
    /\ tx = "open"
    /\ reply' = "error"
    /\ UNCHANGED <<view, committed, synced, tx, acked, damaged, headless>>

-----------------------------------------------------------------------------
(* Process and machine failures *)

(* The daemon dies (or is restarted); SQLite rolls the open transaction back. *)
Crash ==
    /\ view' = committed
    /\ tx' = "idle"
    /\ reply' = "none"
    /\ UNCHANGED <<committed, synced, acked, damaged, headless>>

(* A WAL checkpoint reaches the disk. *)
Checkpoint ==
    /\ "power" \in Faults
    /\ synced' = committed
    /\ UNCHANGED <<view, committed, tx, acked, damaged, headless, reply>>

(* Commits since the last checkpoint are gone, and their acknowledgements *)
(* with them (docs/DRAFT07-NOTES.md names this limit).                    *)
PowerLoss ==
    /\ "power" \in Faults
    /\ view' = synced
    /\ committed' = synced
    /\ tx' = "idle"
    /\ acked' = acked \cap EntryHashes(synced)
    /\ reply' = "none"
    /\ UNCHANGED <<synced, damaged, headless>>

(* Changes made to the database file outside the daemon, which does not *)
(* hold K_chain: entries or heads lost, entries edited, bodies garbled. *)
Rewritten(d) ==
    /\ "damage" \in Faults /\ tx = "idle"
    /\ view' = d /\ committed' = d
    /\ UNCHANGED <<synced, tx, acked, reply>>

LoseRow(s, n) ==
    /\ n \in DOMAIN view.rows[s]
    /\ Rewritten([view EXCEPT !.rows[s] =
                     [m \in DOMAIN view.rows[s] \ {n} |-> view.rows[s][m]]])
    /\ damaged' = damaged \cup {<<s, n>>}
    /\ UNCHANGED headless

LoseHead(s) ==
    /\ s \in DOMAIN view.heads
    /\ Rewritten([view EXCEPT !.heads =
                     [t \in DOMAIN view.heads \ {s} |-> view.heads[t]]])
    /\ headless' = IF DOMAIN view.rows[s] # {} THEN headless \cup {s} ELSE headless
    /\ UNCHANGED damaged

(* The plain hash can be recomputed, the MAC cannot. *)
EditRow(s, n) ==
    /\ n \in DOMAIN view.rows[s]
    /\ LET a == [view.rows[s][n].art EXCEPT !.ver = 0]
           h == Canonical(s, n, view.rows[s][n].prev, a)
       IN Rewritten([view EXCEPT !.rows[s][n] = [@ EXCEPT !.art = a, !.hash = h]])
    /\ damaged' = damaged \cup {<<s, n>>}
    /\ UNCHANGED headless

(* A body is garbled once, and counts as damage where it can be bound. *)
GarbleBody(s, n, b) ==
    /\ n \in DOMAIN view.rows[s]
    /\ Readable(view, view.rows[s][n].art)
    /\ Rewritten([view EXCEPT !.bodies[BodyKey(view.rows[s][n].art)] = b])
    /\ damaged' = IF b = Unbindable \/ Indirect(view.rows[s][n].art) THEN damaged
                  ELSE damaged \cup {<<s, n>>}
    /\ UNCHANGED headless

Next ==
    \/ \E s \in Sessions : \E p \in Submissions(view) :
           \/ AppendCommits(s, p[1], p[2])
           \/ AppendConflicts(s, p[1])
           \/ AppendRollsBack(s, p[1])
           \/ CommitFails(s, p[1], p[2])
           \/ AppendWedged(s, p[1])
    \/ Crash
    \/ Checkpoint
    \/ PowerLoss
    \/ \E s \in Sessions, n \in 0..MaxRows :
           \/ LoseRow(s, n)
           \/ GarbleBody(s, n, OtherBytes)
           \/ GarbleBody(s, n, Unbindable)
           \/ EditRow(s, n)
    \/ \E s \in Sessions : LoseHead(s)

Spec == Init /\ [][Next]_vars

-----------------------------------------------------------------------------
(* Properties *)

(* The one type invariant of the module. *)
TypeOK ==
    /\ tx \in {"idle", "open"}
    /\ reply \in {"none", "ok", "error", "duplicate_mismatch"}
    /\ damaged \subseteq Sessions \X Nat /\ headless \subseteq Sessions
    /\ \A d \in {view, committed, synced} : \A s \in Sessions :
         DOMAIN d.rows[s] \subseteq Nat /\ DOMAIN d.rows[s] # {} => s \in DOMAIN d.heads

(* Whatever the daemon, the COMMIT or the machine does, every session that *)
(* has entries verifies, under a head that names its newest entry: no      *)
(* crash point leaves an entry without its head ("the head can never lag   *)
(* or lead"), a double-spent approval or a closer without its intent.      *)
AlwaysVerifies ==
    \A d \in {view, committed, synced} : \A s \in Sessions :
        DOMAIN d.rows[s] # {} =>
            VerifySession(d, s) /\ d.heads[s].seq = NextSeq(d, s) - 1

(* GATE 5: one federation artifact_id names one artifact, in any session   *)
(* and also where only the commitment, not the body, was retained.         *)
OneHashPerFederationId ==
    \A e, f \in Rows(view) :
        LET a == RowAt(view, e).art
            b == RowAt(view, f).art
        IN a.kind = "fed_observation" /\ b.kind = "fed_observation" /\ a.id = b.id
             => ArtifactHash(a) = ArtifactHash(b)

(* An append answered with VIRP_OK survives a crash of the daemon.  One    *)
(* answered with an error is not on the chain others read.                 *)
AckedIsCommitted == EntryHashes(committed) = acked

(* No session with a valid verdict contains an entry the daemon did not    *)
(* write and acknowledge, whatever was done to the file.                   *)
ValidIsAuthentic ==
    \A s \in Sessions : VerifySession(committed, s) =>
        \A n \in 0..committed.heads[s].seq : committed.rows[s][n].hash \in acked

(* A lost or edited entry, or a garbled body that can be bound, is reported *)
(* for ever, whatever is appended afterwards; the one exception are lost    *)
(* newest entries, whose numbers the next append takes again (they are no   *)
(* longer in damaged then).                                                 *)
DamageIsReported ==
    \A e \in damaged : ~VerifySession(committed, e[1])

(* virp_chain_init: a session with entries but no head is left "failing    *)
(* virp_chain_verify_session permanently".  Not so once the session is     *)
(* extended: the append writes a head.                                     *)
HeadlessNeverVerifies ==
    \A s \in headless : ~VerifySession(committed, s)

(* The committed database implements the append-only log per session, and  *)
(* the checkpointed one what a loss of power leaves of it.                 *)
LogOf(d, s) == [i \in 1..NextSeq(d, s) |-> d.rows[s][i - 1].art]
Logs(d) == [s \in Sessions |-> LogOf(d, s)]
Log == INSTANCE ChainLog WITH log <- Logs(committed), kept <- Logs(synced)
ImplementsLog == Log!Spec
===========================================================================
