-------------------------- MODULE TrustChainProofs --------------------------
(***************************************************************************)
(* Proofs about TrustChain.  First for a database that only the daemon     *)
(* changes: GoodDb says what a database built by appends alone looks like; *)
(* it holds of the connection's view, of the committed and of the synced   *)
(* database, and every session of such a database verifies.  Then for one  *)
(* that is changed from outside: what verifies is authentic (AuthInv), and *)
(* what was damaged does not verify (DamageInv).                           *)
(***************************************************************************)
EXTENDS TrustChain, Sequences, TLAPS

USE ZenonT(20)

(* Sequence numbers are dense and every entry is what append computed. *)
Dense(d) ==
    /\ d.rows = [s \in Sessions |-> d.rows[s]]
    /\ \A s \in Sessions : \E k \in Nat : DOMAIN d.rows[s] = 0..(k - 1)

Linked(d) ==
    \A s \in Sessions : \A n \in DOMAIN d.rows[s] :
        d.rows[s][n] = Row(s, n, ExpectedPrev(d, s, n), d.rows[s][n].art)

HeadsMatch(d) ==
    \A s \in Sessions : DOMAIN d.rows[s] # {} =>
        /\ s \in DOMAIN d.heads
        /\ d.heads[s] = HeadRow(s, NextSeq(d, s) - 1, PrevHash(d, s))

BodiesMatch(d) == \A k \in DOMAIN d.bodies : d.bodies[k] = k[2]

(* The records of the execution gate: bodies retained, one intent per      *)
(* approval, one closer per intent, closers cite intents.                  *)
GateRecords(d) ==
    /\ \A e \in Rows(d) : RowAt(d, e).art.kind \in {"gate_intent", "closer"}
         => BodyKey(RowAt(d, e).art) \in DOMAIN d.bodies
    /\ \A e, f \in Rows(d) :
         /\ RowAt(d, e).art.kind = "gate_intent" /\ RowAt(d, f).art.kind = "gate_intent"
         /\ RowAt(d, e).art.ref = RowAt(d, f).art.ref /\ RowAt(d, e).art.ref # NoRef
         => e = f
    /\ \A e, f \in Rows(d) :
         /\ RowAt(d, e).art.kind = "closer" /\ RowAt(d, f).art.kind = "closer"
         /\ RowAt(d, e).art.ref = RowAt(d, f).art.ref
         => e = f
    /\ \A e \in Rows(d) : RowAt(d, e).art.kind = "closer" =>
         \E f \in Rows(d) : RowAt(d, f).hash = RowAt(d, e).art.ref
                            /\ RowAt(d, f).art.kind = "gate_intent"

FederationIds(d) ==
    \A e, f \in Rows(d) :
        LET a == RowAt(d, e).art
            b == RowAt(d, f).art
        IN a.kind = "fed_observation" /\ b.kind = "fed_observation" /\ a.id = b.id
             => ArtifactHash(a) = ArtifactHash(b)

GoodDb(d) ==
    Dense(d) /\ Linked(d) /\ HeadsMatch(d) /\ BodiesMatch(d) /\ GateRecords(d)
    /\ FederationIds(d)

(* What the callers' discipline means for one submission. *)
Submitted(d, a, body) ==
    /\ a.kind = "gate_intent" =>
         body /\ (a.ref = NoRef \/ IntentsFor(d, a.ref) = {})
    /\ a.kind = "closer" =>
         /\ body /\ ClosersOf(d, a.ref) = {}
         /\ \E e \in Rows(d) : RowAt(d, e).hash = a.ref
                               /\ RowAt(d, e).art.kind = "gate_intent"

-----------------------------------------------------------------------------

(* stmt_get_last over dense sequence numbers. *)
LEMMA NextSeqDense ==
    ASSUME NEW d, NEW s, NEW k \in Nat, DOMAIN d.rows[s] = 0..(k - 1)
    PROVE  NextSeq(d, s) = k
<1>1. CASE k = 0
  BY <1>1, SMTT(60) DEF NextSeq
<1>2. CASE k # 0
  <2> DEFINE D == 0..(k - 1)
  <2> DEFINE c == CHOOSE n \in D : \A m \in D : m <= n
  <2>1. k - 1 \in D /\ \A m \in D : m <= k - 1
    BY <1>2, SMTT(60)
  <2>2. \E n \in D : \A m \in D : m <= n
    BY <2>1
  <2>3. c \in D /\ \A m \in D : m <= c
    BY <2>2
  <2>4. c = k - 1
    BY <2>1, <2>3, SMTT(60)
  <2>5. NextSeq(d, s) = 1 + c
    BY <2>1 DEF NextSeq
  <2> HIDE DEF c
  <2> QED  BY <2>4, <2>5, SMTT(60)
<1> QED  BY <1>1, <1>2

(* Entries are the pairs of a session and one of its sequence numbers. *)
LEMMA RowsAre ==
    ASSUME NEW d, NEW e
    PROVE  e \in Rows(d) <=> \E s \in Sessions : \E n \in DOMAIN d.rows[s] : e = <<s, n>>
BY SMTT(60) DEF Rows

(* x is d with one more entry, number n of session s. *)
AddsOneRow(d, x, s, n, a) ==
    /\ n \in Nat /\ DOMAIN d.rows[s] = 0..(n - 1)
    /\ DOMAIN x.rows[s] = 0..n
    /\ x.rows[s][n] = Row(s, n, PrevHash(d, s), a)
    /\ \A m \in 0..(n - 1) : x.rows[s][m] = d.rows[s][m]
    /\ \A t \in Sessions \ {s} : x.rows[t] = d.rows[t]
    /\ x.rows = [t \in Sessions |-> x.rows[t]]
    /\ Rows(x) = Rows(d) \cup {<<s, n>>}
    /\ <<s, n>> \notin Rows(d)
    /\ RowAt(x, <<s, n>>) = Row(s, n, PrevHash(d, s), a)
    /\ \A e \in Rows(d) : RowAt(x, e) = RowAt(d, e)

(* chain_append_locked adds one entry and leaves the others as they were. *)
LEMMA InsertedRows ==
    ASSUME NEW d, Dense(d), NEW s \in Sessions, NEW a, NEW body
    PROVE  AddsOneRow(d, Inserted(d, s, a, body), s, NextSeq(d, s), a)
<1> DEFINE n == NextSeq(d, s)
<1> DEFINE x == Inserted(d, s, a, body)
<1>1. PICK k \in Nat : DOMAIN d.rows[s] = 0..(k - 1)
  BY DEF Dense
<1>2. n = k
  BY <1>1, NextSeqDense
<1>3. n \in Nat /\ DOMAIN d.rows[s] = 0..(n - 1)
  BY <1>1, <1>2
<1> HIDE DEF n
<1>4. x.rows = [d.rows EXCEPT ![s] = Extended(@, n, Row(s, n, PrevHash(d, s), a))]
  BY DEF Inserted, n
<1> HIDE DEF x
<1>5. DOMAIN d.rows = Sessions
  BY DEF Dense
<1>6. x.rows[s] = Extended(d.rows[s], n, Row(s, n, PrevHash(d, s), a))
  BY <1>4, <1>5
<1>7. DOMAIN x.rows[s] = 0..n
  BY <1>3, <1>6, SMTT(60) DEF Extended
<1>8. x.rows[s][n] = Row(s, n, PrevHash(d, s), a)
  BY <1>6 DEF Extended
<1>9. \A m \in 0..(n - 1) : x.rows[s][m] = d.rows[s][m]
  BY <1>3, <1>6, SMTT(60) DEF Extended
<1>10. \A t \in Sessions \ {s} : x.rows[t] = d.rows[t]
  BY <1>4, <1>5
<1>11. x.rows = [t \in Sessions |-> x.rows[t]]
  BY <1>4, <1>5
<1>12. Rows(x) = Rows(d) \cup {<<s, n>>}
  <2>1. ASSUME NEW e \in Rows(x) PROVE e \in Rows(d) \cup {<<s, n>>}
    <3>1. PICK t \in Sessions : \E m \in DOMAIN x.rows[t] : e = <<t, m>>
      BY <2>1, RowsAre, SMTT(60)
    <3>2. CASE t = s
      BY <3>1, <3>2, <1>3, <1>7, RowsAre, SMTT(60)
    <3>3. CASE t # s
      BY <3>1, <3>3, <1>10, RowsAre
    <3> QED  BY <3>2, <3>3
  <2>2. ASSUME NEW e \in Rows(d) PROVE e \in Rows(x)
    <3>1. PICK t \in Sessions : \E m \in DOMAIN d.rows[t] : e = <<t, m>>
      BY <2>2, RowsAre, SMTT(60)
    <3>2. CASE t = s
      BY <3>1, <3>2, <1>3, <1>7, RowsAre, SMTT(60)
    <3>3. CASE t # s
      BY <3>1, <3>3, <1>10, RowsAre
    <3> QED  BY <3>2, <3>3
  <2>3. <<s, n>> \in Rows(x)
    BY <1>3, <1>7, RowsAre, SMTT(60)
  <2> QED  BY <2>1, <2>2, <2>3
<1>13. <<s, n>> \notin Rows(d)
  BY <1>3, RowsAre, SMTT(60)
<1>14. \A e \in Rows(d) : RowAt(x, e) = RowAt(d, e)
  <2> TAKE e \in Rows(d)
  <2>1. PICK t \in Sessions : \E m \in DOMAIN d.rows[t] : e = <<t, m>>
    BY RowsAre, SMTT(60)
  <2>2. CASE t = s
    BY <2>1, <2>2, <1>3, <1>9, SMTT(60) DEF RowAt
  <2>3. CASE t # s
    BY <2>1, <2>3, <1>10, SMTT(60) DEF RowAt
  <2> QED  BY <2>2, <2>3
<1>15. RowAt(x, <<s, n>>) = Row(s, n, PrevHash(d, s), a)
  BY <1>8 DEF RowAt
<1>16. AddsOneRow(d, x, s, n, a)
  BY <1>3, <1>7, <1>8, <1>9, <1>10, <1>11, <1>12, <1>13, <1>14, <1>15 DEF AddsOneRow
<1> QED  BY <1>16 DEF n, x

(* The three facts an append establishes about the database it leaves. *)
LEMMA InsertedChain ==
    ASSUME NEW d, GoodDb(d), NEW s \in Sessions, NEW a, NEW body
    PROVE  /\ Dense(Inserted(d, s, a, body))
           /\ Linked(Inserted(d, s, a, body))
           /\ HeadsMatch(Inserted(d, s, a, body))
<1> DEFINE n == NextSeq(d, s)
<1> DEFINE x == Inserted(d, s, a, body)
<1>1. /\ n \in Nat /\ DOMAIN d.rows[s] = 0..(n - 1)
      /\ DOMAIN x.rows[s] = 0..n
      /\ x.rows[s][n] = Row(s, n, PrevHash(d, s), a)
      /\ \A m \in 0..(n - 1) : x.rows[s][m] = d.rows[s][m]
      /\ \A t \in Sessions \ {s} : x.rows[t] = d.rows[t]
      /\ x.rows = [t \in Sessions |-> x.rows[t]]
  <2>1. AddsOneRow(d, x, s, n, a)
    BY InsertedRows DEF GoodDb
  <2> QED  BY <2>1 DEF AddsOneRow
<1>2. x.heads = Extended(d.heads, s, HeadRow(s, n, Row(s, n, PrevHash(d, s), a).hash))
  BY DEF Inserted
<1>3. PrevHash(d, s) = IF n = 0 THEN Genesis(s) ELSE d.rows[s][n - 1].hash
  BY DEF PrevHash
<1> HIDE DEF n, x
<1>4. Dense(x)
  <2>1. ASSUME NEW t \in Sessions PROVE \E k \in Nat : DOMAIN x.rows[t] = 0..(k - 1)
    <3>1. CASE t = s
      <4>1. n + 1 \in Nat /\ DOMAIN x.rows[t] = 0..((n + 1) - 1)
        BY <1>1, <3>1, SMTT(60)
      <4> QED  BY <4>1
    <3>2. CASE t # s
      BY <1>1, <3>2 DEF GoodDb, Dense
    <3> QED  BY <3>1, <3>2
  <2> QED  BY <1>1, <2>1 DEF Dense
<1>5. Linked(x)
  <2> SUFFICES ASSUME NEW t \in Sessions, NEW m \in DOMAIN x.rows[t]
               PROVE  x.rows[t][m] = Row(t, m, ExpectedPrev(x, t, m), x.rows[t][m].art)
    BY DEF Linked
  <2>1. CASE t # s
    <3>1. x.rows[t] = d.rows[t]
      BY <1>1, <2>1
    <3>2. d.rows[t][m] = Row(t, m, ExpectedPrev(d, t, m), d.rows[t][m].art)
      BY <3>1 DEF GoodDb, Linked
    <3> QED  BY <3>1, <3>2 DEF ExpectedPrev
  <2>2. CASE t = s /\ m = n
    <3>1. ExpectedPrev(x, t, m) = PrevHash(d, s)
      BY <1>1, <1>3, <2>2, SMTT(60) DEF ExpectedPrev
    <3>2. x.rows[t][m].art = a
      BY <1>1, <2>2, SMTT(60) DEF Row
    <3> QED  BY <1>1, <2>2, <3>1, <3>2
  <2>3. CASE t = s /\ m # n
    <3>1. m \in 0..(n - 1)
      BY <1>1, <2>3, SMTT(60)
    <3>2. x.rows[t][m] = d.rows[t][m]
      BY <1>1, <2>3, <3>1
    <3>3. d.rows[t][m] = Row(t, m, ExpectedPrev(d, t, m), d.rows[t][m].art)
      BY <1>1, <2>3, <3>1 DEF GoodDb, Linked
    <3>4. ExpectedPrev(x, t, m) = ExpectedPrev(d, t, m)
      BY <1>1, <2>3, <3>1, SMTT(60) DEF ExpectedPrev
    <3> QED  BY <3>2, <3>3, <3>4
  <2> QED  BY <2>1, <2>2, <2>3
<1>6. HeadsMatch(x)
  <2> SUFFICES ASSUME NEW t \in Sessions, DOMAIN x.rows[t] # {}
               PROVE  /\ t \in DOMAIN x.heads
                      /\ x.heads[t] = HeadRow(t, NextSeq(x, t) - 1, PrevHash(x, t))
    BY DEF HeadsMatch
  <2>1. CASE t = s
    <3>1. NextSeq(x, s) = n + 1
      <4>1. DOMAIN x.rows[s] = 0..((n + 1) - 1) /\ n + 1 \in Nat
        BY <1>1, SMTT(60)
      <4> QED  BY <4>1, NextSeqDense
    <3>2. PrevHash(x, s) = Row(s, n, PrevHash(d, s), a).hash
      BY <1>1, <3>1, SMTT(60) DEF PrevHash
    <3>3. (n + 1) - 1 = n
      BY <1>1, SMTT(60)
    <3> QED  BY <1>2, <2>1, <3>1, <3>2, <3>3 DEF Extended
  <2>2. CASE t # s
    <3>1. x.rows[t] = d.rows[t]
      BY <1>1, <2>2
    <3>2. NextSeq(x, t) = NextSeq(d, t) /\ PrevHash(x, t) = PrevHash(d, t)
      BY <3>1, SMTT(60) DEF NextSeq, PrevHash
    <3>3. t \in DOMAIN d.heads /\ d.heads[t] = HeadRow(t, NextSeq(d, t) - 1, PrevHash(d, t))
      BY <3>1 DEF GoodDb, HeadsMatch
    <3> QED  BY <1>2, <2>2, <3>2, <3>3 DEF Extended
  <2> QED  BY <2>1, <2>2
<1> QED  BY <1>4, <1>5, <1>6 DEF x

(* Bodies and the gate's records stay consistent under a disciplined append. *)
LEMMA InsertedRecords ==
    ASSUME NEW d, GoodDb(d), NEW s \in Sessions, NEW a, NEW body \in BOOLEAN,
           Submitted(d, a, body), ~Gate5Conflict(d, a)
    PROVE  /\ BodiesMatch(Inserted(d, s, a, body))
           /\ GateRecords(Inserted(d, s, a, body))
           /\ FederationIds(Inserted(d, s, a, body))
<1> DEFINE n == NextSeq(d, s)
<1> DEFINE x == Inserted(d, s, a, body)
<1> DEFINE z == <<s, n>>
<1>1. /\ Rows(x) = Rows(d) \cup {z}
      /\ z \notin Rows(d)
      /\ RowAt(x, z) = Row(s, n, PrevHash(d, s), a)
      /\ \A e \in Rows(d) : RowAt(x, e) = RowAt(d, e)
  <2>1. AddsOneRow(d, x, s, n, a)
    BY InsertedRows DEF GoodDb
  <2> QED  BY <2>1 DEF AddsOneRow
<1>2. x.bodies = IF body THEN Stored(d.bodies, a) ELSE d.bodies
  BY DEF Inserted
<1>3. RowAt(x, z).art = a
  BY <1>1, SMTT(60) DEF Row
<1> HIDE DEF x, z, n
<1>4. BodiesMatch(x)
  <2>1. BodyKey(a)[2] = ArtifactHash(a)
    BY DEF BodyKey
  <2> QED  BY <1>2, <2>1, SMTT(60) DEF GoodDb, BodiesMatch, Stored, Extended
<1>5. DOMAIN d.bodies \subseteq DOMAIN x.bodies /\ (body => BodyKey(a) \in DOMAIN x.bodies)
  BY <1>2 DEF Stored, Extended
<1>6. \A e \in Rows(d) : RowAt(d, e).art.kind \in {"gate_intent", "closer"}
         => Readable(d, RowAt(d, e).art)
  <2> SUFFICES ASSUME NEW e \in Rows(d), RowAt(d, e).art.kind \in {"gate_intent", "closer"}
               PROVE  Readable(d, RowAt(d, e).art)
    OBVIOUS
  <2>1. BodyKey(RowAt(d, e).art) \in DOMAIN d.bodies
    BY DEF GoodDb, GateRecords
  <2>2. BodyKey(RowAt(d, e).art)[2] = ArtifactHash(RowAt(d, e).art)
    BY DEF BodyKey
  <2> QED  BY <2>1, <2>2 DEF GoodDb, BodiesMatch, Readable
<1>7. \A e \in Rows(d) : RowAt(d, e).art.kind = "gate_intent" /\ a.kind = "gate_intent"
         /\ RowAt(d, e).art.ref = a.ref => a.ref = NoRef
  BY <1>6 DEF Submitted, IntentsFor
<1>8. \A e \in Rows(d) : RowAt(d, e).art.kind = "closer" /\ a.kind = "closer"
         => RowAt(d, e).art.ref # a.ref
  BY <1>6 DEF Submitted, ClosersOf
<1>9. GateRecords(x)
  <2>1. \A e \in Rows(x) : RowAt(x, e).art.kind \in {"gate_intent", "closer"}
         => BodyKey(RowAt(x, e).art) \in DOMAIN x.bodies
    BY <1>1, <1>3, <1>5 DEF GoodDb, GateRecords, Submitted
  <2>2. \A e, f \in Rows(x) :
         /\ RowAt(x, e).art.kind = "gate_intent" /\ RowAt(x, f).art.kind = "gate_intent"
         /\ RowAt(x, e).art.ref = RowAt(x, f).art.ref /\ RowAt(x, e).art.ref # NoRef
         => e = f
    BY <1>1, <1>3, <1>7 DEF GoodDb, GateRecords
  <2>3. \A e, f \in Rows(x) :
         /\ RowAt(x, e).art.kind = "closer" /\ RowAt(x, f).art.kind = "closer"
         /\ RowAt(x, e).art.ref = RowAt(x, f).art.ref
         => e = f
    BY <1>1, <1>3, <1>8 DEF GoodDb, GateRecords
  <2>4. \A e \in Rows(x) : RowAt(x, e).art.kind = "closer" =>
         \E f \in Rows(x) : RowAt(x, f).hash = RowAt(x, e).art.ref
                            /\ RowAt(x, f).art.kind = "gate_intent"
    BY <1>1, <1>3, SMTT(60) DEF GoodDb, GateRecords, Submitted
  <2> QED  BY <2>1, <2>2, <2>3, <2>4 DEF GateRecords
<1>10. FederationIds(x)
  BY <1>1, <1>3 DEF GoodDb, FederationIds, Gate5Conflict
<1> QED  BY <1>4, <1>9, <1>10 DEF x

(* An append to a good database leaves a good database. *)
LEMMA InsertedGood ==
    ASSUME NEW d, GoodDb(d), NEW s \in Sessions, NEW a, NEW body \in BOOLEAN,
           Submitted(d, a, body), ~Gate5Conflict(d, a)
    PROVE  GoodDb(Inserted(d, s, a, body))
BY InsertedChain, InsertedRecords DEF GoodDb

(* It adds exactly the hash it answers with. *)
LEMMA InsertedHashes ==
    ASSUME NEW d, GoodDb(d), NEW s \in Sessions, NEW a, NEW body
    PROVE  EntryHashes(Inserted(d, s, a, body)) = EntryHashes(d) \cup {NewHash(d, s, a)}
<1> DEFINE n == NextSeq(d, s)
<1> DEFINE x == Inserted(d, s, a, body)
<1>1. AddsOneRow(d, x, s, n, a)
  BY InsertedRows DEF GoodDb
<1>2. Row(s, n, PrevHash(d, s), a).hash = NewHash(d, s, a)
  BY DEF Row, NewHash
<1> HIDE DEF x, n
<1>3. EntryHashes(x) = EntryHashes(d) \cup {NewHash(d, s, a)}
  BY <1>1, <1>2, SMTT(60) DEF AddsOneRow, EntryHashes
<1> QED  BY <1>3 DEF x

(* What the callers submit is disciplined. *)
LEMMA SubmissionsAreDisciplined ==
    ASSUME NEW d, NEW p \in Submissions(d)
    PROVE  p[2] \in BOOLEAN /\ Submitted(d, p[1], p[2])
<1>1. CASE p \in Observations
  BY <1>1, KindsAssumption, SMTT(60) DEF Observations, Submitted, Artifact
<1>2. CASE p \in IntentRecords(d)
  <2>1. PICK x \in {NoRef} \cup {y \in Approvals : IntentsFor(d, y) = {}} :
              p = <<Artifact("gate_intent", Cardinality(Rows(d)), 1, x), TRUE>>
    BY <1>2 DEF IntentRecords
  <2>2. p[1].kind = "gate_intent" /\ p[1].ref = x /\ p[2] = TRUE
    BY <2>1 DEF Artifact
  <2> QED  BY <2>1, <2>2 DEF Submitted
<1>3. CASE p \in CloserRecords(d)
  <2>1. PICK e \in OpenIntents(d) :
              p = <<Artifact("closer", Cardinality(Rows(d)), 1, RowAt(d, e).hash), TRUE>>
    BY <1>3 DEF CloserRecords
  <2>2. p[1].kind = "closer" /\ p[1].ref = RowAt(d, e).hash /\ p[2] = TRUE
    BY <2>1 DEF Artifact
  <2>3. e \in Rows(d) /\ RowAt(d, e).art.kind = "gate_intent"
        /\ ClosersOf(d, RowAt(d, e).hash) = {}
    BY <2>1 DEF OpenIntents
  <2> QED  BY <2>2, <2>3 DEF Submitted
<1> QED  BY <1>1, <1>2, <1>3 DEF Submissions

(* Every session of a good database verifies. *)
LEMMA GoodVerifies ==
    ASSUME NEW d, GoodDb(d), NEW s \in Sessions, DOMAIN d.rows[s] # {}
    PROVE  VerifySession(d, s) /\ d.heads[s].seq = NextSeq(d, s) - 1
<1>1. PICK k \in Nat : DOMAIN d.rows[s] = 0..(k - 1)
  BY DEF GoodDb, Dense
<1>2. NextSeq(d, s) = k /\ k # 0
  BY <1>1, NextSeqDense, SMTT(60)
<1>3. s \in DOMAIN d.heads /\ d.heads[s] = HeadRow(s, k - 1, PrevHash(d, s))
  BY <1>2 DEF GoodDb, HeadsMatch
<1>4. d.heads[s].seq = k - 1 /\ d.heads[s].hash = PrevHash(d, s)
      /\ d.heads[s].mac = <<s, k - 1, PrevHash(d, s)>>
  BY <1>3, SMTT(60) DEF HeadRow
<1>5. PrevHash(d, s) = d.rows[s][k - 1].hash
  BY <1>2 DEF PrevHash
<1>6. ASSUME NEW n \in DOMAIN d.rows[s] PROVE RowOk(d, s, n)
  <2> DEFINE r == d.rows[s][n]
  <2> DEFINE c == Canonical(s, n, ExpectedPrev(d, s, n), r.art)
  <2>1. r = Row(s, n, ExpectedPrev(d, s, n), r.art)
    BY DEF GoodDb, Linked
  <2>2. r.prev = ExpectedPrev(d, s, n) /\ r.hash = c /\ r.mac = c
    BY <2>1, SMTT(60) DEF Row
  <2>3. \A b : BodyKey(b)[2] = ArtifactHash(b)
    BY DEF BodyKey
  <2>4. BindingOk(d, r.art)
    BY <2>3 DEF GoodDb, BodiesMatch, BindingOk
  <2>5. <<s, n>> \in Rows(d) /\ RowAt(d, <<s, n>>) = r
    BY RowsAre DEF RowAt
  <2> HIDE DEF r
  <2>6. IntentOk(d, r)
    <3>2. AtMostOne(IntentsFor(d, r.art.ref)) \/ r.art.ref = NoRef
      BY DEF GoodDb, GateRecords, AtMostOne, IntentsFor
    <3>3. AtMostOne(ClosersOf(d, r.hash))
      BY DEF GoodDb, GateRecords, AtMostOne, ClosersOf
    <3> QED  BY <3>2, <3>3 DEF IntentOk
  <2>7. r.art.kind = "closer" => CloserOk(d, r)
    BY <2>5 DEF GoodDb, GateRecords, CloserOk
  <2> QED  BY <2>2, <2>4, <2>6, <2>7 DEF RowOk, r
<1>7. WalkOk(d, s)
  BY <1>1, <1>4, <1>6 DEF WalkOk
<1> QED  BY <1>2, <1>3, <1>4, <1>5, <1>7 DEF VerifySession

-----------------------------------------------------------------------------
(* The inductive invariant, for a database only the daemon changes. *)

IInv ==
    /\ tx \in {"idle", "open"}
    /\ reply \in {"none", "ok", "error", "duplicate_mismatch"}
    /\ damaged = {} /\ headless = {}
    /\ GoodDb(view) /\ GoodDb(committed) /\ GoodDb(synced)
    /\ tx = "idle" => view = committed
    /\ AckedIsCommitted
    /\ EntryHashes(synced) \subseteq acked

(* The empty database is good. *)
LEMMA EmptyGood == GoodDb(Empty) /\ EntryHashes(Empty) = {}
<1>1. \A s \in Sessions : DOMAIN Empty.rows[s] = {}
  BY DEF Empty
<1>2. Rows(Empty) = {}
  BY <1>1, RowsAre DEF Rows
<1>3. Dense(Empty)
  <2>1. 0 \in Nat /\ 0..(0 - 1) = {}
    BY SMTT(60)
  <2>2. Empty.rows = [s \in Sessions |-> Empty.rows[s]]
    BY DEF Empty
  <2> QED  BY <1>1, <2>1, <2>2 DEF Dense
<1>4. Linked(Empty) /\ HeadsMatch(Empty)
  BY <1>1 DEF Linked, HeadsMatch
<1>5. BodiesMatch(Empty)
  BY DEF Empty, BodiesMatch
<1>6. GateRecords(Empty) /\ FederationIds(Empty)
  BY <1>2 DEF GateRecords, FederationIds
<1> QED  BY <1>2, <1>3, <1>4, <1>5, <1>6 DEF GoodDb, EntryHashes

LEMMA InitIInv == Init => IInv
BY EmptyGood DEF Init, IInv, AckedIsCommitted

(* Every append, failure and restart keeps IInv. *)
LEMMA StepIInv ==
    ASSUME "damage" \notin Faults, IInv, [Next]_vars
    PROVE  IInv'
<1> USE DEF IInv, vars
<1>1. CASE \E s \in Sessions : \E p \in Submissions(view) :
           \/ AppendCommits(s, p[1], p[2])
           \/ AppendConflicts(s, p[1])
           \/ AppendRollsBack(s, p[1])
           \/ CommitFails(s, p[1], p[2])
           \/ AppendWedged(s, p[1])
  <2>1. PICK s \in Sessions, p \in Submissions(view) :
           \/ AppendCommits(s, p[1], p[2])
           \/ AppendConflicts(s, p[1])
           \/ AppendRollsBack(s, p[1])
           \/ CommitFails(s, p[1], p[2])
           \/ AppendWedged(s, p[1])
    BY <1>1
  <2>2. p[2] \in BOOLEAN /\ Submitted(view, p[1], p[2])
    BY SubmissionsAreDisciplined
  <2>3. ~Gate5Conflict(view, p[1]) => GoodDb(Inserted(view, s, p[1], p[2]))
    BY <2>2, InsertedGood
  <2>4. EntryHashes(Inserted(view, s, p[1], p[2]))
          = EntryHashes(view) \cup {NewHash(view, s, p[1])}
    BY InsertedHashes, SMTT(60)
  <2>5. CASE AppendCommits(s, p[1], p[2])
    BY <2>3, <2>4, <2>5 DEF AppendCommits, AckedIsCommitted
  <2>6. CASE AppendConflicts(s, p[1])
    BY <2>6 DEF AppendConflicts, AckedIsCommitted
  <2>7. CASE AppendRollsBack(s, p[1])
    BY <2>7 DEF AppendRollsBack, AckedIsCommitted
  <2>8. CASE CommitFails(s, p[1], p[2])
    BY <2>3, <2>8 DEF CommitFails, AckedIsCommitted
  <2>9. CASE AppendWedged(s, p[1])
    BY <2>9 DEF AppendWedged, AckedIsCommitted
  <2> QED  BY <2>1, <2>5, <2>6, <2>7, <2>8, <2>9
<1>2. CASE Crash
  BY <1>2 DEF Crash, AckedIsCommitted
<1>3. CASE Checkpoint
  BY <1>3 DEF Checkpoint, AckedIsCommitted
<1>4. CASE PowerLoss
  BY <1>4 DEF PowerLoss, AckedIsCommitted
<1>5. ASSUME NEW d PROVE ~Rewritten(d)
  BY DEF Rewritten
<1>6. ~(\E s \in Sessions, n \in 0..MaxRows :
              \/ LoseRow(s, n)
              \/ GarbleBody(s, n, OtherBytes)
              \/ GarbleBody(s, n, Unbindable)
              \/ EditRow(s, n))
  BY <1>5 DEF LoseRow, GarbleBody, EditRow
<1>7. ~(\E s \in Sessions : LoseHead(s))
  BY <1>5 DEF LoseHead
<1>8. CASE UNCHANGED vars
  BY <1>8 DEF AckedIsCommitted
<1> QED  BY <1>1, <1>2, <1>3, <1>4, <1>6, <1>7, <1>8 DEF Next

(* IInv holds the properties. *)
LEMMA IInvImplies == IInv => TypeOK /\ AlwaysVerifies /\ OneHashPerFederationId
<1> SUFFICES ASSUME IInv PROVE TypeOK /\ AlwaysVerifies /\ OneHashPerFederationId
  OBVIOUS
<1>1. ASSUME NEW d, GoodDb(d), NEW s \in Sessions
      PROVE  /\ DOMAIN d.rows[s] \subseteq Nat
             /\ DOMAIN d.rows[s] # {} => s \in DOMAIN d.heads
  <2>1. PICK k \in Nat : DOMAIN d.rows[s] = 0..(k - 1)
    BY <1>1 DEF GoodDb, Dense
  <2> QED  BY <1>1, <2>1, SMTT(60) DEF GoodDb, HeadsMatch
<1>2. TypeOK
  BY <1>1 DEF IInv, TypeOK
<1>3. AlwaysVerifies
  BY GoodVerifies DEF IInv, AlwaysVerifies
<1>4. OneHashPerFederationId
  BY DEF IInv, GoodDb, FederationIds, OneHashPerFederationId
<1> QED  BY <1>2, <1>3, <1>4

-----------------------------------------------------------------------------

(* The variables keep their types; a session with entries has a head. *)
THEOREM ChainTypeCorrect ==
    ASSUME "damage" \notin Faults
    PROVE  Spec => []TypeOK
BY InitIInv, StepIInv, IInvImplies, PTL DEF Spec

(* Failed commits, crashes and power loss never leave a session that does *)
(* not verify, in any of the three views of the database.                 *)
THEOREM ChainAlwaysVerifies ==
    ASSUME "damage" \notin Faults
    PROVE  Spec => []AlwaysVerifies
BY InitIInv, StepIInv, IInvImplies, PTL DEF Spec

(* GATE 5 holds across sessions and for commitment-only entries. *)
THEOREM FederationIdsUnique ==
    ASSUME "damage" \notin Faults
    PROVE  Spec => []OneHashPerFederationId
BY InitIInv, StepIInv, IInvImplies, PTL DEF Spec

(* What is acknowledged is what is committed. *)
THEOREM AcknowledgedIsCommitted ==
    ASSUME "damage" \notin Faults
    PROVE  Spec => []AckedIsCommitted
<1>1. IInv => AckedIsCommitted
  BY DEF IInv
<1> QED  BY InitIInv, StepIInv, <1>1, PTL DEF Spec

-----------------------------------------------------------------------------
(* Refinement of the append-only log, for a database only the daemon       *)
(* changes.                                                                *)

(* The log of a session is a sequence as long as its entries. *)
LEMMA LogIsSeq ==
    ASSUME NEW d, GoodDb(d), NEW s \in Sessions
    PROVE  /\ NextSeq(d, s) \in Nat
           /\ DOMAIN LogOf(d, s) = 1..NextSeq(d, s)
           /\ Len(LogOf(d, s)) = NextSeq(d, s)
<1>1. PICK k \in Nat : DOMAIN d.rows[s] = 0..(k - 1)
  BY DEF GoodDb, Dense
<1>2. NextSeq(d, s) \in Nat
  BY <1>1, NextSeqDense
<1> QED  BY <1>2, SMTT(60) DEF LogOf

(* An append extends the log of its session and no other. *)
LEMMA InsertedExtendsLog ==
    ASSUME NEW d, GoodDb(d), NEW s \in Sessions, NEW a, NEW body,
           NEW x, x = Inserted(d, s, a, body), GoodDb(x)
    PROVE  /\ Len(LogOf(x, s)) = Len(LogOf(d, s)) + 1
           /\ SubSeq(LogOf(x, s), 1, Len(LogOf(d, s))) = LogOf(d, s)
           /\ \A t \in Sessions \ {s} : LogOf(x, t) = LogOf(d, t)
<1> DEFINE n == NextSeq(d, s)
<1>1. AddsOneRow(d, x, s, n, a)
  BY InsertedRows DEF GoodDb
<1>2. n \in Nat /\ Len(LogOf(d, s)) = n
  BY LogIsSeq
<1> HIDE DEF n
<1>3. NextSeq(x, s) = n + 1
  <2>1. DOMAIN x.rows[s] = 0..((n + 1) - 1) /\ n + 1 \in Nat
    BY <1>1, <1>2, SMTT(60) DEF AddsOneRow
  <2> QED  BY <2>1, NextSeqDense
<1>4. Len(LogOf(x, s)) = n + 1
  BY <1>3, LogIsSeq
<1>5. LogOf(d, s) = [i \in 1..n |-> d.rows[s][i - 1].art]
  BY DEF LogOf, n
<1>6. LogOf(x, s) = [i \in 1..(n + 1) |-> x.rows[s][i - 1].art]
  BY <1>3 DEF LogOf
<1>7. \A i \in 1..n : x.rows[s][i - 1].art = d.rows[s][i - 1].art
  <2> TAKE i \in 1..n
  <2>1. i - 1 \in 0..(n - 1)
    BY <1>2, SMTT(60)
  <2> QED  BY <1>1, <2>1 DEF AddsOneRow
<1>8. SubSeq(LogOf(x, s), 1, n) = [i \in 1..n |-> LogOf(x, s)[i]]
  BY <1>2, <1>6, SMTT(60)
<1>9. SubSeq(LogOf(x, s), 1, n) = LogOf(d, s)
  BY <1>2, <1>5, <1>6, <1>7, <1>8, SMTT(60)
<1>10. \A t \in Sessions \ {s} : LogOf(x, t) = LogOf(d, t)
  <2> TAKE t \in Sessions \ {s}
  <2>1. x.rows[t] = d.rows[t]
    BY <1>1 DEF AddsOneRow
  <2>2. NextSeq(x, t) = NextSeq(d, t)
    BY <2>1, SMTT(60) DEF NextSeq
  <2> QED  BY <2>1, <2>2 DEF LogOf
<1> QED  BY <1>2, <1>4, <1>9, <1>10

(* The committed and the checkpointed database start as empty logs ... *)
LEMMA LogInit == Init => Log!Init
<1> SUFFICES ASSUME Init
             PROVE  /\ Logs(committed) = [s \in Sessions |-> <<>>]
                    /\ Logs(synced) = [s \in Sessions |-> <<>>]
  BY DEF Log!Init
<1>1. \A s \in Sessions : LogOf(Empty, s) = <<>>
  <2> TAKE s \in Sessions
  <2>1. NextSeq(Empty, s) = 0
    BY DEF Empty, NextSeq
  <2> QED  BY <2>1, SMTT(60) DEF LogOf
<1>2. committed = Empty /\ synced = Empty
  BY DEF Init
<1> QED  BY <1>1, <1>2 DEF Logs

(* ... and every step appends to one session's log, checkpoints, falls     *)
(* back to the checkpoint or leaves both alone.                            *)
LEMMA LogStep ==
    ASSUME "damage" \notin Faults, IInv, IInv', [Next]_vars
    PROVE  [Log!Next]_<<Logs(committed), Logs(synced)>>
<1>1. CASE \E s \in Sessions : \E p \in Submissions(view) : AppendCommits(s, p[1], p[2])
  <2>1. PICK s \in Sessions, p \in Submissions(view) : AppendCommits(s, p[1], p[2])
    BY <1>1
  <2>2. committed' = Inserted(committed, s, p[1], p[2]) /\ synced' = synced
    BY <2>1 DEF AppendCommits, IInv
  <2>3. GoodDb(committed) /\ GoodDb(committed')
    BY DEF IInv
  <2>4. /\ Len(LogOf(committed', s)) = Len(LogOf(committed, s)) + 1
        /\ SubSeq(LogOf(committed', s), 1, Len(LogOf(committed, s))) = LogOf(committed, s)
        /\ \A t \in Sessions \ {s} : LogOf(committed', t) = LogOf(committed, t)
    BY <2>2, <2>3, InsertedExtendsLog, SMTT(60)
  <2>5. \A t \in Sessions : /\ Logs(committed)[t] = LogOf(committed, t)
                            /\ Logs(committed')[t] = LogOf(committed', t)
    BY DEF Logs
  <2>6. Logs(synced)' = Logs(synced)
    BY <2>2 DEF Logs
  <2>7. Logs(committed)' = Logs(committed')
    BY DEF Logs
  <2>8. Log!Extends(s)
    BY <2>4, <2>5, <2>6, <2>7 DEF Log!Extends
  <2> QED  BY <2>8 DEF Log!Next
<1>2. CASE Checkpoint
  <2>1. Logs(synced)' = Logs(committed) /\ Logs(committed)' = Logs(committed)
    BY <1>2 DEF Checkpoint, Logs
  <2> QED  BY <2>1 DEF Log!Next, Log!Keeps
<1>3. CASE PowerLoss
  <2>1. Logs(committed)' = Logs(synced) /\ Logs(synced)' = Logs(synced)
    BY <1>3 DEF PowerLoss, Logs
  <2> QED  BY <2>1 DEF Log!Next, Log!FallsBack
<1>4. CASE UNCHANGED <<committed, synced>>
  BY <1>4 DEF Logs
<1>5. ASSUME NEW d PROVE ~Rewritten(d)
  BY DEF Rewritten
<1> QED  BY <1>1, <1>2, <1>3, <1>4, <1>5 DEF Next, vars, AppendConflicts,
            AppendRollsBack, CommitFails, AppendWedged, Crash, LoseRow, GarbleBody,
            EditRow, LoseHead

(* virp_chain_append() implements the append-only log; under WAL with      *)
(* synchronous=NORMAL a loss of power takes it back to a checkpoint.       *)
THEOREM ChainImplementsLog ==
    ASSUME "damage" \notin Faults
    PROVE  Spec => ImplementsLog
BY InitIInv, StepIInv, LogInit, LogStep, PTL DEF Spec, ImplementsLog, Log!Spec

-----------------------------------------------------------------------------
(* A database that others change too.  Of such a table only this remains:  *)
(* an entry's hash is the hash of its own fields, and its MAC is one the   *)
(* daemon made, for this place in the session and for a version somebody   *)
(* submitted.                                                              *)

Made(s, n, r) ==
    /\ r = [prev |-> r.prev, art |-> r.art, hash |-> Canonical(s, n, r.prev, r.art), mac |-> r.mac]
    /\ r.art = Artifact(r.art.kind, r.art.id, r.art.ver, r.art.ref)
    /\ r.mac = Canonical(s, n, r.mac[3], r.mac[4]) /\ r.mac[4].ver # 0

(* Sequence numbers have gaps, but each part of them has a greatest. *)
Bounded(D) ==
    /\ D \subseteq Nat
    /\ \A T \in SUBSET D : T # {} => \E n \in T : \A m \in T : m <= n

Table(d) ==
    /\ d = [rows |-> d.rows, heads |-> d.heads, bodies |-> d.bodies]
    /\ d.rows = [s \in Sessions |-> d.rows[s]]
    /\ \A s \in Sessions :
         /\ Bounded(DOMAIN d.rows[s])
         /\ d.rows[s] = [n \in DOMAIN d.rows[s] |-> d.rows[s][n]]
         /\ \A n \in DOMAIN d.rows[s] : Made(s, n, d.rows[s][n])

(* An entry whose MAC fits its hash was acknowledged. *)
Vouched(d, hashes) ==
    \A s \in Sessions : \A n \in DOMAIN d.rows[s] :
        d.rows[s][n].mac = d.rows[s][n].hash => d.rows[s][n].hash \in hashes

(* The inductive invariant, whatever happens to the file. *)
AuthInv ==
    /\ tx = "idle" => view = committed
    /\ Table(view) /\ Table(committed) /\ Table(synced)
    /\ Vouched(committed, acked) /\ Vouched(synced, acked)

(* stmt_get_last over a session with gaps: past every entry there is. *)
LEMMA NextSeqPast ==
    ASSUME NEW d, NEW s, Bounded(DOMAIN d.rows[s])
    PROVE  /\ NextSeq(d, s) \in Nat
           /\ \A m \in DOMAIN d.rows[s] : m < NextSeq(d, s)
<1> DEFINE D == DOMAIN d.rows[s]
<1>1. CASE D = {}
  BY <1>1 DEF NextSeq
<1>2. CASE D # {}
  <2> DEFINE c == CHOOSE n \in D : \A m \in D : m <= n
  <2>1. D \in SUBSET D
    OBVIOUS
  <2>2. \E n \in D : \A m \in D : m <= n
    BY <1>2, <2>1 DEF Bounded
  <2>3. c \in D /\ \A m \in D : m <= c
    BY <2>2
  <2>4. NextSeq(d, s) = 1 + c
    BY <1>2 DEF NextSeq
  <2>5. D \subseteq Nat
    BY DEF Bounded
  <2> HIDE DEF c, D
  <2>6. NextSeq(d, s) \in Nat /\ \A m \in D : m < NextSeq(d, s)
    BY <2>3, <2>4, <2>5, SMTT(60)
  <2> QED  BY <2>6 DEF D
<1> QED  BY <1>1, <1>2

(* One number past the greatest keeps them bounded, and so does a loss. *)
LEMMA BoundedGrows ==
    ASSUME NEW D, Bounded(D), NEW n \in Nat, \A m \in D : m < n
    PROVE  Bounded(D \cup {n})
<1>1. D \cup {n} \subseteq Nat
  BY DEF Bounded
<1>2. ASSUME NEW T \in SUBSET (D \cup {n}), T # {}
      PROVE  \E k \in T : \A m \in T : m <= k
  <2>1. CASE n \in T
    <3>1. \A m \in T : m <= n
      BY <1>1, SMTT(60)
    <3> QED  BY <2>1, <3>1
  <2>2. CASE n \notin T
    <3>1. T \in SUBSET D
      BY <2>2
    <3> QED  BY <1>2, <3>1 DEF Bounded
  <2> QED  BY <2>1, <2>2
<1> QED  BY <1>1, <1>2 DEF Bounded

LEMMA BoundedShrinks ==
    ASSUME NEW D, Bounded(D), NEW E, E \subseteq D
    PROVE  Bounded(E)
<1>1. \A T \in SUBSET E : T \in SUBSET D
  OBVIOUS
<1>2. E \subseteq Nat
  BY DEF Bounded
<1> QED  BY <1>1, <1>2 DEF Bounded

(* What chain_append_locked writes into such a table. *)
LEMMA InsertedTable ==
    ASSUME NEW d, Table(d), NEW s \in Sessions, NEW a, NEW body,
           a = Artifact(a.kind, a.id, a.ver, a.ref), a.ver # 0,
           NEW x, x = Inserted(d, s, a, body), NEW n, n = NextSeq(d, s)
    PROVE  /\ Table(x)
           /\ n \in Nat /\ \A m \in DOMAIN d.rows[s] : m < n
           /\ DOMAIN x.rows[s] = DOMAIN d.rows[s] \cup {n}
           /\ x.rows[s][n].hash = NewHash(d, s, a)
           /\ \A m \in DOMAIN d.rows[s] : x.rows[s][m] = d.rows[s][m]
           /\ \A t \in Sessions \ {s} : x.rows[t] = d.rows[t]
           /\ x.heads = Extended(d.heads, s, HeadRow(s, n, NewHash(d, s, a)))
           /\ x.bodies = IF body THEN Stored(d.bodies, a) ELSE d.bodies
<1> DEFINE r == Row(s, n, PrevHash(d, s), a)
<1>1. n \in Nat /\ \A m \in DOMAIN d.rows[s] : m < n
  BY NextSeqPast DEF Table
<1>2. /\ x = [rows |-> x.rows, heads |-> x.heads, bodies |-> x.bodies]
      /\ x.rows = [d.rows EXCEPT ![s] = Extended(@, n, r)]
      /\ x.heads = Extended(d.heads, s, HeadRow(s, n, r.hash))
      /\ x.bodies = IF body THEN Stored(d.bodies, a) ELSE d.bodies
  BY DEF Inserted
<1>3. r.hash = NewHash(d, s, a)
  BY DEF Row, NewHash
<1>4. Made(s, n, r)
  BY DEF Made, Row, Canonical
<1> HIDE DEF r
<1>5. DOMAIN d.rows = Sessions
  BY DEF Table
<1>6. x.rows[s] = Extended(d.rows[s], n, r) /\ \A t \in Sessions \ {s} : x.rows[t] = d.rows[t]
  BY <1>2, <1>5
<1>7. x.rows = [t \in Sessions |-> x.rows[t]]
  BY <1>2, <1>5
<1>8. /\ DOMAIN x.rows[s] = DOMAIN d.rows[s] \cup {n}
      /\ x.rows[s][n] = r
      /\ \A m \in DOMAIN d.rows[s] : x.rows[s][m] = d.rows[s][m]
      /\ x.rows[s] = [m \in DOMAIN x.rows[s] |-> x.rows[s][m]]
  BY <1>1, <1>6, SMTT(60) DEF Extended
<1>9. ASSUME NEW t \in Sessions
      PROVE  /\ Bounded(DOMAIN x.rows[t])
             /\ x.rows[t] = [m \in DOMAIN x.rows[t] |-> x.rows[t][m]]
             /\ \A m \in DOMAIN x.rows[t] : Made(t, m, x.rows[t][m])
  <2>1. CASE t = s
    <3>1. /\ Bounded(DOMAIN d.rows[s])
          /\ \A m \in DOMAIN d.rows[s] : Made(s, m, d.rows[s][m])
      BY DEF Table
    <3>2. Bounded(DOMAIN d.rows[s] \cup {n})
      BY <1>1, <3>1, BoundedGrows
    <3>3. \A m \in DOMAIN x.rows[s] : Made(s, m, x.rows[s][m])
      BY <1>4, <1>8, <3>1
    <3> QED  BY <1>8, <2>1, <3>2, <3>3
  <2>2. CASE t # s
    BY <1>6, <2>2 DEF Table
  <2> QED  BY <2>1, <2>2
<1>10. Table(x)
  BY <1>2, <1>7, <1>9 DEF Table
<1> QED  BY <1>1, <1>2, <1>3, <1>6, <1>8, <1>10

(* Submitted artifacts have a version. *)
LEMMA SubmissionsAreVersions ==
    ASSUME NEW d, NEW p \in Submissions(d)
    PROVE  p[1] = Artifact(p[1].kind, p[1].id, p[1].ver, p[1].ref) /\ p[1].ver # 0
<1>1. ASSUME NEW k, NEW i, NEW v, NEW r, v # 0, p[1] = Artifact(k, i, v, r)
      PROVE  p[1] = Artifact(p[1].kind, p[1].id, p[1].ver, p[1].ref) /\ p[1].ver # 0
  BY <1>1, SMTT(60) DEF Artifact
<1>2. CASE p \in Observations
  <2>1. PICK k \in Kinds, i \in Ids, v \in Versions, b \in BOOLEAN :
              p = <<Artifact(k, i, v, NoRef), b>>
    BY <1>2, SMTT(60) DEF Observations
  <2>2. v # 0
    BY VersionsAssumption
  <2> QED  BY <1>1, <2>1, <2>2
<1>3. CASE p \in IntentRecords(d)
  <2>1. PICK x \in {NoRef} \cup {y \in Approvals : IntentsFor(d, y) = {}} :
              p = <<Artifact("gate_intent", Cardinality(Rows(d)), 1, x), TRUE>>
    BY <1>3 DEF IntentRecords
  <2> QED  BY <1>1, <2>1, SMTT(60)
<1>4. CASE p \in CloserRecords(d)
  <2>1. PICK e \in OpenIntents(d) :
              p = <<Artifact("closer", Cardinality(Rows(d)), 1, RowAt(d, e).hash), TRUE>>
    BY <1>4 DEF CloserRecords
  <2> QED  BY <1>1, <2>1, SMTT(60)
<1> QED  BY <1>2, <1>3, <1>4 DEF Submissions

(* An append vouches for what it acknowledges. *)
LEMMA InsertedVouched ==
    ASSUME NEW d, Table(d), NEW s \in Sessions, NEW a, NEW body,
           a = Artifact(a.kind, a.id, a.ver, a.ref), a.ver # 0,
           NEW A, Vouched(d, A)
    PROVE  Vouched(Inserted(d, s, a, body), A \cup {NewHash(d, s, a)})
<1> DEFINE x == Inserted(d, s, a, body)
<1> DEFINE n == NextSeq(d, s)
<1>1. /\ DOMAIN x.rows[s] = DOMAIN d.rows[s] \cup {n}
      /\ x.rows[s][n].hash = NewHash(d, s, a)
      /\ \A m \in DOMAIN d.rows[s] : x.rows[s][m] = d.rows[s][m]
      /\ \A t \in Sessions \ {s} : x.rows[t] = d.rows[t]
  BY InsertedTable, SMTT(60)
<1> HIDE DEF x, n
<1>2. Vouched(x, A \cup {NewHash(d, s, a)})
  <2> SUFFICES ASSUME NEW t \in Sessions, NEW m \in DOMAIN x.rows[t],
                      x.rows[t][m].mac = x.rows[t][m].hash
               PROVE  x.rows[t][m].hash \in A \cup {NewHash(d, s, a)}
    BY DEF Vouched
  <2>1. CASE t = s /\ m = n
    BY <1>1, <2>1
  <2>2. CASE t = s /\ m # n
    BY <1>1, <2>2 DEF Vouched
  <2>3. CASE t # s
    BY <1>1, <2>3 DEF Vouched
  <2> QED  BY <2>1, <2>2, <2>3
<1> QED  BY <1>2 DEF x

(* d without entry n of session s, and d with e in its place. *)
WithoutRow(d, s, n) == [d EXCEPT !.rows[s] = [m \in DOMAIN d.rows[s] \ {n} |-> d.rows[s][m]]]
WithRow(d, s, n, e) == [d EXCEPT !.rows[s][n] = e]

LEMMA LostTable ==
    ASSUME NEW d, Table(d), NEW s \in Sessions, NEW n, NEW x, x = WithoutRow(d, s, n)
    PROVE  /\ Table(x)
           /\ x.heads = d.heads /\ x.bodies = d.bodies
           /\ DOMAIN x.rows[s] = DOMAIN d.rows[s] \ {n}
           /\ \A m \in DOMAIN x.rows[s] : x.rows[s][m] = d.rows[s][m]
           /\ \A t \in Sessions \ {s} : x.rows[t] = d.rows[t]
<1>1. d = [rows |-> d.rows, heads |-> d.heads, bodies |-> d.bodies] /\ DOMAIN d.rows = Sessions
  BY DEF Table
<1>2. /\ x = [rows |-> x.rows, heads |-> x.heads, bodies |-> x.bodies]
      /\ x.heads = d.heads /\ x.bodies = d.bodies
      /\ x.rows = [d.rows EXCEPT ![s] = [m \in DOMAIN d.rows[s] \ {n} |-> d.rows[s][m]]]
  BY <1>1 DEF WithoutRow
<1>3. /\ x.rows = [t \in Sessions |-> x.rows[t]]
      /\ x.rows[s] = [m \in DOMAIN d.rows[s] \ {n} |-> d.rows[s][m]]
      /\ \A t \in Sessions \ {s} : x.rows[t] = d.rows[t]
  BY <1>1, <1>2
<1>4. /\ DOMAIN x.rows[s] = DOMAIN d.rows[s] \ {n}
      /\ \A m \in DOMAIN x.rows[s] : x.rows[s][m] = d.rows[s][m]
      /\ x.rows[s] = [m \in DOMAIN x.rows[s] |-> x.rows[s][m]]
  BY <1>3
<1>5. ASSUME NEW t \in Sessions
      PROVE  /\ Bounded(DOMAIN x.rows[t])
             /\ x.rows[t] = [m \in DOMAIN x.rows[t] |-> x.rows[t][m]]
             /\ \A m \in DOMAIN x.rows[t] : Made(t, m, x.rows[t][m])
  <2>1. CASE t = s
    <3>1. /\ Bounded(DOMAIN d.rows[s])
          /\ \A m \in DOMAIN d.rows[s] : Made(s, m, d.rows[s][m])
      BY DEF Table
    <3>2. Bounded(DOMAIN d.rows[s] \ {n})
      BY <3>1, BoundedShrinks
    <3>3. \A m \in DOMAIN x.rows[s] : m \in DOMAIN d.rows[s]
      BY <1>4
    <3> QED  BY <1>4, <2>1, <3>1, <3>2, <3>3
  <2>2. CASE t # s
    BY <1>3, <2>2 DEF Table
  <2> QED  BY <2>1, <2>2
<1>6. Table(x)
  BY <1>2, <1>3, <1>5 DEF Table
<1> QED  BY <1>2, <1>3, <1>4, <1>6

(* An edited entry: the hash is made to fit again, the MAC cannot be. *)
LEMMA EditedRow ==
    ASSUME NEW s, NEW n, NEW r, Made(s, n, r),
           NEW a, a = [r.art EXCEPT !.ver = 0],
           NEW e, e = [r EXCEPT !.art = a, !.hash = Canonical(s, n, r.prev, a)]
    PROVE  Made(s, n, e) /\ e.mac # e.hash
<1>1. /\ r = [prev |-> r.prev, art |-> r.art, hash |-> Canonical(s, n, r.prev, r.art), mac |-> r.mac]
      /\ r.art = Artifact(r.art.kind, r.art.id, r.art.ver, r.art.ref)
      /\ r.mac = Canonical(s, n, r.mac[3], r.mac[4]) /\ r.mac[4].ver # 0
  BY DEF Made
<1>2. a = Artifact(a.kind, a.id, a.ver, a.ref) /\ a.ver = 0
  BY <1>1 DEF Artifact
<1>3. e = [prev |-> r.prev, art |-> a, hash |-> Canonical(s, n, r.prev, a), mac |-> r.mac]
  BY <1>1
<1>4. /\ e.prev = r.prev /\ e.art = a /\ e.hash = Canonical(s, n, r.prev, a) /\ e.mac = r.mac
  BY <1>3
<1>5. e.mac # e.hash
  <2>1. e.hash[4] = a
    BY <1>4, SMTT(60) DEF Canonical
  <2> QED  BY <1>1, <1>2, <1>4, <2>1
<1>6. Made(s, n, e)
  BY <1>1, <1>2, <1>3, <1>4 DEF Made
<1> QED  BY <1>5, <1>6

LEMMA EditedTable ==
    ASSUME NEW d, Table(d), NEW s \in Sessions, NEW n \in DOMAIN d.rows[s],
           NEW e, Made(s, n, e), NEW x, x = WithRow(d, s, n, e)
    PROVE  /\ Table(x)
           /\ x.heads = d.heads /\ x.bodies = d.bodies
           /\ DOMAIN x.rows[s] = DOMAIN d.rows[s]
           /\ x.rows[s][n] = e
           /\ \A m \in DOMAIN d.rows[s] \ {n} : x.rows[s][m] = d.rows[s][m]
           /\ \A t \in Sessions \ {s} : x.rows[t] = d.rows[t]
<1>1. /\ d = [rows |-> d.rows, heads |-> d.heads, bodies |-> d.bodies] /\ DOMAIN d.rows = Sessions
      /\ d.rows[s] = [m \in DOMAIN d.rows[s] |-> d.rows[s][m]]
  BY DEF Table
<1>2. /\ x = [rows |-> x.rows, heads |-> x.heads, bodies |-> x.bodies]
      /\ x.heads = d.heads /\ x.bodies = d.bodies
      /\ x.rows = [d.rows EXCEPT ![s] = [d.rows[s] EXCEPT ![n] = e]]
  BY <1>1 DEF WithRow
<1>3. /\ x.rows = [t \in Sessions |-> x.rows[t]]
      /\ x.rows[s] = [d.rows[s] EXCEPT ![n] = e]
      /\ \A t \in Sessions \ {s} : x.rows[t] = d.rows[t]
  BY <1>1, <1>2
<1>4. /\ DOMAIN x.rows[s] = DOMAIN d.rows[s]
      /\ x.rows[s][n] = e
      /\ \A m \in DOMAIN d.rows[s] \ {n} : x.rows[s][m] = d.rows[s][m]
      /\ x.rows[s] = [m \in DOMAIN x.rows[s] |-> x.rows[s][m]]
  BY <1>1, <1>3
<1>5. ASSUME NEW t \in Sessions
      PROVE  /\ Bounded(DOMAIN x.rows[t])
             /\ x.rows[t] = [m \in DOMAIN x.rows[t] |-> x.rows[t][m]]
             /\ \A m \in DOMAIN x.rows[t] : Made(t, m, x.rows[t][m])
  <2>1. CASE t = s
    <3>1. /\ Bounded(DOMAIN d.rows[s])
          /\ \A m \in DOMAIN d.rows[s] : Made(s, m, d.rows[s][m])
      BY DEF Table
    <3>2. \A m \in DOMAIN x.rows[s] : Made(s, m, x.rows[s][m])
      BY <1>4, <3>1
    <3> QED  BY <1>4, <2>1, <3>1, <3>2
  <2>2. CASE t # s
    BY <1>3, <2>2 DEF Table
  <2> QED  BY <2>1, <2>2
<1>6. Table(x)
  BY <1>2, <1>3, <1>5 DEF Table
<1> QED  BY <1>2, <1>3, <1>4, <1>6

(* x has the entries of d. *)
LEMMA SameRowsTable ==
    ASSUME NEW d, Table(d), NEW x, x.rows = d.rows,
           x = [rows |-> x.rows, heads |-> x.heads, bodies |-> x.bodies]
    PROVE  Table(x) /\ \A A : Vouched(d, A) => Vouched(x, A)
BY DEF Table, Vouched

(* An edit leaves no MAC that fits, a loss takes entries away. *)
LEMMA LostVouched ==
    ASSUME NEW d, NEW x, NEW A, Vouched(d, A), NEW s \in Sessions,
           DOMAIN x.rows[s] \subseteq DOMAIN d.rows[s],
           \A m \in DOMAIN x.rows[s] : x.rows[s][m] = d.rows[s][m]
                                        \/ x.rows[s][m].mac # x.rows[s][m].hash,
           \A t \in Sessions \ {s} : x.rows[t] = d.rows[t]
    PROVE  Vouched(x, A)
<1> SUFFICES ASSUME NEW t \in Sessions, NEW m \in DOMAIN x.rows[t],
                    x.rows[t][m].mac = x.rows[t][m].hash
             PROVE  x.rows[t][m].hash \in A
  BY DEF Vouched
<1>1. m \in DOMAIN d.rows[t] /\ x.rows[t][m] = d.rows[t][m]
  OBVIOUS
<1> QED  BY <1>1 DEF Vouched

(* What the changes from outside leave of the table. *)
LEMMA RewrittenAuth ==
    ASSUME AuthInv, NEW x, Rewritten(x), Table(x), Vouched(x, acked)
    PROVE  AuthInv'
BY DEF AuthInv, Rewritten

LEMMA LoseRowAuth ==
    ASSUME AuthInv, NEW s \in Sessions, NEW n, LoseRow(s, n)
    PROVE  AuthInv'
<1> DEFINE x == WithoutRow(view, s, n)
<1>1. Rewritten(x)
  BY DEF LoseRow, WithoutRow
<1> HIDE DEF x
<1>2. Table(view) /\ Vouched(view, acked)
  BY <1>1 DEF AuthInv, Rewritten
<1>3. /\ Table(x)
      /\ DOMAIN x.rows[s] = DOMAIN view.rows[s] \ {n}
      /\ \A m \in DOMAIN x.rows[s] : x.rows[s][m] = view.rows[s][m]
      /\ \A t \in Sessions \ {s} : x.rows[t] = view.rows[t]
  BY <1>2, LostTable, SMTT(60) DEF x
<1>4. Vouched(x, acked)
  BY <1>2, <1>3, LostVouched, SMTT(60)
<1> QED  BY <1>1, <1>3, <1>4, RewrittenAuth

LEMMA EditRowAuth ==
    ASSUME AuthInv, NEW s \in Sessions, NEW n, EditRow(s, n)
    PROVE  AuthInv'
<1> DEFINE r == view.rows[s][n]
<1> DEFINE a == [r.art EXCEPT !.ver = 0]
<1> DEFINE e == [r EXCEPT !.art = a, !.hash = Canonical(s, n, r.prev, a)]
<1> DEFINE x == WithRow(view, s, n, e)
<1>1. n \in DOMAIN view.rows[s] /\ Rewritten(x)
  BY DEF EditRow, WithRow
<1> HIDE DEF x
<1>2. Table(view) /\ Vouched(view, acked)
  BY <1>1 DEF AuthInv, Rewritten
<1>3. Made(s, n, r)
  BY <1>1, <1>2 DEF Table
<1> HIDE DEF r
<1>4. Made(s, n, e) /\ e.mac # e.hash
  BY <1>3, EditedRow
<1> HIDE DEF e
<1>5. /\ Table(x)
      /\ DOMAIN x.rows[s] = DOMAIN view.rows[s]
      /\ x.rows[s][n] = e
      /\ \A m \in DOMAIN view.rows[s] \ {n} : x.rows[s][m] = view.rows[s][m]
      /\ \A t \in Sessions \ {s} : x.rows[t] = view.rows[t]
  BY <1>1, <1>2, <1>4, EditedTable, SMTT(60) DEF x
<1>6. Vouched(x, acked)
  BY <1>2, <1>4, <1>5, LostVouched, SMTT(60)
<1> QED  BY <1>1, <1>5, <1>6, RewrittenAuth

LEMMA OtherLossAuth ==
    ASSUME AuthInv, NEW s \in Sessions, NEW n, NEW b, LoseHead(s) \/ GarbleBody(s, n, b)
    PROVE  AuthInv'
<1>1. PICK x : Rewritten(x) /\ x.rows = view.rows
                 /\ x = [rows |-> x.rows, heads |-> x.heads, bodies |-> x.bodies]
  <2>1. view = [rows |-> view.rows, heads |-> view.heads, bodies |-> view.bodies]
    BY DEF AuthInv, Table
  <2>2. CASE LoseHead(s)
    <3> DEFINE x == [view EXCEPT !.heads = [t \in DOMAIN view.heads \ {s} |-> view.heads[t]]]
    <3>1. Rewritten(x)
      BY <2>2 DEF LoseHead
    <3>2. x.rows = view.rows /\ x = [rows |-> x.rows, heads |-> x.heads, bodies |-> x.bodies]
      BY <2>1, SMTT(60)
    <3> QED  BY <3>1, <3>2
  <2>3. CASE GarbleBody(s, n, b)
    <3> DEFINE x == [view EXCEPT !.bodies[BodyKey(view.rows[s][n].art)] = b]
    <3>1. Rewritten(x)
      BY <2>3 DEF GarbleBody
    <3>2. x.rows = view.rows /\ x = [rows |-> x.rows, heads |-> x.heads, bodies |-> x.bodies]
      BY <2>1, SMTT(60)
    <3> QED  BY <3>1, <3>2
  <2> QED  BY <2>2, <2>3
<1>2. Table(view) /\ Vouched(view, acked)
  BY <1>1 DEF AuthInv, Rewritten
<1>3. Table(x) /\ Vouched(x, acked)
  BY <1>1, <1>2, SameRowsTable
<1> QED  BY <1>1, <1>3, RewrittenAuth

LEMMA AuthInit == Init => AuthInv
<1> SUFFICES ASSUME Init PROVE AuthInv
  OBVIOUS
<1>1. \A s \in Sessions : Empty.rows[s] = [n \in {} |-> {}] /\ DOMAIN Empty.rows[s] = {}
  BY DEF Empty
<1>2. Bounded({})
  BY DEF Bounded
<1>3. Empty = [rows |-> Empty.rows, heads |-> Empty.heads, bodies |-> Empty.bodies]
      /\ Empty.rows = [s \in Sessions |-> Empty.rows[s]]
  BY DEF Empty
<1>4. \A s \in Sessions : Empty.rows[s] = [n \in DOMAIN Empty.rows[s] |-> Empty.rows[s][n]]
  BY <1>1
<1>5. Table(Empty) /\ Vouched(Empty, {})
  BY <1>1, <1>2, <1>3, <1>4 DEF Table, Vouched
<1> QED  BY <1>5 DEF Init, AuthInv

(* Every step keeps AuthInv, with all the faults of Faults. *)
LEMMA AuthStep ==
    ASSUME AuthInv, [Next]_vars
    PROVE  AuthInv'
<1>1. CASE \E s \in Sessions : \E p \in Submissions(view) :
           \/ AppendCommits(s, p[1], p[2])
           \/ AppendConflicts(s, p[1])
           \/ AppendRollsBack(s, p[1])
           \/ CommitFails(s, p[1], p[2])
           \/ AppendWedged(s, p[1])
  <2>1. PICK s \in Sessions, p \in Submissions(view) :
           \/ AppendCommits(s, p[1], p[2])
           \/ AppendConflicts(s, p[1])
           \/ AppendRollsBack(s, p[1])
           \/ CommitFails(s, p[1], p[2])
           \/ AppendWedged(s, p[1])
    BY <1>1
  <2> DEFINE a == p[1]
  <2>2. a = Artifact(a.kind, a.id, a.ver, a.ref) /\ a.ver # 0
    BY SubmissionsAreVersions
  <2> HIDE DEF a
  <2>3. Table(Inserted(view, s, a, p[2]))
    BY <2>2, InsertedTable DEF AuthInv
  <2>4. Vouched(view, acked) =>
          Vouched(Inserted(view, s, a, p[2]), acked \cup {NewHash(view, s, a)})
    BY <2>2, InsertedVouched DEF AuthInv
  <2>5. CASE AppendCommits(s, a, p[2])
    <3>1. Vouched(synced, acked \cup {NewHash(view, s, a)})
      BY DEF AuthInv, Vouched
    <3> QED  BY <2>3, <2>4, <2>5, <3>1 DEF AppendCommits, AuthInv
  <2>6. CASE CommitFails(s, a, p[2])
    <3>1. tx' # "idle" /\ UNCHANGED <<committed, synced, acked>>
      BY <2>6 DEF CommitFails
    <3>2. Table(view')
      BY <2>3, <2>6 DEF CommitFails
    <3> QED  BY <3>1, <3>2 DEF AuthInv
  <2> QED  BY <2>1, <2>5, <2>6 DEF AppendConflicts, AppendRollsBack, AppendWedged, AuthInv, a
<1>2. CASE Crash
  BY <1>2 DEF Crash, AuthInv
<1>3. CASE Checkpoint
  BY <1>3 DEF Checkpoint, AuthInv
<1>4. CASE PowerLoss
  <2>1. Vouched(synced, acked \cap EntryHashes(synced))
    <3> SUFFICES ASSUME NEW s \in Sessions, NEW n \in DOMAIN synced.rows[s],
                        synced.rows[s][n].mac = synced.rows[s][n].hash
                 PROVE  synced.rows[s][n].hash \in acked \cap EntryHashes(synced)
      BY DEF Vouched
    <3>1. <<s, n>> \in Rows(synced) /\ RowAt(synced, <<s, n>>) = synced.rows[s][n]
      BY RowsAre DEF RowAt
    <3>2. synced.rows[s][n].hash \in acked
      BY DEF AuthInv, Vouched
    <3> QED  BY <3>1, <3>2 DEF EntryHashes
  <2> QED  BY <1>4, <2>1 DEF PowerLoss, AuthInv
<1>5. CASE UNCHANGED vars
  BY <1>5 DEF vars, AuthInv
<1> QED  BY <1>1, <1>2, <1>3, <1>4, <1>5, LoseRowAuth, EditRowAuth, OtherLossAuth DEF Next

(* No session that virp_chain_verify_session() finds valid holds an entry  *)
(* the daemon did not write and acknowledge, whatever was lost, edited or  *)
(* garbled in the file, and whatever crashes and power losses came between.*)
THEOREM ChainValidIsAuthentic == Spec => []ValidIsAuthentic
<1>1. AuthInv => ValidIsAuthentic
  <2> SUFFICES ASSUME AuthInv, NEW s \in Sessions, VerifySession(committed, s),
                      NEW n \in 0..committed.heads[s].seq
               PROVE  committed.rows[s][n].hash \in acked
    BY DEF ValidIsAuthentic
  <2>1. n \in DOMAIN committed.rows[s] /\ RowOk(committed, s, n)
    BY DEF VerifySession, WalkOk
  <2>2. committed.rows[s][n].mac = committed.rows[s][n].hash
    BY <2>1 DEF RowOk
  <2> QED  BY <2>1, <2>2 DEF AuthInv, Vouched
<1> QED  BY <1>1, AuthInit, AuthStep, PTL DEF Spec

-----------------------------------------------------------------------------
(* Damage, without power loss (a loss of power may undo it).  The head of  *)
(* a session covers all its entries, so what is lost or changed below it   *)
(* is met by the walk.                                                     *)

HeadsCover(d) ==
    \A s \in Sessions : s \in DOMAIN d.heads =>
        d.heads[s].seq \in Nat /\ DOMAIN d.rows[s] \subseteq 0..d.heads[s].seq

(* An entry that is missing, carries a MAC that does not fit, or has a     *)
(* body that is not what was hashed.                                       *)
Spoilt(d, s, n) ==
    n \in DOMAIN d.rows[s] =>
        d.rows[s][n].mac # d.rows[s][n].hash \/ ~BindingOk(d, d.rows[s][n].art)

(* A damaged entry stays spoilt, and under the head if there is one. *)
Marked(d, e) ==
    /\ e[1] \in Sessions /\ e[2] \in Nat
    /\ Spoilt(d, e[1], e[2])
    /\ e[1] \in DOMAIN d.heads => e[2] <= d.heads[e[1]].seq

DamageInv ==
    /\ AuthInv
    /\ HeadsCover(committed)
    /\ \A e \in damaged : Marked(committed, e)

(* Nobody submits version 0, so the MAC of an edited entry never fits. *)
LEMMA FittingIsVersion ==
    ASSUME NEW s, NEW n, NEW r, Made(s, n, r), r.mac = r.hash
    PROVE  r.art.ver # 0
<1>1. /\ r.hash = Canonical(s, n, r.prev, r.art)
      /\ r.mac[4].ver # 0
  BY SMTT(60) DEF Made
<1>2. r.hash[4] = r.art
  BY <1>1, SMTT(60) DEF Canonical
<1> QED  BY <1>1, <1>2

(* A body that is held against an entry and does not fit stays as it is:   *)
(* only a body that fits is garbled, and a stored one is not replaced.     *)
BodiesStay(d, x) ==
    \A k \in DOMAIN d.bodies :
        k \in DOMAIN x.bodies /\ (x.bodies[k] = d.bodies[k] \/ d.bodies[k] = k[2])

(* A spoilt entry stays spoilt where no entry comes back in its place. *)
LEMMA SpoiltStays ==
    ASSUME NEW d, NEW x, NEW t, NEW n, Spoilt(d, t, n), BodiesStay(d, x),
           n \in DOMAIN x.rows[t] =>
             /\ n \in DOMAIN d.rows[t]
             /\ x.rows[t][n] = d.rows[t][n] \/ x.rows[t][n].mac # x.rows[t][n].hash
    PROVE  Spoilt(x, t, n)
<1> SUFFICES ASSUME n \in DOMAIN x.rows[t], x.rows[t][n].mac = x.rows[t][n].hash
             PROVE  ~BindingOk(x, x.rows[t][n].art)
  BY DEF Spoilt
<1> DEFINE a == d.rows[t][n].art
<1>1. x.rows[t][n].art = a /\ ~BindingOk(d, a)
  BY DEF Spoilt
<1> HIDE DEF a
<1>2. /\ BodyKey(a) \in DOMAIN d.bodies /\ ~Indirect(a)
      /\ d.bodies[BodyKey(a)] \notin {ArtifactHash(a), Unbindable}
  BY <1>1 DEF BindingOk
<1>3. BodyKey(a)[2] = ArtifactHash(a)
  BY DEF BodyKey
<1>4. BodyKey(a) \in DOMAIN x.bodies /\ x.bodies[BodyKey(a)] = d.bodies[BodyKey(a)]
  BY <1>2, <1>3 DEF BodiesStay
<1>5. ~BindingOk(x, a)
  BY <1>2, <1>4 DEF BindingOk
<1> QED  BY <1>1, <1>5

(* An append covers its session, and takes the number of no entry below    *)
(* the last that is left.                                                  *)
LEMMA InsertedDamage ==
    ASSUME NEW d, Table(d), HeadsCover(d), NEW s \in Sessions, NEW a, NEW body \in BOOLEAN,
           a = Artifact(a.kind, a.id, a.ver, a.ref), a.ver # 0,
           NEW x, x = Inserted(d, s, a, body)
    PROVE  /\ HeadsCover(x)
           /\ \A e : Marked(d, e) /\ (e[1] = s => e[2] < NextSeq(d, s)) => Marked(x, e)
<1> DEFINE n == NextSeq(d, s)
<1>1. /\ n \in Nat /\ \A m \in DOMAIN d.rows[s] : m < n
      /\ DOMAIN x.rows[s] = DOMAIN d.rows[s] \cup {n}
      /\ \A m \in DOMAIN d.rows[s] : x.rows[s][m] = d.rows[s][m]
      /\ \A t \in Sessions \ {s} : x.rows[t] = d.rows[t]
      /\ x.heads = Extended(d.heads, s, HeadRow(s, n, NewHash(d, s, a)))
      /\ x.bodies = IF body THEN Stored(d.bodies, a) ELSE d.bodies
  BY InsertedTable, SMTT(60)
<1>0. n = NextSeq(d, s)
  OBVIOUS
<1> HIDE DEF n
<1>2. /\ x.heads[s].seq = n
      /\ \A t \in Sessions \ {s} : t \in DOMAIN x.heads =>
             t \in DOMAIN d.heads /\ x.heads[t] = d.heads[t]
  BY <1>1, SMTT(60) DEF Extended, HeadRow
<1>3. DOMAIN x.rows[s] \subseteq 0..n
  <2>1. DOMAIN d.rows[s] \subseteq Nat
    BY DEF Table, Bounded
  <2> QED  BY <1>1, <2>1, SMTT(60)
<1>4. HeadsCover(x)
  <2> SUFFICES ASSUME NEW t \in Sessions, t \in DOMAIN x.heads
               PROVE  x.heads[t].seq \in Nat /\ DOMAIN x.rows[t] \subseteq 0..x.heads[t].seq
    BY DEF HeadsCover
  <2>1. CASE t = s
    BY <1>1, <1>2, <1>3, <2>1
  <2>2. CASE t # s
    BY <1>1, <1>2, <2>2 DEF HeadsCover
  <2> QED  BY <2>1, <2>2
<1>5. BodiesStay(d, x)
  BY <1>1 DEF BodiesStay, Stored, Extended
<1>6. ASSUME NEW e, Marked(d, e), e[1] = s => e[2] < NextSeq(d, s) PROVE Marked(x, e)
  <2> DEFINE t == e[1]
  <2> DEFINE m == e[2]
  <2>1. t \in Sessions /\ m \in Nat /\ Spoilt(d, t, m)
        /\ (t \in DOMAIN d.heads => m <= d.heads[t].seq) /\ (t = s => m < n)
    BY <1>0, <1>6 DEF Marked
  <2> HIDE DEF t, m
  <2>2. m < n => m # n
    BY <1>1, <2>1, SMTT(60)
  <2>3. m \in DOMAIN x.rows[t] => m \in DOMAIN d.rows[t] /\ x.rows[t][m] = d.rows[t][m]
    BY <1>1, <2>1, <2>2
  <2>4. Spoilt(x, t, m)
    BY <1>5, <2>1, <2>3, SpoiltStays
  <2>5. t \in DOMAIN x.heads => m <= x.heads[t].seq
    <3>1. CASE t = s
      BY <1>1, <1>2, <2>1, <3>1, SMTT(60)
    <3>2. CASE t # s
      BY <1>2, <2>1, <3>2
    <3> QED  BY <3>1, <3>2
  <2> QED  BY <2>1, <2>4, <2>5 DEF Marked, t, m
<1> QED  BY <1>4, <1>6

(* Changes from outside: enough that the entry newly marked is spoilt, and *)
(* that no other comes back.                                               *)
LEMMA RewrittenDamage ==
    ASSUME DamageInv, AuthInv', NEW s \in Sessions, NEW n, NEW x, Rewritten(x),
           HeadsCover(x), BodiesStay(view, x),
           damaged' \subseteq damaged \cup {<<s, n>>},
           <<s, n>> \in damaged' => n \in DOMAIN view.rows[s] /\ Spoilt(x, s, n),
           \A t \in Sessions :
             /\ t \in DOMAIN x.heads => t \in DOMAIN view.heads /\ x.heads[t] = view.heads[t]
             /\ \A m \in DOMAIN x.rows[t] :
                  /\ m \in DOMAIN view.rows[t]
                  /\ x.rows[t][m] = view.rows[t][m] \/ x.rows[t][m].mac # x.rows[t][m].hash
    PROVE  DamageInv'
<1>1. committed' = x /\ view = committed /\ Table(view)
  BY DEF Rewritten, DamageInv, AuthInv
<1>2. ASSUME NEW e \in damaged' PROVE Marked(x, e)
  <2>1. CASE e = <<s, n>>
    <3>1. e[1] = s /\ e[2] = n
      BY <2>1
    <3>2. n \in DOMAIN view.rows[s] /\ Spoilt(x, s, n)
      BY <1>2, <2>1
    <3>3. n \in Nat /\ (s \in DOMAIN view.heads => n <= view.heads[s].seq)
      <4>1. n \in Nat
        BY <1>1, <3>2 DEF Table, Bounded
      <4>2. s \in DOMAIN view.heads => n \in 0..view.heads[s].seq /\ view.heads[s].seq \in Nat
        BY <1>1, <3>2 DEF DamageInv, HeadsCover
      <4> QED  BY <4>1, <4>2, SMTT(60)
    <3> QED  BY <3>1, <3>2, <3>3 DEF Marked
  <2>2. CASE e # <<s, n>>
    <3>1. Marked(view, e)
      BY <1>1, <1>2, <2>2 DEF DamageInv
    <3>2. Spoilt(x, e[1], e[2])
      BY <3>1, SpoiltStays DEF Marked
    <3> QED  BY <3>1, <3>2 DEF Marked
  <2> QED  BY <2>1, <2>2
<1> QED  BY <1>1, <1>2 DEF DamageInv

LEMMA LoseRowDamage ==
    ASSUME DamageInv, NEW s \in Sessions, NEW n, LoseRow(s, n)
    PROVE  DamageInv'
<1> DEFINE x == WithoutRow(view, s, n)
<1>1. n \in DOMAIN view.rows[s] /\ Rewritten(x) /\ damaged' = damaged \cup {<<s, n>>}
  BY DEF LoseRow, WithoutRow
<1> HIDE DEF x
<1>2. Table(view) /\ HeadsCover(view)
  BY <1>1 DEF DamageInv, AuthInv, Rewritten
<1>3. /\ x.heads = view.heads /\ x.bodies = view.bodies
      /\ DOMAIN x.rows[s] = DOMAIN view.rows[s] \ {n}
      /\ \A m \in DOMAIN x.rows[s] : x.rows[s][m] = view.rows[s][m]
      /\ \A t \in Sessions \ {s} : x.rows[t] = view.rows[t]
  BY <1>2, LostTable, SMTT(60) DEF x
<1>4. \A t \in Sessions : /\ DOMAIN x.rows[t] \subseteq DOMAIN view.rows[t]
                          /\ \A m \in DOMAIN x.rows[t] : x.rows[t][m] = view.rows[t][m]
  BY <1>3
<1>5. HeadsCover(x)
  BY <1>2, <1>3, <1>4 DEF HeadsCover
<1>6. Spoilt(x, s, n) /\ BodiesStay(view, x)
  BY <1>3 DEF Spoilt, BodiesStay
<1>7. AuthInv'
  BY LoseRowAuth DEF DamageInv
<1> QED  BY <1>1, <1>3, <1>4, <1>5, <1>6, <1>7, RewrittenDamage

LEMMA EditRowDamage ==
    ASSUME DamageInv, NEW s \in Sessions, NEW n, EditRow(s, n)
    PROVE  DamageInv'
<1> DEFINE r == view.rows[s][n]
<1> DEFINE a == [r.art EXCEPT !.ver = 0]
<1> DEFINE e == [r EXCEPT !.art = a, !.hash = Canonical(s, n, r.prev, a)]
<1> DEFINE x == WithRow(view, s, n, e)
<1>1. n \in DOMAIN view.rows[s] /\ Rewritten(x) /\ damaged' = damaged \cup {<<s, n>>}
  BY DEF EditRow, WithRow
<1> HIDE DEF x
<1>2. Table(view) /\ HeadsCover(view)
  BY <1>1 DEF DamageInv, AuthInv, Rewritten
<1>3. Made(s, n, r)
  BY <1>1, <1>2 DEF Table
<1> HIDE DEF r
<1>4. Made(s, n, e) /\ e.mac # e.hash
  BY <1>3, EditedRow
<1> HIDE DEF e
<1>5. /\ x.heads = view.heads /\ x.bodies = view.bodies
      /\ DOMAIN x.rows[s] = DOMAIN view.rows[s]
      /\ x.rows[s][n] = e
      /\ \A m \in DOMAIN view.rows[s] \ {n} : x.rows[s][m] = view.rows[s][m]
      /\ \A t \in Sessions \ {s} : x.rows[t] = view.rows[t]
  BY <1>1, <1>2, <1>4, EditedTable, SMTT(60) DEF x
<1>6. \A t \in Sessions :
        /\ DOMAIN x.rows[t] \subseteq DOMAIN view.rows[t]
        /\ \A m \in DOMAIN x.rows[t] :
             x.rows[t][m] = view.rows[t][m] \/ x.rows[t][m].mac # x.rows[t][m].hash
  BY <1>4, <1>5
<1>7. HeadsCover(x)
  BY <1>2, <1>5, <1>6 DEF HeadsCover
<1>8. Spoilt(x, s, n) /\ BodiesStay(view, x)
  BY <1>4, <1>5 DEF Spoilt, BodiesStay
<1>9. AuthInv'
  BY EditRowAuth DEF DamageInv
<1> QED  BY <1>1, <1>5, <1>6, <1>7, <1>8, <1>9, RewrittenDamage

LEMMA LoseHeadDamage ==
    ASSUME DamageInv, NEW s \in Sessions, LoseHead(s)
    PROVE  DamageInv'
<1> DEFINE x == [view EXCEPT !.heads = [t \in DOMAIN view.heads \ {s} |-> view.heads[t]]]
<1>1. Rewritten(x) /\ damaged' = damaged
  BY DEF LoseHead
<1>2. Table(view) /\ HeadsCover(view) /\ view = committed /\ committed' = x
  BY <1>1 DEF DamageInv, AuthInv, Rewritten
<1>3. view = [rows |-> view.rows, heads |-> view.heads, bodies |-> view.bodies]
  BY <1>2 DEF Table
<1>4. /\ x.rows = view.rows /\ x.bodies = view.bodies
      /\ x.heads = [t \in DOMAIN view.heads \ {s} |-> view.heads[t]]
  BY <1>3
<1> HIDE DEF x
<1>5. \A t \in Sessions : t \in DOMAIN x.heads => t \in DOMAIN view.heads /\ x.heads[t] = view.heads[t]
  BY <1>4
<1>6. HeadsCover(x) /\ BodiesStay(view, x)
  BY <1>2, <1>4, <1>5 DEF HeadsCover, BodiesStay
<1>7. ASSUME NEW e \in damaged PROVE Marked(x, e)
  <2>1. Marked(view, e)
    BY <1>2, <1>7 DEF DamageInv
  <2>2. Spoilt(x, e[1], e[2])
    BY <1>4, <1>6, <2>1, SpoiltStays DEF Marked
  <2> QED  BY <1>5, <2>1, <2>2 DEF Marked
<1>8. AuthInv'
  BY OtherLossAuth DEF DamageInv
<1> QED  BY <1>1, <1>2, <1>6, <1>7, <1>8 DEF DamageInv

LEMMA GarbleBodyDamage ==
    ASSUME DamageInv, NEW s \in Sessions, NEW n, NEW b \in {OtherBytes, Unbindable},
           GarbleBody(s, n, b)
    PROVE  DamageInv'
<1> DEFINE r == view.rows[s][n]
<1> DEFINE k == BodyKey(r.art)
<1> DEFINE x == [view EXCEPT !.bodies[k] = b]
<1>1. /\ n \in DOMAIN view.rows[s] /\ Readable(view, r.art) /\ Rewritten(x)
      /\ damaged' = IF b = Unbindable \/ Indirect(r.art) THEN damaged
                    ELSE damaged \cup {<<s, n>>}
  BY DEF GarbleBody
<1>2. Table(view) /\ HeadsCover(view) /\ view = committed /\ committed' = x
  BY <1>1 DEF DamageInv, AuthInv, Rewritten
<1>3. view = [rows |-> view.rows, heads |-> view.heads, bodies |-> view.bodies]
  BY <1>2 DEF Table
<1>4. k \in DOMAIN view.bodies /\ view.bodies[k] = ArtifactHash(r.art) /\ k[2] = ArtifactHash(r.art)
  BY <1>1 DEF Readable, BodyKey
<1> HIDE DEF k
<1>5. /\ x.rows = view.rows /\ x.heads = view.heads
      /\ x.bodies = [view.bodies EXCEPT ![k] = b]
  BY <1>3
<1> HIDE DEF x
<1>6. x.bodies[k] = b /\ k \in DOMAIN x.bodies /\ BodiesStay(view, x)
  BY <1>4, <1>5 DEF BodiesStay
<1>7. HeadsCover(x)
  BY <1>2, <1>5 DEF HeadsCover
<1>8. Made(s, n, r)
  BY <1>1, <1>2 DEF Table
<1>9. AuthInv'
  BY OtherLossAuth DEF DamageInv
<1>10. ASSUME NEW e \in damaged PROVE Marked(x, e)
  <2>1. Marked(view, e)
    BY <1>2, <1>10 DEF DamageInv
  <2>2. Spoilt(x, e[1], e[2])
    BY <1>5, <1>6, <2>1, SpoiltStays DEF Marked
  <2> QED  BY <1>5, <2>1, <2>2 DEF Marked
<1>11. CASE b = Unbindable \/ Indirect(r.art)
  <2>1. damaged' = damaged
    BY <1>1, <1>11
  <2> QED  BY <1>2, <1>7, <1>9, <1>10, <2>1 DEF DamageInv
<1>12. CASE ~(b = Unbindable \/ Indirect(r.art))
  <2>1. damaged' = damaged \cup {<<s, n>>} /\ b = OtherBytes
    BY <1>1, <1>12
  <2>2. CASE r.mac # r.hash
    <3>1. Spoilt(x, s, n)
      BY <1>5, <2>2 DEF Spoilt
    <3> QED  BY <1>1, <1>5, <1>6, <1>7, <1>9, <2>1, <3>1, RewrittenDamage
  <2>3. CASE r.mac = r.hash
    <3>1. r.art.ver # 0
      BY <1>8, <2>3, FittingIsVersion
    <3>2. ArtifactHash(r.art) # OtherBytes
      BY <3>1 DEF ArtifactHash, OtherBytes
    <3>3. ~BindingOk(x, r.art)
      BY <1>6, <1>12, <2>1, <3>2 DEF BindingOk, k
    <3>4. Spoilt(x, s, n)
      BY <1>5, <3>3 DEF Spoilt
    <3> QED  BY <1>1, <1>5, <1>6, <1>7, <1>9, <2>1, <3>4, RewrittenDamage
  <2> QED  BY <2>2, <2>3
<1> QED  BY <1>11, <1>12

LEMMA DamageStep ==
    ASSUME "power" \notin Faults, DamageInv, [Next]_vars
    PROVE  DamageInv'
<1>1. AuthInv'
  BY AuthStep DEF DamageInv
<1>2. CASE \E s \in Sessions : \E p \in Submissions(view) : AppendCommits(s, p[1], p[2])
  <2>1. PICK s \in Sessions, p \in Submissions(view) : AppendCommits(s, p[1], p[2])
    BY <1>2
  <2> DEFINE a == p[1]
  <2>2. a = Artifact(a.kind, a.id, a.ver, a.ref) /\ a.ver # 0
    BY SubmissionsAreVersions
  <2>3. p[2] \in BOOLEAN
    BY SubmissionsAreDisciplined
  <2> HIDE DEF a
  <2>4. /\ committed' = Inserted(committed, s, a, p[2]) /\ Table(committed)
        /\ damaged' = {e \in damaged : e[1] = s => e[2] < NextSeq(committed, s)}
    BY <2>1 DEF AppendCommits, DamageInv, AuthInv, a
  <2>5. /\ HeadsCover(committed')
        /\ \A e : Marked(committed, e) /\ (e[1] = s => e[2] < NextSeq(committed, s))
                    => Marked(committed', e)
    BY <2>2, <2>3, <2>4, InsertedDamage, SMTT(60) DEF DamageInv
  <2>6. \A e \in damaged' : Marked(committed', e)
    BY <2>4, <2>5 DEF DamageInv
  <2> QED  BY <1>1, <2>5, <2>6 DEF DamageInv
<1>3. CASE UNCHANGED <<committed, damaged>>
  BY <1>1, <1>3 DEF DamageInv
<1>4. CASE \E s \in Sessions, n \in 0..MaxRows :
              \/ LoseRow(s, n)
              \/ GarbleBody(s, n, OtherBytes)
              \/ GarbleBody(s, n, Unbindable)
              \/ EditRow(s, n)
  BY <1>4, LoseRowDamage, GarbleBodyDamage, EditRowDamage
<1>5. CASE \E s \in Sessions : LoseHead(s)
  BY <1>5, LoseHeadDamage
<1> QED  BY <1>2, <1>3, <1>4, <1>5 DEF Next, vars, AppendConflicts, AppendRollsBack,
            CommitFails, AppendWedged, Crash, Checkpoint, PowerLoss

(* virp_chain_verify_session() fails for ever on a session with a lost or  *)
(* edited entry or a garbled body that can be bound, whatever is appended  *)
(* afterwards, but for lost newest entries whose numbers an append takes   *)
(* again.                                                                  *)
THEOREM ChainDamageIsReported ==
    ASSUME "power" \notin Faults
    PROVE  Spec => []DamageIsReported
<1>1. Init => DamageInv
  <2> SUFFICES ASSUME Init PROVE DamageInv
    OBVIOUS
  <2>1. committed.heads = [s \in {} |-> {}] /\ damaged = {}
    BY DEF Init, Empty
  <2> QED  BY <2>1, AuthInit DEF DamageInv, HeadsCover
<1>2. DamageInv => DamageIsReported
  <2> SUFFICES ASSUME DamageInv, NEW e \in damaged, VerifySession(committed, e[1]) PROVE FALSE
    BY DEF DamageIsReported
  <2> DEFINE s == e[1]
  <2> DEFINE n == e[2]
  <2>1. s \in DOMAIN committed.heads
        /\ \A m \in 0..committed.heads[s].seq : m \in DOMAIN committed.rows[s] /\ RowOk(committed, s, m)
    BY DEF VerifySession, WalkOk
  <2>2. s \in Sessions /\ n \in Nat /\ Spoilt(committed, s, n) /\ n <= committed.heads[s].seq
    BY <2>1 DEF DamageInv, Marked
  <2>3. committed.heads[s].seq \in Nat
    BY <2>1, <2>2 DEF DamageInv, HeadsCover
  <2> HIDE DEF s, n
  <2>4. n \in 0..committed.heads[s].seq
    BY <2>2, <2>3, SMTT(60)
  <2> QED  BY <2>1, <2>2, <2>4 DEF RowOk, Spoilt
<1> QED  BY <1>1, <1>2, DamageStep, PTL DEF Spec
=============================================================================
