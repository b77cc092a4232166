---------------------------- MODULE ReplayStore ----------------------------
(***************************************************************************)
(* The v2 observation verifier (virp_verify_observation_v2) and the        *)
(* persistent high-water store it consults last (virp_seqstore.c).         *)
(*                                                                         *)
(* Messages are delivered by a network that may duplicate, delay and       *)
(* reorder them, so a verification may be attempted on any message at any  *)
(* time.  The store's mutex makes one call of virp_seqstore_accept atomic; *)
(* what is not atomic is the write to disk, which may fail before the      *)
(* rename, or be cut off by a crash before or after it.                    *)
(***************************************************************************)
EXTENDS Integers, Sequences, FiniteSets

CONSTANTS
  Sessions,    \* session ids a handshake may draw; never drawn twice
  Nodes,       \* node ids found in observation headers
  Seqs,        \* sequence numbers found in observation headers
  MaxEntries,  \* VIRP_SEQSTORE_MAX_ENTRIES
  MaxTick,     \* bound on the LRU tick, for model checking only
  NoSession    \* the verifier's context holds no active session

ASSUME SeqsAssumption == Seqs \subseteq Nat
ASSUME MaxEntriesAssumption == MaxEntries \in Nat \ {0}
ASSUME NoSessionAssumption == NoSession \notin Sessions

VARIABLES
  entries,   \* st->entries[0 .. count-1]
  tick,      \* st->tick
  disk,      \* the file at st->path, as the next open would read it
  durable,   \* the file a power loss is certain to preserve
  cur,       \* session whose key the verifier's context holds
  used,      \* session ids drawn so far
  accepts,   \* how often each message was accepted (history)
  reply      \* the last return code

storeVars == <<entries, tick, disk, durable, cur, used, accepts, reply>>

Headers == [sid : Sessions, nid : Nodes, seq : Seqs]
Entry == [sid : Sessions, nid : Nodes, last_seq : Seqs, touched : Nat]
Line == [sid : Sessions, nid : Nodes, last_seq : Seqs]
Replies == {"none", "OK", "SESSION_INVALID", "HMAC_FAILED", "STALE_OBSERVATION",
            "REPLAY_DETECTED", "MESSAGE_TOO_LARGE", "CHAIN_DB"}

(***************************************************************************)
(* The file is one line per entry, in slot order and without the tick.     *)
(* Loading gives the entries fresh ticks in file order.                    *)
(***************************************************************************)
SeqstoreLines(es) ==
  [i \in 1 .. Len(es) |->
     [sid |-> es[i].sid, nid |-> es[i].nid, last_seq |-> es[i].last_seq]]

SeqstoreLoad(f) ==
  [i \in 1 .. Len(f) |->
     [sid |-> f[i].sid, nid |-> f[i].nid, last_seq |-> f[i].last_seq, touched |-> i]]

(***************************************************************************)
(* virp_seqstore_accept                                                    *)
(***************************************************************************)
Known(m) ==
  {i \in DOMAIN entries : entries[i].sid = m.sid /\ entries[i].nid = m.nid}

Victims(m) == {i \in DOMAIN entries : entries[i].sid # m.sid}

\* Fault: a sequence number equal to the mark passes.
IsReplay_EqualPasses(m) == \E i \in Known(m) : m.seq < entries[i].last_seq

IsReplay(m) == \E i \in Known(m) : m.seq <= entries[i].last_seq

Exhausted(m) == Known(m) = {} /\ Len(entries) >= MaxEntries /\ Victims(m) = {}

\* The slot the new mark goes to: its own, the next free one, or that of the
\* least recently touched entry of another session.
Slot(m) ==
  IF Known(m) # {} THEN {i \in Known(m) : \A j \in Known(m) : i <= j}
  ELSE IF Len(entries) < MaxEntries THEN {Len(entries) + 1}
  ELSE {i \in Victims(m) : \A j \in Victims(m) : entries[i].touched <= entries[j].touched}

Mark(m) == [sid |-> m.sid, nid |-> m.nid, last_seq |-> m.seq, touched |-> tick + 1]

Placed(m, i) ==
  IF i = Len(entries) + 1 THEN Append(entries, Mark(m))
  ELSE [entries EXCEPT ![i] = Mark(m)]

\* After a failed save the slot gets its old content back, or is given up.
RolledBack(m, i) ==
  IF i = Len(entries) + 1 THEN SubSeq(Placed(m, i), 1, Len(entries))
  ELSE [Placed(m, i) EXCEPT ![i] = entries[i]]

\* virp_verify_observation_v2 gets as far as the store.
ReachesStore(m, fresh) == cur # NoSession /\ m.sid = cur /\ fresh

Admits(m, fresh) ==
  ReachesStore(m, fresh) /\ ~ IsReplay(m) /\ ~ Exhausted(m) /\ tick < MaxTick

----------------------------------------------------------------------------
StoreInit ==
  /\ entries = <<>> /\ tick = 0
  /\ disk = <<>> /\ durable = <<>>
  /\ cur = NoSession /\ used = {}
  /\ accepts = [m \in Headers |-> 0]
  /\ reply = "none"

\* A completed handshake: a session id drawn at random, its key installed.
StartSession(s) ==
  /\ s \notin used
  /\ cur' = s
  /\ used' = used \cup {s}
  /\ UNCHANGED <<entries, tick, disk, durable, accepts, reply>>

\* Refused before the store is touched, or by the store itself.
Refuse(m, fresh) ==
  /\ \/ cur = NoSession /\ reply' = "SESSION_INVALID"
     \/ cur # NoSession /\ m.sid # cur /\ reply' = "HMAC_FAILED"
     \/ m.sid = cur /\ ~ fresh /\ reply' = "STALE_OBSERVATION"
     \/ ReachesStore(m, fresh) /\ IsReplay(m) /\ reply' = "REPLAY_DETECTED"
     \/ ReachesStore(m, fresh) /\ Exhausted(m) /\ reply' = "MESSAGE_TOO_LARGE"
  /\ UNCHANGED <<entries, tick, disk, durable, cur, used, accepts>>

\* The save went through.  The result of the directory fsync is ignored, so
\* what survives a power loss may still be the previous file.
Accept(m, fresh) ==
  /\ Admits(m, fresh)
  /\ \E i \in Slot(m) : entries' = Placed(m, i)
  /\ tick' = tick + 1
  /\ disk' = SeqstoreLines(entries')
  /\ durable' \in {durable, disk'}
  /\ accepts' = [accepts EXCEPT ![m] = @ + 1]
  /\ reply' = "OK"
  /\ UNCHANGED <<cur, used>>

\* The save failed before the rename; only the tick keeps its new value.
SaveFails(m, fresh) ==
  /\ Admits(m, fresh)
  /\ \E i \in Slot(m) : entries' = RolledBack(m, i)
  /\ tick' = tick + 1
  /\ reply' = "CHAIN_DB"
  /\ UNCHANGED <<disk, durable, cur, used, accepts>>

\* virp_seqstore_init on file f.
Reopen(f) ==
  /\ disk' = f
  /\ entries' = SeqstoreLoad(f)
  /\ tick' = Len(f)
  /\ reply' = "none"
  /\ UNCHANGED <<used, accepts>>

\* The store is closed and opened again; the context may outlive it.
StoreRestart == Reopen(disk) /\ cur' \in {cur, NoSession} /\ UNCHANGED durable

\* The process dies inside virp_seqstore_accept after the rename and before
\* the caller learns of the acceptance.
CrashAfterRename(m, fresh) ==
  /\ Admits(m, fresh)
  /\ \E i \in Slot(m) : Reopen(SeqstoreLines(Placed(m, i)))
  /\ cur' = NoSession
  /\ UNCHANGED durable

PowerLoss == Reopen(durable) /\ cur' = NoSession /\ UNCHANGED durable

StoreNext ==
  \/ \E s \in Sessions : StartSession(s)
  \/ \E m \in Headers, fresh \in BOOLEAN :
       \/ Refuse(m, fresh)
       \/ Accept(m, fresh)
       \/ SaveFails(m, fresh)
       \/ CrashAfterRename(m, fresh)
  \/ StoreRestart
  \/ PowerLoss

StoreSpec == StoreInit /\ [][StoreNext]_storeVars

----------------------------------------------------------------------------
StoreTypeOK ==
  /\ entries \in Seq(Entry) /\ Len(entries) <= MaxEntries
  /\ disk \in Seq(Line) /\ Len(disk) <= MaxEntries
  /\ durable \in Seq(Line) /\ Len(durable) <= MaxEntries
  /\ tick \in Nat
  /\ used \subseteq Sessions
  /\ cur \in used \cup {NoSession}
  /\ accepts \in [Headers -> Nat]
  /\ reply \in Replies

(***************************************************************************)
(* No observation is accepted twice: whatever is duplicated or delayed by  *)
(* the network, evicted from the full table, or lost in a crash,           *)
(* virp_verify_observation_v2 returns OK for a message at most once.       *)
(***************************************************************************)
NoReplay == \A m \in Headers : accepts[m] <= 1

(***************************************************************************)
(* The comment in virp_seqstore_accept: "on any non-OK return the store is *)
(* unchanged" - neither the marks in memory nor the file, so that a retry  *)
(* after a disk error is judged as the first attempt was.                  *)
(***************************************************************************)
UnchangedOnError ==
  [][reply' \notin {"OK", "none"} => entries' = entries /\ disk' = disk]_storeVars
============================================================================
