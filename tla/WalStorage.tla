----------------------------- MODULE WalStorage -----------------------------
(***************************************************************************)
(* ciphra-storage: a table in memory, made durable by a write-ahead log.   *)
(*                                                                         *)
(* The log file is a sequence of checksummed records. The first `synced`   *)
(* of them have been reached by an fsync and survive a power loss; the     *)
(* others are in the page cache: a process crash keeps them, a power loss  *)
(* keeps some prefix and perhaps the damaged beginning of the next one.    *)
(* Everything behind the first damaged record is discarded by open(), so   *)
(* one damaged record stands for it and for whatever follows it.           *)
(*                                                                         *)
(* compact() renames a new log over the old one and never fsyncs the       *)
(* directory. The process sees the new log at once; the disk has the old   *)
(* one under that name until the kernel writes the directory back.         *)
(***************************************************************************)
EXTENDS KV, FiniteSets

CONSTANTS Batches,   \* the batches callers commit
          MaxLog,    \* bound: records the log file may hold
          MaxBehind  \* bound: renames the disk may not have yet

ASSUME KeysFinite      == IsFiniteSet(Keys)
ASSUME BatchesAreWrites == Batches \subseteq Seq(Entries) \ {<<>>}
ASSUME MaxLogIsNat     == MaxLog \in Nat
ASSUME MaxBehindIsNat  == MaxBehind \in Nat

VARIABLES pc,        \* what the process is doing
          map,       \* Storage.map, the in-memory table
          batch,     \* the batch being committed
          file,      \* the records of ciphra.wal
          synced,    \* how many of them the last fsync reached
          tmp,       \* the records of ciphra.wal.tmp during compact()
          behind,    \* the logs replaced by renames the disk does not have yet
          acked      \* history: the table when the last call in this log returned Ok

vars == <<pc, map, batch, file, synced, tmp, behind, acked>>

-----------------------------------------------------------------------------
(* Records. A record whose checksum fails, whose length runs past the end  *)
(* of the file or whose opcode is unknown is not ok: decoding stops there. *)
Records == [ok : BOOLEAN, entries : Seq(Entries)]
Record(es) == [ok |-> TRUE, entries |-> es]
Torn == [ok |-> FALSE, entries |-> <<>>]

(* encode_record / encode_batch_record: one record, one checksum, however  *)
(* many entries the batch has.                                             *)
BugEncodePerEntry(es) == [i \in DOMAIN es |-> Record(<<es[i]>>)]
Encode(es) == <<Record(es)>>

(* The records among the first n of f that replay reaches and that decide  *)
(* the value of k: at most one.                                            *)
Deciding(f, n, k) ==
  {i \in 1..n : /\ \A j \in 1..i : f[j].ok
                /\ Touches(f[i].entries, k)
                /\ \A j \in 1..n :
                     (j > i /\ Touches(f[j].entries, k)) => \E h \in 1..j : ~f[h].ok}

(* The replay loop of open() over the first n records of f.                *)
Replay(f, n) ==
  [k \in Keys |-> IF Deciding(f, n, k) = {} THEN Absent
                  ELSE Written(f[Only(Deciding(f, n, k))].entries, k)]

(* `pos` when the replay loop ends: the length of the decodable prefix.    *)
GoodLen(f) ==
  CHOOSE n \in 0..Len(f) : /\ \A j \in 1..n : f[j].ok
                           /\ n < Len(f) => ~f[n + 1].ok

(* write_all to a fresh file of one put per live key, in key order: the    *)
(* body shared by compact(), snapshot_to() and write_snapshot().           *)
Live(m) == {k \in Keys : m[k] # Absent}
Ordered(S) ==
  CHOOSE s \in [1..Cardinality(S) -> S] : \A i, j \in DOMAIN s : s[i] = s[j] => i = j
SnapshotLog(m) ==
  [i \in 1..Cardinality(Live(m)) |->
     Record(<<[key |-> Ordered(Live(m))[i], val |-> m[Ordered(Live(m))[i]]]>>)]

-----------------------------------------------------------------------------
Init ==
  /\ pc = "down"
  /\ map = Empty
  /\ batch = <<>>
  /\ file = <<>>
  /\ synced = 0
  /\ tmp = <<>>
  /\ behind = {}
  /\ acked = Empty

(* open: replay the log up to the first damaged record, cut the rest off.  *)
(* Nothing is fsynced: a replayed record may still be unsynced.            *)
BugOpenKeepsTail ==
  /\ pc = "down"
  /\ map' = Replay(file, Len(file))
  /\ pc' = "idle"
  /\ UNCHANGED <<batch, file, synced, tmp, behind, acked>>

Open ==
  /\ pc = "down"
  /\ map' = Replay(file, Len(file))
  /\ file' = SubSeq(file, 1, GoodLen(file))
  /\ synced' = IF synced <= GoodLen(file) THEN synced ELSE GoodLen(file)
  /\ pc' = "idle"
  /\ UNCHANGED <<batch, tmp, behind, acked>>

(* The write_all of append() and of commit().                              *)
Write(es) ==
  /\ pc = "idle"
  /\ Len(file) + Len(Encode(es)) <= MaxLog
  /\ file' = file \o Encode(es)
  /\ batch' = es
  /\ pc' = "syncing"
  /\ UNCHANGED <<map, synced, tmp, behind, acked>>

(* put, delete, and commit of a batch that is not empty (committing an     *)
(* empty one returns Ok at once and changes nothing).                      *)
Put(k, v)  == Write(<<[key |-> k, val |-> v]>>)
Delete(k)  == Write(<<[key |-> k, val |-> Absent]>>)
Commit(es) == Write(es)

(* The sync_data behind each of them succeeds: apply to the table, Ok.     *)
BugApplyIgnoresDeletes ==
  /\ pc = "syncing"
  /\ synced' = Len(file)
  /\ map' = [k \in Keys |-> IF ApplyOps(map, batch)[k] = Absent
                            THEN map[k] ELSE ApplyOps(map, batch)[k]]
  /\ acked' = ApplyOps(map, batch)
  /\ batch' = <<>>
  /\ pc' = "idle"
  /\ UNCHANGED <<file, tmp, behind>>

SyncData ==
  /\ pc = "syncing"
  /\ synced' = Len(file)
  /\ map' = ApplyOps(map, batch)
  /\ acked' = ApplyOps(map, batch)
  /\ batch' = <<>>
  /\ pc' = "idle"
  /\ UNCHANGED <<file, tmp, behind>>

(* compact: write the live table to a temporary file and fsync it ...      *)
CompactWrite ==
  /\ pc = "idle"
  /\ Len(SnapshotLog(map)) <= MaxLog
  /\ Cardinality(behind) < MaxBehind
  /\ tmp' = SnapshotLog(map)
  /\ pc' = "compacting"
  /\ UNCHANGED <<map, batch, file, synced, behind, acked>>

(* ... then rename it over the log and reopen the handle. Later writes and *)
(* fsyncs go to the new file; the old one is what a power loss finds until *)
(* the directory has reached the disk.                                     *)
Logs == [file : Seq(Records), synced : Nat, acked : Tables]
ThisLog == [file |-> file, synced |-> synced, acked |-> acked]

BugCompactForgetsSync ==
  /\ pc = "compacting"
  /\ file' = tmp
  /\ behind' = behind \cup {ThisLog}
  /\ tmp' = <<>>
  /\ acked' = map
  /\ pc' = "idle"
  /\ UNCHANGED <<map, batch, synced>>

CompactRename ==
  /\ pc = "compacting"
  /\ file' = tmp
  /\ synced' = Len(tmp)
  /\ behind' = behind \cup {ThisLog}
  /\ tmp' = <<>>
  /\ acked' = map
  /\ pc' = "idle"
  /\ UNCHANGED <<map, batch>>

(* The kernel writes the directory back, at some time of its own.          *)
DirectoryWrittenBack ==
  /\ behind # {}
  /\ behind' = {}
  /\ UNCHANGED <<pc, map, batch, file, synced, tmp, acked>>

(* What is lost with the process, whichever way it ends. A leftover        *)
(* temporary file is never read: the next compact() truncates it.          *)
Stopped ==
  /\ pc' = "down"
  /\ map' = Empty
  /\ batch' = <<>>
  /\ tmp' = <<>>

(* The first n records of f, perhaps with the damaged beginning of the     *)
(* next one.                                                               *)
Cut(f, n) ==
  {SubSeq(f, 1, n)} \cup (IF n < Len(f) THEN {Append(SubSeq(f, 1, n), Torn)} ELSE {})

(* The process dies and the machine goes on: what was written stays, but   *)
(* the write_all in progress may have come to any point.                   *)
Killed ==
  /\ pc # "down"
  /\ \E n \in (IF pc = "syncing" THEN Len(file) - 1 ELSE Len(file))..Len(file) :
       file' \in Cut(file, n)
  /\ Stopped
  /\ UNCHANGED <<synced, behind, acked>>

(* The machine loses power, with the process running or not. The disk has  *)
(* this log under the log's name, or one that a rename has replaced since; *)
(* of that log the synced records, the others up to some point.            *)
PowerLoss ==
  /\ \E l \in behind \cup {ThisLog} :
       /\ \E n \in l.synced..Len(l.file) : file' \in Cut(l.file, n)
       /\ synced' = l.synced
       /\ acked' = l.acked
  /\ behind' = {}
  /\ Stopped

Next ==
  \/ Open
  \/ \E k \in Keys, v \in Values : Put(k, v)
  \/ \E k \in Keys : Delete(k)
  \/ \E es \in Batches : Commit(es)
  \/ SyncData
  \/ CompactWrite
  \/ CompactRename
  \/ DirectoryWrittenBack
  \/ Killed
  \/ PowerLoss

Spec == Init /\ [][Next]_vars

-----------------------------------------------------------------------------
(* Type invariant: the log never exceeds its bound, the fsynced part lies  *)
(* within the file, and a batch is held exactly while it is being synced.  *)
TypeOK ==
  /\ pc \in {"down", "idle", "syncing", "compacting"}
  /\ map \in Tables
  /\ batch \in Seq(Entries)
  /\ pc = "syncing" <=> batch # <<>>
  /\ file \in Seq(Records)
  /\ synced \in 0..Len(file)
  /\ tmp \in Seq(Records)
  /\ behind \subseteq Logs
  /\ acked \in Tables

(* "Durable once this returns" (put, delete, commit), as far as it goes.   *)
(* The part of the log that no crash can take away replays to exactly the  *)
(* table callers of this log were last told is committed, in every state,  *)
(* mid-write and mid-compaction too. And of each log a power loss could    *)
(* still bring back, because compact() does not fsync the directory, the   *)
(* part that is safe replays to what callers had been told before that     *)
(* compaction: the writes acknowledged since are lost with the rename, and *)
(* none before it.                                                         *)
AckedIsDurable ==
  /\ Replay(file, synced) = acked
  /\ \A l \in behind : Replay(l.file, l.synced) = l.acked

(* The open store shows what reopening it would show: outside a commit,    *)
(* get() and scan_prefix() agree with a replay of the whole log.           *)
LiveMatchesLog ==
  pc \in {"idle", "compacting"} => map = Replay(file, Len(file))

(* Refinement mapping: the possible outcomes of a crash are the replays of *)
(* the prefixes of the log that contain the fsynced part; where a rename   *)
(* is not on disk yet, a power loss may also leave those of the old logs.  *)
Survivors(f, s) == {Replay(f, n) : n \in s..Len(f)}
Outcomes == Survivors(file, synced)
Setbacks == UNION {Survivors(l.file, l.synced) : l \in behind}

Abs == INSTANCE DurableKV
         WITH up <- pc # "down", visible <- map, pending <- batch,
              outcomes <- Outcomes, setbacks <- Setbacks

(* The log implements the table of DurableKV: a process that dies, at any  *)
(* point of any call, leaves the acknowledged table, or that table with    *)
(* whole unacknowledged batches on top, never a part of one; a power loss  *)
(* too, or it leaves a table from before a checkpoint that has not settled.*)
ImplementsDurableKV == Abs!AbsSpec
=============================================================================
