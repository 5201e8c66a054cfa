-------------------------- MODULE WalStorageProofs --------------------------
(***************************************************************************)
(* Proofs about WalStorage, for every finite key space, every value space, *)
(* every set of batches and every bound on the log.                        *)
(***************************************************************************)
EXTENDS WalStorage, FiniteSetTheorems, TLAPS

-----------------------------------------------------------------------------
(* Tables and batches.                                                     *)

(* Only picks an element.                                                  *)
LEMMA OnlyIn ==
  ASSUME NEW S, S # {} PROVE Only(S) \in S
BY DEF Only

(* Only picks the element of a singleton.                                  *)
LEMMA OnlySingleton ==
  ASSUME NEW x PROVE Only({x}) = x
BY DEF Only

(* apply_op stores only values the batch carries.                          *)
LEMMA WrittenType ==
  ASSUME NEW es \in Seq(Entries), NEW k, Touches(es, k)
  PROVE  Written(es, k) \in Values \cup {Absent}
<1> DEFINE i == Only(LastWriteTo(es, k))
<1>1. i \in LastWriteTo(es, k)
  BY OnlyIn DEF Touches
<1>2. i \in DOMAIN es
  BY <1>1 DEF LastWriteTo
<1>3. es[i] \in Entries
  BY <1>2
<1> QED BY <1>3 DEF Written, Entries

(* Applying a batch to a table gives a table.                              *)
LEMMA ApplyOpsType ==
  ASSUME NEW es \in Seq(Entries), NEW m \in Tables
  PROVE  ApplyOps(m, es) \in Tables
BY WrittenType DEF ApplyOps, Tables

(* A one-entry batch writes its key, and nothing else.                     *)
LEMMA SingleEntry ==
  ASSUME NEW k \in Keys, NEW v \in Values \cup {Absent}, NEW j,
         NEW es, es = <<[key |-> k, val |-> v]>>
  PROVE  /\ Touches(es, j) <=> j = k
         /\ j = k => Written(es, j) = v
<1>0. /\ DOMAIN es = {1}
      /\ es[1] = [key |-> k, val |-> v]
  OBVIOUS
<1>1. LastWriteTo(es, j) = IF j = k THEN {1} ELSE {}
  BY <1>0 DEF LastWriteTo
<1>2. Touches(es, j) <=> j = k
  BY <1>1 DEF Touches
<1>3. ASSUME j = k PROVE Written(es, j) = v
  <2>1. Only(LastWriteTo(es, j)) = 1
    BY <1>1, <1>3, OnlySingleton
  <2> QED BY <1>0, <2>1 DEF Written
<1> QED BY <1>2, <1>3

-----------------------------------------------------------------------------
(* Replay.                                                                 *)

(* Replay of n records depends on those n records only.                    *)
LEMMA ReplayPrefix ==
  ASSUME NEW f, NEW g, NEW n \in Nat,
         \A i \in 1..n : f[i] = g[i]
  PROVE  Replay(f, n) = Replay(g, n)
<1>1. ASSUME NEW k PROVE Deciding(f, n, k) = Deciding(g, n, k)
  BY DEF Deciding
<1>2. ASSUME NEW k, Deciding(f, n, k) # {}
      PROVE  f[Only(Deciding(f, n, k))] = g[Only(Deciding(g, n, k))]
  <2>1. Only(Deciding(f, n, k)) \in 1..n
    BY <1>2, OnlyIn DEF Deciding
  <2> QED BY <1>1, <2>1
<1> QED BY <1>1, <1>2 DEF Replay

(* Replay builds a table.                                                  *)
LEMMA ReplayType ==
  ASSUME NEW f \in Seq(Records), NEW n \in 0..Len(f)
  PROVE  Replay(f, n) \in Tables
<1>1. ASSUME NEW k, Deciding(f, n, k) # {}
      PROVE  Written(f[Only(Deciding(f, n, k))].entries, k) \in Values \cup {Absent}
  <2> DEFINE i == Only(Deciding(f, n, k))
  <2>1. i \in Deciding(f, n, k)
    BY <1>1, OnlyIn
  <2>2. i \in 1..Len(f) /\ Touches(f[i].entries, k)
    BY <2>1 DEF Deciding
  <2>3. f[i] \in Records
    BY <2>2
  <2>4. f[i].entries \in Seq(Entries)
    BY <2>3 DEF Records
  <2> QED BY <2>2, <2>4, WrittenType
<1> QED BY <1>1 DEF Replay, Tables

(* Nothing replayed, nothing found.                                        *)
LEMMA ReplayNothing ==
  ASSUME NEW f PROVE Replay(f, 0) = Empty
<1>1. \A k : Deciding(f, 0, k) = {}
  BY DEF Deciding
<1> QED BY <1>1 DEF Replay, Empty

(* One more sound record is one more batch applied.                        *)
LEMMA ReplayStep ==
  ASSUME NEW f, NEW n \in Nat, \A i \in 1..(n + 1) : f[i].ok
  PROVE  Replay(f, n + 1) = ApplyOps(Replay(f, n), f[n + 1].entries)
<1> DEFINE es == f[n + 1].entries
<1>1. ASSUME NEW k \in Keys
      PROVE  Replay(f, n + 1)[k] = ApplyOps(Replay(f, n), es)[k]
  <2>1. CASE Touches(es, k)
    <3>1. Deciding(f, n + 1, k) = {n + 1}
      BY <2>1 DEF Deciding
    <3> QED BY <2>1, <3>1, OnlySingleton DEF Replay, ApplyOps
  <2>2. CASE ~Touches(es, k)
    <3>1. Deciding(f, n + 1, k) = Deciding(f, n, k)
      BY <2>2 DEF Deciding
    <3> QED BY <2>2, <3>1 DEF Replay, ApplyOps
  <2> QED BY <2>1, <2>2
<1> QED BY <1>1 DEF Replay, ApplyOps

(* A damaged record ends the replay.                                       *)
LEMMA ReplayTorn ==
  ASSUME NEW f, NEW n \in Nat, ~f[n + 1].ok
  PROVE  Replay(f, n + 1) = Replay(f, n)
<1>1. ASSUME NEW k PROVE Deciding(f, n + 1, k) = Deciding(f, n, k)
  BY DEF Deciding
<1> QED BY <1>1 DEF Replay

(* GoodLen finds the end of the decodable prefix: the whole file, or all   *)
(* but a damaged last record.                                              *)
LEMMA GoodLenIs ==
  ASSUME NEW f \in Seq(Records), NEW n \in 0..Len(f),
         \A i \in 1..n : f[i].ok,
         n < Len(f) => ~f[n + 1].ok
  PROVE  GoodLen(f) = n
<1> DEFINE Ends(m) == /\ \A j \in 1..m : f[j].ok
                      /\ m < Len(f) => ~f[m + 1].ok
<1>1. ASSUME NEW m \in 0..Len(f), Ends(m) PROVE m = n
  <2>1. ~(m < n)
    BY <1>1
  <2>2. ~(n < m)
    BY <1>1
  <2> QED BY <2>1, <2>2
<1>2. Ends(n)
  OBVIOUS
<1>3. GoodLen(f) = CHOOSE m \in 0..Len(f) : Ends(m)
  BY DEF GoodLen
<1> HIDE DEF Ends
<1> QED BY <1>1, <1>2, <1>3

-----------------------------------------------------------------------------
(* Snapshots.                                                              *)

(* The live keys of a table can be listed, each once.                      *)
LEMMA OrderedKeys ==
  ASSUME NEW S, IsFiniteSet(S)
  PROVE  /\ Cardinality(S) \in Nat
         /\ Ordered(S) \in [1..Cardinality(S) -> S]
         /\ \A i, j \in 1..Cardinality(S) : Ordered(S)[i] = Ordered(S)[j] => i = j
         /\ \A x \in S : \E i \in 1..Cardinality(S) : Ordered(S)[i] = x
<1> DEFINE N == Cardinality(S)
           Inj(s) == \A i, j \in DOMAIN s : s[i] = s[j] => i = j
<1>1. N \in Nat /\ ExistsBijection(1..N, S)
  BY FS_CardinalityType
<1>2. PICK b \in [1..N -> S] : Inj(b)
  BY <1>1 DEF ExistsBijection, Bijection, Injection, Surjection, IsInjective
<1>3. Ordered(S) = CHOOSE s \in [1..N -> S] : Inj(s)
  BY DEF Ordered
<1>4. Ordered(S) \in [1..N -> S] /\ Inj(Ordered(S))
  <2> HIDE DEF Inj
  <2> QED BY <1>2, <1>3
<1>5. Ordered(S) \in Injection(1..N, S)
  BY <1>4 DEF Injection, IsInjective
<1>6. Ordered(S) \in Surjection(1..N, S)
  <2>1. Cardinality(1..N) = N
    BY <1>1, FS_Interval
  <2> QED BY <1>5, <2>1, FS_Injection
<1> QED BY <1>1, <1>4, <1>6 DEF Surjection

(* compact() and snapshot_to() write a sound log that replays to exactly   *)
(* the table it was written from.                                          *)
LEMMA SnapshotReplays ==
  ASSUME NEW m \in Tables
  PROVE  /\ SnapshotLog(m) \in Seq(Records)
         /\ \A i \in 1..Len(SnapshotLog(m)) : SnapshotLog(m)[i].ok
         /\ Replay(SnapshotLog(m), Len(SnapshotLog(m))) = m
<1> DEFINE S == Live(m)
           N == Cardinality(S)
           o == Ordered(S)
           c == SnapshotLog(m)
           e(i) == [key |-> o[i], val |-> m[o[i]]]
<1>1. /\ N \in Nat
      /\ o \in [1..N -> S]
      /\ \A i, j \in 1..N : o[i] = o[j] => i = j
      /\ \A x \in S : \E i \in 1..N : o[i] = x
  <2>1. IsFiniteSet(S)
    BY KeysFinite, FS_Subset DEF Live
  <2> QED BY <2>1, OrderedKeys
<1>2. c = [i \in 1..N |-> Record(<<e(i)>>)]
  BY DEF SnapshotLog
<1>3. \A i \in 1..N : o[i] \in Keys /\ m[o[i]] \in Values
  <2>1. \A i \in 1..N : o[i] \in S
    <3> HIDE DEF o, N, S
    <3> QED BY <1>1
  <2>2. \A k \in S : k \in Keys /\ m[k] \in Values
    BY DEF Live, Tables
  <2> QED BY <2>1, <2>2
<1>4. \A i \in 1..N : e(i) \in Entries
  BY <1>3 DEF Entries
<1>5. \A i \in 1..N : c[i] = Record(<<e(i)>>)
  BY <1>2
<1>6. c \in Seq(Records) /\ Len(c) = N
  <2>1. \A i \in 1..N : Record(<<e(i)>>) \in Records
    <3> HIDE DEF e
    <3> QED BY <1>4 DEF Record, Records
  <2>2. c \in [1..N -> Records]
    <3> HIDE DEF c, e
    <3> QED BY <1>2, <2>1
  <2> HIDE DEF c, N
  <2> QED BY <2>2, <1>1
<1>7. \A i \in 1..N : c[i].ok /\ c[i].entries = <<e(i)>>
  <2> HIDE DEF c, e, N
  <2>1. \A es : Record(es).ok /\ Record(es).entries = es
    BY DEF Record
  <2> QED BY <1>5, <2>1
<1>8. \A i \in 1..N : \A k :
         /\ Touches(c[i].entries, k) <=> k = o[i]
         /\ k = o[i] => Written(c[i].entries, k) = m[o[i]]
  <2> TAKE i \in 1..N
  <2> TAKE k
  <2>1. c[i].entries = <<[key |-> o[i], val |-> m[o[i]]]>>
    BY <1>7
  <2> HIDE DEF c, o, N, S
  <2> QED BY <2>1, <1>3, SingleEntry
<1> HIDE DEF c, o, N, e
<1>9. ASSUME NEW k \in Keys PROVE Replay(c, N)[k] = m[k]
  <2>1. CASE k \in S
    <3>1. PICK i \in 1..N : o[i] = k
      BY <1>1, <2>1
    <3>2. Deciding(c, N, k) = {i}
      <4>1. \A j \in 1..N : Touches(c[j].entries, k) <=> j = i
        BY <3>1, <1>1, <1>8
      <4>2. \A j \in 1..N : c[j].ok
        BY <1>7
      <4> QED BY <4>1, <4>2, <1>1 DEF Deciding
    <3> QED BY <3>1, <3>2, <1>8, OnlySingleton DEF Replay
  <2>2. CASE k \notin S
    <3>1. \A i \in 1..N : o[i] # k
      BY <1>1, <2>2
    <3>2. Deciding(c, N, k) = {}
      BY <3>1, <1>8 DEF Deciding
    <3> QED BY <3>2, <2>2 DEF Replay, Live
  <2> QED BY <2>1, <2>2
<1>10. Replay(c, N) = m
  BY <1>9 DEF Replay, Tables
<1> QED BY <1>6, <1>7, <1>10 DEF c

-----------------------------------------------------------------------------
(* The invariant. The three properties of the specification are not        *)
(* inductive by themselves: they need to know that a damaged record is     *)
(* only ever the unsynced end of a closed log, what exactly has been       *)
(* written while a batch waits for its fsync, what the temporary file of a *)
(* compaction holds, and that a replaced log was sound when it was.        *)

DamageAtEnd ==
  \A i \in 1..Len(file) :
     ~file[i].ok => pc = "down" /\ i = Len(file) /\ synced < i

BatchAtEnd ==
  pc = "syncing" =>
    /\ synced < Len(file)
    /\ file[Len(file)] = Record(batch)
    /\ map = Replay(file, Len(file) - 1)

TmpIsSnapshot == pc = "compacting" => tmp = SnapshotLog(map)

BehindIsSound ==
  \A l \in behind : /\ l.synced <= Len(l.file)
                    /\ \A i \in 1..Len(l.file) : l.file[i].ok

IInv ==
  /\ TypeOK
  /\ AckedIsDurable
  /\ LiveMatchesLog
  /\ DamageAtEnd
  /\ BatchAtEnd
  /\ TmpIsSnapshot
  /\ BehindIsSound

(* A store that has never been opened satisfies the invariant.             *)
LEMMA InitIInv == Init => IInv
<1> SUFFICES ASSUME Init PROVE IInv
  OBVIOUS
<1> USE DEF Init
<1>1. TypeOK
  BY DEF TypeOK, Tables, Empty
<1>2. AckedIsDurable
  BY ReplayNothing DEF AckedIsDurable
<1>3. LiveMatchesLog /\ DamageAtEnd /\ BatchAtEnd /\ TmpIsSnapshot /\ BehindIsSound
  BY DEF LiveMatchesLog, DamageAtEnd, BatchAtEnd, TmpIsSnapshot, BehindIsSound
<1> QED BY <1>1, <1>2, <1>3 DEF IInv

(* open() recovers the decodable prefix, and never shortens the synced     *)
(* part.                                                                   *)
LEMMA OpenFacts ==
  ASSUME IInv, Open
  PROVE  \E n \in synced..Len(file) :
           /\ file' = SubSeq(file, 1, n)
           /\ n = Len(file) \/ n = Len(file) - 1
           /\ \A i \in 1..n : file[i].ok
           /\ synced' = synced
           /\ map' = Replay(file, n)
           /\ map' = Replay(file, Len(file))
<1> USE DEF IInv, TypeOK
<1>1. CASE \A i \in 1..Len(file) : file[i].ok
  <2>1. GoodLen(file) = Len(file)
    BY <1>1, GoodLenIs
  <2> QED BY <1>1, <2>1 DEF Open
<1>2. CASE ~\A i \in 1..Len(file) : file[i].ok
  <2> DEFINE n == Len(file) - 1
  <2>1. /\ n \in synced..Len(file)
        /\ ~file[n + 1].ok
        /\ \A i \in 1..n : file[i].ok
    BY <1>2 DEF DamageAtEnd
  <2>2. GoodLen(file) = n
    BY <2>1, GoodLenIs, SMTT(30)
  <2>3. Replay(file, n + 1) = Replay(file, n)
    BY <2>1, ReplayTorn
  <2> QED BY <2>1, <2>2, <2>3 DEF Open
<1> QED BY <1>1, <1>2

(* open() replays what the log can be replayed to and cuts off the rest:   *)
(* the open store shows a sound log.                                       *)
LEMMA OpenIInv == IInv /\ Open => IInv'
<1> SUFFICES ASSUME IInv, Open PROVE IInv'
  OBVIOUS
<1>1. PICK n \in synced..Len(file) :
         /\ file' = SubSeq(file, 1, n)
         /\ \A i \in 1..n : file[i].ok
         /\ synced' = synced
         /\ map' = Replay(file, n)
  BY OpenFacts
<1>2. /\ file' \in Seq(Records)
      /\ Len(file') = n
      /\ \A i \in 1..n : file'[i] = file[i]
  BY <1>1 DEF IInv, TypeOK
<1>0. n \in Nat /\ synced \in 0..n
  BY DEF IInv, TypeOK
<1>3. TypeOK'
  <2>1. map' \in Tables
    BY <1>1, ReplayType DEF IInv, TypeOK
  <2> QED BY <1>1, <1>2, <2>1 DEF IInv, TypeOK, Open
<1>4. AckedIsDurable'
  <2>1. Replay(file', synced) = Replay(file, synced)
    BY <1>0, <1>2, ReplayPrefix
  <2> QED BY <1>1, <2>1 DEF IInv, AckedIsDurable, Open
<1>5. LiveMatchesLog'
  <2>1. Replay(file', n) = Replay(file, n)
    BY <1>0, <1>2, ReplayPrefix
  <2> QED BY <1>1, <1>2, <2>1 DEF LiveMatchesLog
<1>6. DamageAtEnd' /\ BatchAtEnd' /\ TmpIsSnapshot' /\ BehindIsSound'
  BY <1>1, <1>2 DEF IInv, Open, DamageAtEnd, BatchAtEnd, TmpIsSnapshot, BehindIsSound
<1> QED BY <1>3, <1>4, <1>5, <1>6 DEF IInv

(* put, delete and commit append one sound record behind a sound log.      *)
LEMMA WriteIInv ==
  ASSUME NEW es \in Seq(Entries) \ {<<>>}, IInv, Write(es)
  PROVE  IInv'
<1>1. /\ file' = Append(file, Record(es))
      /\ Record(es) \in Records
  BY DEF Write, Encode, Record, Records, IInv, TypeOK
<1>2. /\ file' \in Seq(Records)
      /\ Len(file') = Len(file) + 1
      /\ \A i \in 1..Len(file) : file'[i] = file[i]
      /\ file'[Len(file) + 1] = Record(es)
  BY <1>1 DEF IInv, TypeOK
<1>3. TypeOK'
  BY <1>2 DEF Write, IInv, TypeOK
<1>4. AckedIsDurable'
  <2>1. Replay(file', synced) = Replay(file, synced)
    BY <1>2, ReplayPrefix DEF IInv, TypeOK
  <2> QED BY <2>1 DEF IInv, AckedIsDurable, Write
<1>5. DamageAtEnd'
  BY <1>2 DEF IInv, TypeOK, DamageAtEnd, Write, Record
<1>6. BatchAtEnd'
  <2>1. Replay(file', Len(file)) = Replay(file, Len(file))
    BY <1>2, ReplayPrefix DEF IInv, TypeOK
  <2> QED BY <1>2, <2>1 DEF IInv, TypeOK, BatchAtEnd, LiveMatchesLog, Write
<1>7. LiveMatchesLog' /\ TmpIsSnapshot' /\ BehindIsSound'
  BY DEF IInv, LiveMatchesLog, TmpIsSnapshot, BehindIsSound, Write
<1> QED BY <1>3, <1>4, <1>5, <1>6, <1>7 DEF IInv

(* While a batch waits for its fsync, replaying the whole log gives the    *)
(* table with that batch applied.                                          *)
LEMMA SyncFacts ==
  ASSUME IInv, pc = "syncing"
  PROVE  Replay(file, Len(file)) = ApplyOps(map, batch)
<1> DEFINE n == Len(file) - 1
<1>1. n \in Nat /\ n + 1 = Len(file)
  BY DEF IInv, TypeOK, BatchAtEnd
<1>2. \A i \in 1..(n + 1) : file[i].ok
  BY <1>1 DEF IInv, DamageAtEnd
<1>3. file[n + 1].entries = batch
  BY <1>1 DEF IInv, BatchAtEnd, Record
<1> HIDE DEF n
<1>4. Replay(file, n + 1) = ApplyOps(Replay(file, n), file[n + 1].entries)
  BY <1>1, <1>2, ReplayStep
<1>5. Replay(file, n) = map
  BY DEF IInv, BatchAtEnd, n
<1> QED BY <1>1, <1>3, <1>4, <1>5

(* The fsync behind put, delete and commit makes the appended record       *)
(* durable and the table visible, together.                                *)
LEMMA SyncIInv == IInv /\ SyncData => IInv'
<1> SUFFICES ASSUME IInv, SyncData PROVE IInv'
  OBVIOUS
<1>1. Replay(file, Len(file)) = ApplyOps(map, batch)
  BY SyncFacts DEF SyncData
<1>2. TypeOK'
  BY ApplyOpsType DEF IInv, TypeOK, SyncData
<1>3. AckedIsDurable' /\ LiveMatchesLog'
  BY <1>1 DEF IInv, SyncData, AckedIsDurable, LiveMatchesLog
<1>4. DamageAtEnd' /\ BatchAtEnd' /\ TmpIsSnapshot' /\ BehindIsSound'
  BY DEF IInv, SyncData, DamageAtEnd, BatchAtEnd, TmpIsSnapshot, BehindIsSound
<1> QED BY <1>2, <1>3, <1>4 DEF IInv

(* compact() prepares, beside the log, a log of the same table.            *)
LEMMA CompactWriteIInv == IInv /\ CompactWrite => IInv'
<1> SUFFICES ASSUME IInv, CompactWrite PROVE IInv'
  OBVIOUS
<1>1. TypeOK'
  BY SnapshotReplays DEF IInv, TypeOK, CompactWrite
<1>2. /\ AckedIsDurable' /\ LiveMatchesLog' /\ DamageAtEnd'
      /\ BatchAtEnd' /\ TmpIsSnapshot' /\ BehindIsSound'
  BY DEF IInv, CompactWrite, AckedIsDurable, LiveMatchesLog, DamageAtEnd,
         BatchAtEnd, TmpIsSnapshot, BehindIsSound
<1> QED BY <1>1, <1>2 DEF IInv

(* The rename replaces the log by one that replays to the same table, and  *)
(* leaves a sound log behind.                                              *)
LEMMA CompactRenameIInv == IInv /\ CompactRename => IInv'
<1> SUFFICES ASSUME IInv, CompactRename PROVE IInv'
  OBVIOUS
<1>1. /\ file' \in Seq(Records)
      /\ \A i \in 1..Len(file') : file'[i].ok
      /\ Replay(file', Len(file')) = map
      /\ synced' = Len(file')
  BY SnapshotReplays DEF IInv, TypeOK, CompactRename, TmpIsSnapshot
<1>2. /\ ThisLog \in Logs
      /\ ThisLog.file = file /\ ThisLog.synced = synced /\ ThisLog.acked = acked
  BY DEF IInv, TypeOK, ThisLog, Logs
<1>3. behind' = behind \cup {ThisLog}
  BY DEF CompactRename
<1>4. TypeOK'
  <2>1. behind' \subseteq Logs
    BY <1>2, <1>3 DEF IInv, TypeOK
  <2>2. /\ pc' = "idle" /\ map' \in Tables /\ batch' = <<>> /\ tmp' = <<>> /\ acked' \in Tables
    BY DEF IInv, TypeOK, CompactRename
  <2> QED BY <1>1, <2>1, <2>2 DEF TypeOK
<1>5. AckedIsDurable' /\ BehindIsSound'
  <2>1. Replay(ThisLog.file, ThisLog.synced) = ThisLog.acked
    BY <1>2 DEF IInv, AckedIsDurable
  <2>2. \A l \in behind' : Replay(l.file, l.synced) = l.acked
    BY <1>3, <2>1 DEF IInv, AckedIsDurable
  <2>3. /\ ThisLog.synced <= Len(ThisLog.file)
        /\ \A i \in 1..Len(ThisLog.file) : ThisLog.file[i].ok
    BY <1>2 DEF IInv, TypeOK, DamageAtEnd, CompactRename
  <2>4. BehindIsSound'
    BY <1>3, <2>3 DEF IInv, BehindIsSound
  <2> QED BY <1>1, <2>2, <2>4 DEF AckedIsDurable, CompactRename
<1>6. LiveMatchesLog' /\ DamageAtEnd' /\ BatchAtEnd' /\ TmpIsSnapshot'
  BY <1>1 DEF CompactRename, LiveMatchesLog, DamageAtEnd, BatchAtEnd, TmpIsSnapshot
<1> QED BY <1>4, <1>5, <1>6 DEF IInv

(* Once the directory is on disk no replaced log can come back.            *)
LEMMA WrittenBackIInv == IInv /\ DirectoryWrittenBack => IInv'
BY DEF IInv, DirectoryWrittenBack, TypeOK, AckedIsDurable, LiveMatchesLog,
       DamageAtEnd, BatchAtEnd, TmpIsSnapshot, BehindIsSound

-----------------------------------------------------------------------------
(* Crashes.                                                                *)

(* The log f, of which s records are synced, has at most its last record   *)
(* damaged, and that one unsynced.                                         *)
SoundLog(f, s) ==
  /\ f \in Seq(Records)
  /\ s \in 0..Len(f)
  /\ \A i \in 1..Len(f) : ~f[i].ok => i = Len(f) /\ s < i

(* What of f is left in g: its first m records, sound, and perhaps a       *)
(* damaged one behind them.                                                *)
Leaves(f, m, g) ==
  /\ \A i \in 1..m : g[i] = f[i] /\ f[i].ok
  /\ Len(g) = m \/ (Len(g) = m + 1 /\ ~g[m + 1].ok)

(* A cut behind the synced part leaves a log with the synced part.         *)
LEMMA CutFacts ==
  ASSUME NEW f, NEW s, SoundLog(f, s), NEW n \in s..Len(f), NEW g \in Cut(f, n)
  PROVE  /\ g \in Seq(Records)
         /\ \E m \in s..Len(f) : Leaves(f, m, g)
<1>0. n \in Nat /\ n \in 0..Len(f) /\ s \in Nat /\ f \in Seq(Records) /\ Len(f) \in Nat
  BY DEF SoundLog
<1>1. /\ SubSeq(f, 1, n) \in Seq(Records)
      /\ Len(SubSeq(f, 1, n)) = n
      /\ \A i \in 1..n : SubSeq(f, 1, n)[i] = f[i]
  BY <1>0
<1>2. CASE g = SubSeq(f, 1, n) /\ \A i \in 1..n : f[i].ok
  BY <1>1, <1>2 DEF Leaves
<1>3. CASE g = SubSeq(f, 1, n) /\ ~\A i \in 1..n : f[i].ok
  <2>1. n = Len(f) /\ s < n /\ ~f[n].ok /\ \A i \in 1..(n - 1) : f[i].ok
    BY <1>0, <1>3 DEF SoundLog
  <2>2. n - 1 \in s..Len(f) /\ (n - 1) + 1 = n
    BY <1>0, <2>1
  <2>3. Len(g) = n /\ \A i \in 1..n : g[i] = f[i]
    BY <1>1, <1>3
  <2>4. Leaves(f, n - 1, g)
    BY <1>0, <2>1, <2>2, <2>3 DEF Leaves
  <2> QED BY <1>1, <1>3, <2>2, <2>4
<1>4. CASE n < Len(f) /\ g = Append(SubSeq(f, 1, n), Torn)
  <2>1. \A i \in 1..n : f[i].ok
    BY <1>0, <1>4 DEF SoundLog
  <2>2. Torn \in Records /\ ~Torn.ok
    BY DEF Torn, Records
  <2> DEFINE h == SubSeq(f, 1, n)
  <2> HIDE DEF h
  <2>3. /\ Append(h, Torn) \in Seq(Records)
        /\ Len(Append(h, Torn)) = n + 1
        /\ \A i \in 1..n : Append(h, Torn)[i] = h[i]
        /\ Append(h, Torn)[n + 1] = Torn
    BY <1>0, <1>1, <2>2 DEF h
  <2>4. Leaves(f, n, g)
    BY <1>1, <1>4, <2>1, <2>2, <2>3 DEF Leaves, h
  <2> QED BY <1>4, <2>3, <2>4 DEF h
<1> QED BY <1>2, <1>3, <1>4 DEF Cut

(* What is left is a sound log again, its synced part replays as before,   *)
(* and what it can replay to is among what the whole log could.            *)
LEMMA LeftFacts ==
  ASSUME NEW f, NEW s, SoundLog(f, s), NEW m \in s..Len(f), NEW g \in Seq(Records),
         Leaves(f, m, g)
  PROVE  /\ SoundLog(g, s)
         /\ Replay(g, s) = Replay(f, s)
         /\ Survivors(g, s) \subseteq Survivors(f, s)
         /\ Replay(g, s) \in Survivors(g, s)
<1>0. m \in Nat /\ s \in 0..m /\ s \in Nat /\ Len(f) \in Nat /\ m <= Len(f)
  BY DEF SoundLog
<1>1. \A j \in s..m : Replay(g, j) = Replay(f, j)
  <2> TAKE j \in s..m
  <2>1. j \in Nat /\ \A i \in 1..j : g[i] = f[i]
    BY <1>0 DEF Leaves
  <2> QED BY <2>1, ReplayPrefix
<1>2. Len(g) = m + 1 => Replay(g, m + 1) = Replay(f, m)
  <2>1. Len(g) = m + 1 => ~g[m + 1].ok
    BY <1>0 DEF Leaves
  <2> QED BY <1>0, <1>1, <2>1, ReplayTorn
<1>3. SoundLog(g, s)
  BY <1>0 DEF Leaves, SoundLog
<1>4. \A j \in s..Len(g) : \E i \in s..Len(f) : Replay(g, j) = Replay(f, i)
  <2> TAKE j \in s..Len(g)
  <2>1. CASE j \in s..m
    BY <1>0, <1>1, <2>1
  <2>2. CASE j = m + 1 /\ Len(g) = m + 1
    BY <1>0, <1>2, <2>2
  <2> QED BY <1>0, <2>1, <2>2 DEF Leaves
<1>5. Survivors(g, s) \subseteq Survivors(f, s)
  BY <1>4 DEF Survivors
<1>6. Replay(g, s) \in Survivors(g, s)
  BY <1>0 DEF Leaves, Survivors
<1> QED BY <1>0, <1>1, <1>3, <1>5, <1>6

(* Each log a crash can leave is sound.                                    *)
LEMMA LogsAreSound ==
  ASSUME IInv
  PROVE  /\ SoundLog(file, synced)
         /\ \A l \in behind : SoundLog(l.file, l.synced)
<1>1. SoundLog(file, synced)
  BY DEF IInv, TypeOK, DamageAtEnd, SoundLog
<1>2. ASSUME NEW l \in behind PROVE SoundLog(l.file, l.synced)
  <2>1. l.file \in Seq(Records) /\ l.synced \in Nat
    BY DEF IInv, TypeOK, Logs
  <2> QED BY <2>1 DEF IInv, BehindIsSound, SoundLog
<1> QED BY <1>1, <1>2

(* A process that dies leaves this log; a power loss leaves this one or    *)
(* one of the replaced ones, cut behind its synced part.                   *)
LEMMA KilledLeaves ==
  ASSUME IInv, Killed
  PROVE  /\ file' \in Seq(Records)
         /\ \E m \in synced..Len(file) : Leaves(file, m, file')
<1>1. PICK n \in synced..Len(file) : file' \in Cut(file, n)
  BY DEF Killed, IInv, TypeOK, BatchAtEnd
<1> QED BY <1>1, LogsAreSound, CutFacts

(* The log found after a power loss.                                       *)
LEMMA PowerLossLeaves ==
  ASSUME IInv, PowerLoss
  PROVE  \E l \in behind \cup {ThisLog} :
           /\ SoundLog(l.file, l.synced)
           /\ Replay(l.file, l.synced) = l.acked
           /\ l.acked \in Tables
           /\ file' \in Seq(Records)
           /\ \E m \in l.synced..Len(l.file) : Leaves(l.file, m, file')
           /\ synced' = l.synced
           /\ acked' = l.acked
<1>1. PICK l \in behind \cup {ThisLog} :
         /\ \E n \in l.synced..Len(l.file) : file' \in Cut(l.file, n)
         /\ synced' = l.synced
         /\ acked' = l.acked
  BY DEF PowerLoss
<1>2. /\ ThisLog.file = file /\ ThisLog.synced = synced /\ ThisLog.acked = acked
  BY DEF ThisLog
<1>3. SoundLog(l.file, l.synced)
  BY <1>2, LogsAreSound
<1>4. Replay(l.file, l.synced) = l.acked
  BY <1>2 DEF IInv, AckedIsDurable
<1>5. l.acked \in Tables
  BY <1>2 DEF IInv, TypeOK, Logs
<1>6. PICK n \in l.synced..Len(l.file) : file' \in Cut(l.file, n)
  BY <1>1
<1>7. file' \in Seq(Records) /\ \E m \in l.synced..Len(l.file) : Leaves(l.file, m, file')
  BY <1>3, <1>6, CutFacts
<1> QED BY <1>1, <1>3, <1>4, <1>5, <1>7

(* A closed store whose log is sound and whose safe part is what was       *)
(* acknowledged satisfies the invariant.                                   *)
LEMMA StoppedIInv ==
  ASSUME Stopped, SoundLog(file', synced'), Replay(file', synced') = acked',
         acked' \in Tables, behind' \subseteq Logs,
         \A l \in behind' : Replay(l.file, l.synced) = l.acked,
         BehindIsSound'
  PROVE  IInv'
<1>1. TypeOK'
  BY DEF TypeOK, Stopped, SoundLog, Tables, Empty
<1>2. AckedIsDurable'
  BY DEF AckedIsDurable
<1>3. DamageAtEnd'
  BY DEF DamageAtEnd, SoundLog, Stopped
<1>4. LiveMatchesLog' /\ BatchAtEnd' /\ TmpIsSnapshot'
  BY DEF Stopped, LiveMatchesLog, BatchAtEnd, TmpIsSnapshot
<1> QED BY <1>1, <1>2, <1>3, <1>4 DEF IInv

(* A process that dies at any point keeps everything acknowledged.         *)
LEMMA KilledIInv == IInv /\ Killed => IInv'
<1> SUFFICES ASSUME IInv, Killed PROVE IInv'
  OBVIOUS
<1>1. PICK m \in synced..Len(file) : Leaves(file, m, file')
  BY KilledLeaves
<1>2. SoundLog(file', synced) /\ Replay(file', synced) = Replay(file, synced)
  BY <1>1, KilledLeaves, LogsAreSound, LeftFacts
<1>3. Stopped /\ synced' = synced /\ behind' = behind /\ acked' = acked
  BY DEF Killed
<1>4. /\ acked \in Tables /\ behind \subseteq Logs
      /\ Replay(file, synced) = acked
      /\ \A l \in behind : Replay(l.file, l.synced) = l.acked
      /\ BehindIsSound'
  BY <1>3 DEF IInv, TypeOK, AckedIsDurable, BehindIsSound
<1> QED BY <1>2, <1>3, <1>4, StoppedIInv

(* A power loss keeps what was acknowledged in the log it leaves.          *)
LEMMA PowerLossIInv == IInv /\ PowerLoss => IInv'
<1> SUFFICES ASSUME IInv, PowerLoss PROVE IInv'
  OBVIOUS
<1>1. PICK l \in behind \cup {ThisLog} :
           /\ SoundLog(l.file, l.synced)
           /\ Replay(l.file, l.synced) = l.acked
           /\ l.acked \in Tables
           /\ file' \in Seq(Records)
           /\ \E m \in l.synced..Len(l.file) : Leaves(l.file, m, file')
           /\ synced' = l.synced
           /\ acked' = l.acked
  BY PowerLossLeaves
<1>2. SoundLog(file', l.synced) /\ Replay(file', l.synced) = Replay(l.file, l.synced)
  BY <1>1, LeftFacts
<1>3. Stopped /\ behind' = {}
  BY DEF PowerLoss
<1>4. BehindIsSound'
  BY <1>3 DEF BehindIsSound
<1> QED BY <1>1, <1>2, <1>3, <1>4, StoppedIInv

(* Every step of the store keeps the invariant.                            *)
LEMMA NextIInv == IInv /\ [Next]_vars => IInv'
<1> SUFFICES ASSUME IInv, [Next]_vars PROVE IInv'
  OBVIOUS
<1>1. CASE Open
  BY <1>1, OpenIInv
<1>2. CASE \E k \in Keys, v \in Values : Put(k, v)
  <2>1. PICK k \in Keys, v \in Values : Put(k, v)
    BY <1>2
  <2>2. <<[key |-> k, val |-> v]>> \in Seq(Entries) \ {<<>>}
    BY DEF Entries
  <2> QED BY <2>1, <2>2, WriteIInv DEF Put
<1>3. CASE \E k \in Keys : Delete(k)
  <2>1. PICK k \in Keys : Delete(k)
    BY <1>3
  <2>2. <<[key |-> k, val |-> Absent]>> \in Seq(Entries) \ {<<>>}
    BY DEF Entries
  <2> QED BY <2>1, <2>2, WriteIInv DEF Delete
<1>4. CASE \E es \in Batches : Commit(es)
  BY <1>4, BatchesAreWrites, WriteIInv DEF Commit
<1>5. CASE SyncData
  BY <1>5, SyncIInv
<1>6. CASE CompactWrite
  BY <1>6, CompactWriteIInv
<1>7. CASE CompactRename
  BY <1>7, CompactRenameIInv
<1>8. CASE DirectoryWrittenBack
  BY <1>8, WrittenBackIInv
<1>9. CASE Killed
  BY <1>9, KilledIInv
<1>10. CASE PowerLoss
  BY <1>10, PowerLossIInv
<1>11. CASE UNCHANGED vars
  BY <1>11 DEF vars, IInv, TypeOK, AckedIsDurable, LiveMatchesLog, DamageAtEnd,
               BatchAtEnd, TmpIsSnapshot, BehindIsSound
<1> QED BY <1>1, <1>2, <1>3, <1>4, <1>5, <1>6, <1>7, <1>8, <1>9, <1>10, <1>11 DEF Next

(* The strengthened invariant holds of every reachable state.              *)
THEOREM Invariance == Spec => []IInv
BY InitIInv, NextIInv, PTL DEF Spec

(* put, delete, commit, compact and open keep the table, the log and the   *)
(* fsync mark well formed, whenever the process is stopped.                *)
THEOREM TypeCorrect == Spec => []TypeOK
<1>1. IInv => TypeOK
  BY DEF IInv
<1> QED BY <1>1, Invariance, PTL

(* "Durable once this returns", until a power loss undoes a rename of      *)
(* compact(): whatever returned Ok is what the safe part of the log        *)
(* replays to, and a log that may still come back replays to what had      *)
(* returned Ok before the rename.                                          *)
THEOREM Durability == Spec => []AckedIsDurable
<1>1. IInv => AckedIsDurable
  BY DEF IInv
<1> QED BY <1>1, Invariance, PTL

(* The open store and a replay of its log agree.                           *)
THEOREM LiveTableIsReplay == Spec => []LiveMatchesLog
<1>1. IInv => LiveMatchesLog
  BY DEF IInv
<1> QED BY <1>1, Invariance, PTL

-----------------------------------------------------------------------------
(* Refinement.                                                             *)

(* The two copies of the table operators are the same.                     *)
LEMMA AbsOps ==
  /\ \A m, es : Abs!ApplyOps(m, es) = ApplyOps(m, es)
  /\ Abs!Empty = Empty
  /\ Abs!Entries = Entries
BY DEF Abs!ApplyOps, ApplyOps, Abs!Touches, Touches, Abs!Written, Written,
       Abs!LastWriteTo, LastWriteTo, Abs!Only, Only, Abs!Empty, Empty,
       Abs!Entries, Entries

(* An unopened, empty store is an unopened, empty abstract table.          *)
LEMMA InitRefines == Init => Abs!AbsInit
<1> SUFFICES ASSUME Init PROVE Abs!AbsInit
  OBVIOUS
<1>1. Outcomes = {Replay(file, 0)}
  BY DEF Init, Outcomes, Survivors
<1>2. Outcomes = {Empty}
  BY <1>1, ReplayNothing
<1>3. Setbacks = {}
  BY DEF Init, Setbacks
<1> QED BY <1>2, <1>3, AbsOps DEF Init, Abs!AbsInit

(* As long as no rename is added or settled, the setbacks are the same.    *)
LEMMA SetbacksSame ==
  ASSUME behind' = behind PROVE Setbacks' = Setbacks
BY DEF Setbacks, Survivors

(* open() shows one of the tables the crash may have left.                 *)
LEMMA OpenRefines ==
  ASSUME IInv, Open PROVE Abs!AbsRecover
<1>1. PICK n \in synced..Len(file) :
           /\ file' = SubSeq(file, 1, n)
           /\ n = Len(file) \/ n = Len(file) - 1
           /\ \A i \in 1..n : file[i].ok
           /\ synced' = synced
           /\ map' = Replay(file, n)
           /\ map' = Replay(file, Len(file))
  BY OpenFacts
<1>2. n \in Nat /\ synced \in 0..n /\ Len(file) \in Nat
  BY DEF IInv, TypeOK
<1>3. Len(file') = n /\ \A i \in 1..n : file'[i] = file[i]
  BY <1>1, <1>2 DEF IInv, TypeOK
<1>4. \A j \in synced..n : Replay(file', j) = Replay(file, j)
  BY <1>2, <1>3, ReplayPrefix
<1>5. Outcomes' = Outcomes
  <2>1. Outcomes' = {Replay(file', j) : j \in synced..n}
    BY <1>1, <1>3 DEF Outcomes, Survivors
  <2>2. Outcomes' = {Replay(file, j) : j \in synced..n}
    BY <1>4, <2>1
  <2>3. \A j \in synced..Len(file) : \E i \in synced..n : Replay(file, j) = Replay(file, i)
    <3> TAKE j \in synced..Len(file)
    <3>1. CASE j \in synced..n
      BY <3>1
    <3>2. CASE j \notin synced..n
      <4>1. j = Len(file) /\ n \in synced..n
        BY <1>1, <1>2, <3>2
      <4> QED BY <1>1, <4>1
    <3> QED BY <3>1, <3>2
  <2>4. synced..n \subseteq synced..Len(file)
    BY <1>1, <1>2
  <2> QED BY <2>2, <2>3, <2>4 DEF Outcomes, Survivors
<1>6. map' \in Outcomes
  BY <1>1 DEF Outcomes, Survivors
<1> QED BY <1>5, <1>6, SetbacksSame DEF Open, Abs!AbsRecover

(* Appending a record adds one outcome: the visible table with the whole   *)
(* batch on top.                                                           *)
LEMMA WriteRefines ==
  ASSUME IInv, NEW es \in Seq(Entries) \ {<<>>}, Write(es) PROVE Abs!Submit
<1>1. file'[Len(file) + 1] = Record(es)
  BY DEF Write, Encode, IInv, TypeOK
<1>2. /\ Len(file') = Len(file) + 1
      /\ \A i \in 1..Len(file) : file'[i] = file[i]
      /\ synced' = synced
      /\ Len(file) \in Nat
      /\ synced \in 0..Len(file)
  BY DEF Write, Encode, IInv, TypeOK
<1>3. Replay(file', Len(file) + 1) = ApplyOps(map, es)
  <2>1. \A i \in 1..(Len(file) + 1) : file'[i].ok
    BY <1>1, <1>2 DEF IInv, DamageAtEnd, Write, Record
  <2>2. Replay(file', Len(file)) = map
    BY <1>2, ReplayPrefix DEF IInv, LiveMatchesLog, Write
  <2>3. file'[Len(file) + 1].entries = es
    BY <1>1 DEF Record
  <2> QED BY <1>2, <2>1, <2>2, <2>3, ReplayStep
<1>4. \A j \in synced..Len(file) : Replay(file', j) = Replay(file, j)
  BY <1>2, ReplayPrefix
<1>5. Outcomes' = Outcomes \cup {ApplyOps(map, es)}
  <2>1. Outcomes' = {Replay(file', j) : j \in synced..(Len(file) + 1)}
    BY <1>2 DEF Outcomes, Survivors
  <2>2. synced..(Len(file) + 1) = (synced..Len(file)) \cup {Len(file) + 1}
    BY <1>2
  <2> QED BY <1>2, <1>3, <1>4, <2>1, <2>2 DEF Outcomes, Survivors
<1>6. batch = <<>>
  BY DEF IInv, TypeOK, Write
<1> QED BY <1>5, <1>6, SetbacksSame, AbsOps DEF Write, Abs!Submit

(* The fsync leaves a single outcome: the table now visible.               *)
LEMMA SyncRefines ==
  ASSUME IInv, SyncData PROVE Abs!Acknowledge
<1>1. Replay(file, Len(file)) = ApplyOps(map, batch)
  BY SyncFacts DEF SyncData
<1>2. Outcomes' = {Replay(file, Len(file))}
  <2>1. Outcomes' = {Replay(file, j) : j \in Len(file)..Len(file)}
    BY DEF SyncData, Outcomes, Survivors
  <2>2. Len(file)..Len(file) = {Len(file)}
    BY DEF IInv, TypeOK
  <2> QED BY <2>1, <2>2
<1>3. batch # <<>>
  BY DEF IInv, TypeOK, SyncData
<1> QED BY <1>1, <1>2, <1>3, SetbacksSame, AbsOps DEF SyncData, Abs!Acknowledge

(* Both halves of compact(): the first is invisible, the second makes the  *)
(* visible table the only outcome.                                         *)
LEMMA CompactRefines ==
  ASSUME IInv, CompactRename PROVE Abs!Checkpoint
<1>1. Replay(file', Len(file')) = map /\ synced' = Len(file') /\ Len(file') \in Nat
  BY SnapshotReplays DEF IInv, TypeOK, CompactRename, TmpIsSnapshot
<1>2. Outcomes' = {map}
  <2>1. Outcomes' = {Replay(file', j) : j \in Len(file')..Len(file')}
    BY <1>1 DEF Outcomes, Survivors
  <2>2. Len(file')..Len(file') = {Len(file')}
    BY <1>1
  <2> QED BY <1>1, <2>1, <2>2
<1>3. batch = <<>>
  BY DEF IInv, TypeOK, CompactRename
<1>4. Setbacks' = Setbacks \cup Outcomes
  <2>1. behind' = behind \cup {ThisLog}
    BY DEF CompactRename
  <2>2. ThisLog.file = file /\ ThisLog.synced = synced
    BY DEF ThisLog
  <2>3. Survivors(ThisLog.file, ThisLog.synced) = Outcomes
    BY <2>2 DEF Outcomes
  <2>4. Setbacks' = UNION {Survivors(l.file, l.synced) : l \in behind'}
    BY DEF Setbacks, Survivors
  <2> QED BY <2>1, <2>3, <2>4, Zenon DEF Setbacks
<1> QED BY <1>2, <1>3, <1>4 DEF CompactRename, Abs!Checkpoint

(* The death of the process only removes outcomes: it cannot invent one.   *)
LEMMA KilledRefines ==
  ASSUME IInv, Killed PROVE Abs!AbsCrash
<1>1. PICK m \in synced..Len(file) : Leaves(file, m, file')
  BY KilledLeaves
<1>2. /\ Survivors(file', synced) \subseteq Survivors(file, synced)
      /\ Replay(file', synced) \in Survivors(file', synced)
  BY <1>1, KilledLeaves, LogsAreSound, LeftFacts
<1>3. Outcomes' = Survivors(file', synced)
  BY DEF Outcomes, Survivors, Killed
<1>4. Outcomes' \in (SUBSET Outcomes) \ {{}}
  BY <1>2, <1>3 DEF Outcomes
<1>5. Setbacks' = Setbacks
  BY SetbacksSame DEF Killed
<1> QED BY <1>4, <1>5, AbsOps DEF Killed, Stopped, Abs!AbsCrash

(* A power loss leaves outcomes of this log, or of one a rename replaced.  *)
LEMMA PowerLossRefines ==
  ASSUME IInv, PowerLoss PROVE Abs!AbsCrash
<1>1. PICK l \in behind \cup {ThisLog} :
           /\ SoundLog(l.file, l.synced)
           /\ Replay(l.file, l.synced) = l.acked
           /\ l.acked \in Tables
           /\ file' \in Seq(Records)
           /\ \E m \in l.synced..Len(l.file) : Leaves(l.file, m, file')
           /\ synced' = l.synced
           /\ acked' = l.acked
  BY PowerLossLeaves
<1>2. /\ Survivors(file', l.synced) \subseteq Survivors(l.file, l.synced)
      /\ Replay(file', l.synced) \in Survivors(file', l.synced)
  BY <1>1, LeftFacts
<1>3. Outcomes' = Survivors(file', l.synced)
  BY <1>1 DEF Outcomes, Survivors
<1>4. Survivors(l.file, l.synced) \subseteq Outcomes \cup Setbacks
  <2>1. CASE l \in behind
    BY <2>1, Zenon DEF Setbacks
  <2>2. CASE l = ThisLog
    <3>1. l.file = file /\ l.synced = synced
      BY <2>2 DEF ThisLog
    <3> QED BY <3>1 DEF Outcomes
  <2> QED BY <2>1, <2>2
<1>5. Outcomes' \in (SUBSET (Outcomes \cup Setbacks)) \ {{}}
  BY <1>2, <1>3, <1>4
<1>6. Setbacks' = {}
  BY DEF PowerLoss, Setbacks
<1> QED BY <1>5, <1>6, AbsOps DEF PowerLoss, Stopped, Abs!AbsCrash

(* Every step of the log is a step of the abstract table, or none.         *)
LEMMA StepRefines ==
  IInv /\ [Next]_vars => [Abs!AbsNext]_(Abs!absVars)
<1> SUFFICES ASSUME IInv, [Next]_vars
             PROVE  Abs!AbsNext \/ UNCHANGED Abs!absVars
  OBVIOUS
<1> USE DEF Abs!AbsNext
<1>1. CASE Open
  BY <1>1, OpenRefines
<1>2. CASE \E k \in Keys, v \in Values : Put(k, v)
  <2>1. PICK k \in Keys, v \in Values : Put(k, v)
    BY <1>2
  <2>2. <<[key |-> k, val |-> v]>> \in Seq(Entries) \ {<<>>}
    BY DEF Entries
  <2> QED BY <2>1, <2>2, WriteRefines DEF Put
<1>3. CASE \E k \in Keys : Delete(k)
  <2>1. PICK k \in Keys : Delete(k)
    BY <1>3
  <2>2. <<[key |-> k, val |-> Absent]>> \in Seq(Entries) \ {<<>>}
    BY DEF Entries
  <2> QED BY <2>1, <2>2, WriteRefines DEF Delete
<1>4. CASE \E es \in Batches : Commit(es)
  BY <1>4, BatchesAreWrites, WriteRefines DEF Commit
<1>5. CASE SyncData
  BY <1>5, SyncRefines
<1>6. CASE CompactWrite
  BY <1>6, SetbacksSame DEF CompactWrite, Abs!absVars, Outcomes, Survivors
<1>7. CASE CompactRename
  BY <1>7, CompactRefines
<1>8. CASE DirectoryWrittenBack
  <2>1. Setbacks' = {} /\ Outcomes' = Outcomes
    BY <1>8 DEF DirectoryWrittenBack, Setbacks, Outcomes, Survivors
  <2> QED BY <1>8, <2>1 DEF DirectoryWrittenBack, Abs!Settle
<1>9. CASE Killed
  BY <1>9, KilledRefines
<1>10. CASE PowerLoss
  BY <1>10, PowerLossRefines
<1>11. CASE UNCHANGED vars
  BY <1>11, SetbacksSame DEF vars, Abs!absVars, Outcomes, Survivors
<1> QED BY <1>1, <1>2, <1>3, <1>4, <1>5, <1>6, <1>7, <1>8, <1>9, <1>10, <1>11 DEF Next

(* The write-ahead log implements DurableKV: after every crash a batch     *)
(* that was not acknowledged is all there or not at all; the acknowledged  *)
(* state survives every death of the process, and every power loss but one *)
(* that undoes a rename of compact().                                      *)
THEOREM Refinement == Spec => ImplementsDurableKV
<1>1. Init => Abs!AbsInit
  BY InitRefines
<1>2. IInv /\ [Next]_vars => [Abs!AbsNext]_(Abs!absVars)
  BY StepRefines
<1> QED BY <1>1, <1>2, Invariance, PTL DEF Spec, ImplementsDurableKV, Abs!AbsSpec
=============================================================================
