--------------------------- MODULE RotationProofs ---------------------------
(***************************************************************************)
(* Proofs about Rotation, for every set of passphrases and of tables and   *)
(* every bound on salts and audit entries.                                 *)
(***************************************************************************)
EXTENDS Rotation, FiniteSetTheorems, SequenceTheorems, TLAPS

-----------------------------------------------------------------------------
(* The inductive invariant. A database that could be found on disk, and    *)
(* the one a session reads, is sealed under one key throughout; what is    *)
(* being built in the scratch directory follows the session's database     *)
(* table by table, then entry by entry.                                    *)
Rotating == {"tables", "stamp", "rename"}

Sound(db) ==
  /\ db \in Databases /\ Len(db.entries) <= MaxAudit
  /\ Consistent(db)
  /\ db.canary = None => db.entries = <<>>

CanOpen(db) == \E p \in Passphrases : Opens(db, p)

Resealed(db, key) == [i \in 1..Len(db.entries) |-> [db.entries[i] EXCEPT !.key = key]]

ResealedTable(t) == IF view.tables[t] = None THEN None ELSE [view.tables[t] EXCEPT !.key = tmp.canary]

SessionInv ==
  /\ pc # "down" => pass \in Passphrases
  /\ pc \notin {"down", "params"} => wal.params # None
  /\ pc \in {"idle"} \cup Rotating =>
       /\ wal.canary = <<pass, wal.params>>
       /\ view.canary = wal.canary /\ view.params = wal.params
       /\ ~inTxn => view = wal
  /\ inTxn => pc = "idle"
  /\ ~inTxn => Data(view) = Data(wal)

ScratchInv ==
  /\ pc \in Rotating \cup {"sync", "clean"} => target \in Passphrases
  /\ pc \in Rotating =>
       /\ tmp # None /\ tmp.params # None /\ tmp.canary = <<target, tmp.params>>
       /\ Len(view.entries) < MaxAudit
  /\ pc = "tables" => /\ tmp.entries = <<>> /\ tmp.head = None
                      /\ \A t \in TableNames : tmp.tables[t] \in {None, ResealedTable(t)}
  /\ pc = "stamp" => /\ tmp.entries = Resealed(view, tmp.canary) /\ tmp.head = None
                     /\ \A t \in TableNames : tmp.tables[t] = ResealedTable(t)
  /\ pc = "rename" => Sound(tmp) /\ Data(tmp) = Data(view)

DirectoryInv ==
  /\ Sound(wal) /\ Sound(view)
  /\ wal.canary # None => CanOpen(wal)
  /\ \A db \in behind : Sound(db) /\ db.params # None /\ CanOpen(db)

IInv == TypeOK /\ DirectoryInv /\ SessionInv /\ ScratchInv

(* The keys there are: each has a salt that has been generated, the one a  *)
(* rotation works towards is new, and one that has been retired is that of *)
(* no database on disk. Between the fsync and the return of rotate_to no   *)
(* replaced database is left that could come back.                         *)
Issued == Passphrases \X (0..salts)
Replaced == pc \in {"sync", "clean", "params", "canary"} /\ target # None
Settled == Replaced /\ pc # "sync"

KeysInv ==
  /\ retired \subseteq Issued
  /\ wal.params \in (0..salts) \cup {None}
  /\ wal.canary \in Issued \cup {None} /\ view.canary \in Issued \cup {None}
  /\ \A db \in behind : db.params \in 0..salts /\ db.canary \in Issued \ retired
  /\ wal.canary \notin retired
  /\ wal.canary = None => retired = {}
  /\ pc = "down" => target = None
  /\ pc \in Rotating => /\ tmp.params \in 0..salts
                       /\ tmp.canary \in Issued \ (retired \cup {view.canary})
  /\ Replaced => wal.canary # None /\ view.canary # None /\ wal.canary # view.canary
  /\ Settled => behind = {}

-----------------------------------------------------------------------------
(* Chains of audit entries.                                                *)
AuditEntries == [key : MasterKeys, kind : TableNames \cup {Rotate}]
Words == TableNames \cup {Rotate}

(* How many of the first entries satisfy a test can be counted.            *)
LEMMA Countable ==
  ASSUME NEW n \in Nat, NEW S \in SUBSET (1..n)
  PROVE  IsFiniteSet(S) /\ Cardinality(S) \in 0..n
<1>1. IsFiniteSet(1..n) /\ Cardinality(1..n) = n
  BY FS_Interval
<1>2. IsFiniteSet(S) /\ Cardinality(S) <= Cardinality(1..n)
  BY <1>1, FS_Subset
<1>3. Cardinality(S) \in Nat
  BY <1>2, FS_CardinalityType
<1> QED BY <1>1, <1>2, <1>3

(* A further entry counts for its own table.                               *)
LEMMA CountAppend ==
  ASSUME NEW n \in Nat, NEW S \in SUBSET (1..n)
  PROVE  Cardinality(S \cup {n + 1}) = Cardinality(S) + 1
<1>1. IsFiniteSet(S) /\ n + 1 \notin S
  BY Countable
<1> QED BY <1>1, FS_AddElement

(* The rows of a table grow by one with an entry of that table.            *)
LEMMA RowsAppend ==
  ASSUME NEW db, NEW new, NEW e \in AuditEntries, NEW t,
         db.entries \in Seq(AuditEntries), new.entries = Append(db.entries, e)
  PROVE  /\ RowsOf(db, t) \in 0..Len(db.entries)
         /\ RowsOf(new, t) = IF e.kind = t THEN RowsOf(db, t) + 1 ELSE RowsOf(db, t)
<1> DEFINE es == db.entries
           S == {i \in 1..Len(es) : es[i].kind = t}
           T == {i \in 1..Len(Append(es, e)) : Append(es, e)[i].kind = t}
<1>1. /\ Len(es) \in Nat /\ Len(Append(es, e)) = Len(es) + 1
      /\ Append(es, e)[Len(es) + 1] = e
      /\ \A i \in 1..Len(es) : Append(es, e)[i] = es[i]
  BY LenProperties, AppendProperties
<1>2. RowsOf(db, t) = Cardinality(S) /\ RowsOf(new, t) = Cardinality(T)
  BY DEF RowsOf
<1>3. Cardinality(S) \in 0..Len(es) /\ Cardinality(S \cup {Len(es) + 1}) = Cardinality(S) + 1
  BY <1>1, Countable, CountAppend
<1>4. T = IF e.kind = t THEN S \cup {Len(es) + 1} ELSE S
  BY <1>1
<1> QED BY <1>2, <1>3, <1>4

(* The rows of a table are those of the chain's kinds.                     *)
LEMMA RowsOfKinds ==
  ASSUME NEW db, NEW new, Len(new.entries) = Len(db.entries),
         \A i \in 1..Len(db.entries) : new.entries[i].kind = db.entries[i].kind, NEW t
  PROVE  RowsOf(new, t) = RowsOf(db, t) /\ Data(new) = Data(db)
<1>1. {i \in 1..Len(new.entries) : new.entries[i].kind = t} = {i \in 1..Len(db.entries) : db.entries[i].kind = t}
  OBVIOUS
<1>2. Kinds(new) = Kinds(db)
  BY DEF Kinds
<1> QED BY <1>1, <1>2 DEF RowsOf, Data

(* Equal chains have equal rows and statements.                            *)
LEMMA SameEntries ==
  ASSUME NEW db, NEW new, new.entries = db.entries
  PROVE  /\ Data(new) = Data(db) /\ Kinds(new) = Kinds(db)
         /\ \A t : RowsOf(new, t) = RowsOf(db, t)
BY DEF RowsOf, Data, Kinds

(* An empty chain has no rows and no statements.                           *)
LEMMA EmptyChain ==
  ASSUME NEW db, db.entries = <<>>
  PROVE  /\ \A t : RowsOf(db, t) = 0
         /\ Data(db) = <<>>
<1>1. Len(<<>>) = 0
  OBVIOUS
<1>2. \A t : {i \in 1..Len(db.entries) : db.entries[i].kind = t} = {}
  BY <1>1
<1>3. \A t : RowsOf(db, t) = 0
  BY <1>2, FS_EmptySet DEF RowsOf
<1>4. Kinds(db) = <<>>
  BY <1>1 DEF Kinds
<1>5. {j \in 1..0 : <<>>[j] # Rotate} = {}
  OBVIOUS
<1>6. UpTo(<<>>, Len(<<>>)) = 0
  BY <1>1, <1>5, FS_EmptySet DEF UpTo
<1>7. StatementsOf(<<>>) = <<>>
  BY <1>6 DEF StatementsOf
<1> QED BY <1>3, <1>4, <1>7 DEF Data

(* Counting the statements of a chain with one more entry.                 *)
LEMMA UpToAppend ==
  ASSUME NEW ks \in Seq(Words), NEW x \in Words
  PROVE  /\ \A i \in 1..Len(ks) : /\ UpTo(Append(ks, x), i) = UpTo(ks, i)
                                  /\ UpTo(ks, i) \in 0..UpTo(ks, Len(ks))
         /\ UpTo(ks, Len(ks)) \in Nat
         /\ UpTo(Append(ks, x), Len(ks) + 1) =
              IF x = Rotate THEN UpTo(ks, Len(ks)) ELSE UpTo(ks, Len(ks)) + 1
<1> DEFINE n == Len(ks)
           A(i) == {j \in 1..i : ks[j] # Rotate}
           B(i) == {j \in 1..i : Append(ks, x)[j] # Rotate}
<1>1. /\ n \in Nat /\ Append(ks, x)[n + 1] = x
      /\ \A i \in 1..n : Append(ks, x)[i] = ks[i]
  BY LenProperties, AppendProperties
<1>2. ASSUME NEW i \in 1..n
      PROVE  UpTo(Append(ks, x), i) = UpTo(ks, i) /\ UpTo(ks, i) \in 0..UpTo(ks, n)
  <2>1. A(i) = B(i)
    BY <1>1
  <2>2. A(i) \in SUBSET A(n) /\ A(n) \in SUBSET (1..n) /\ A(i) \in SUBSET (1..n)
    BY <1>1
  <2>3. IsFiniteSet(A(n)) /\ Cardinality(A(i)) \in Nat /\ Cardinality(A(n)) \in Nat
    BY <1>1, <2>2, Countable
  <2>4. Cardinality(A(i)) <= Cardinality(A(n))
    BY <2>2, <2>3, FS_Subset
  <2>5. UpTo(Append(ks, x), i) = Cardinality(A(i)) /\ UpTo(ks, i) = Cardinality(A(i)) /\ UpTo(ks, n) = Cardinality(A(n))
    BY <2>1 DEF UpTo
  <2> HIDE DEF A, B, n
  <2> QED BY <2>3, <2>4, <2>5
<1>3. UpTo(ks, n) \in Nat
  <2>1. A(n) \in SUBSET (1..n)
    OBVIOUS
  <2>2. Cardinality(A(n)) \in Nat
    BY <1>1, <2>1, Countable
  <2> QED BY <2>2 DEF UpTo
<1>4. UpTo(Append(ks, x), n + 1) = IF x = Rotate THEN UpTo(ks, n) ELSE UpTo(ks, n) + 1
  <2>1. B(n + 1) = IF x = Rotate THEN A(n) ELSE A(n) \cup {n + 1}
    BY <1>1
  <2>2. A(n) \in SUBSET (1..n)
    OBVIOUS
  <2>3. Cardinality(A(n) \cup {n + 1}) = Cardinality(A(n)) + 1
    BY <1>1, <2>2, CountAppend
  <2> QED BY <2>1, <2>3 DEF UpTo
<1> QED BY <1>2, <1>3, <1>4

(* A rotation's entry adds no statement, any other entry adds its own.     *)
LEMMA StatementsAppend ==
  ASSUME NEW ks \in Seq(Words), NEW x \in Words
  PROVE  StatementsOf(Append(ks, x)) =
           IF x = Rotate THEN StatementsOf(ks) ELSE Append(StatementsOf(ks), x)
<1>0. PICK n \in Nat, m \in Nat : n = Len(ks) /\ m = UpTo(ks, n)
  BY UpToAppend, LenProperties
<1>1. PICK as : as = Append(ks, x)
  OBVIOUS
<1>2. /\ n \in Nat /\ Len(as) = n + 1 /\ as[n + 1] = x
      /\ \A i \in 1..n : as[i] = ks[i]
  BY <1>0, <1>1, LenProperties, AppendProperties
<1>3. /\ m \in Nat
      /\ \A i \in 1..n : UpTo(as, i) = UpTo(ks, i) /\ UpTo(ks, i) \in 0..m
      /\ x = Rotate => UpTo(as, n + 1) = m
      /\ x # Rotate => UpTo(as, n + 1) = m + 1
  BY <1>0, <1>1, UpToAppend
<1>4. ASSUME NEW k \in 1..m PROVE Nth(as, k) = Nth(ks, k)
  <2>1. ASSUME NEW t \in TableNames
        PROVE  (\E i \in 1..Len(as) : as[i] = t /\ UpTo(as, i) = k)
                 <=> (\E i \in 1..n : ks[i] = t /\ UpTo(ks, i) = k)
    <3>1. ASSUME NEW i \in 1..Len(as), as[i] = t, UpTo(as, i) = k
          PROVE  i \in 1..n /\ ks[i] = t /\ UpTo(ks, i) = k
      <4>1. i # n + 1
        <5> SUFFICES ASSUME i = n + 1 PROVE FALSE
          OBVIOUS
        <5>1. x # Rotate
          BY <1>2, <3>1, RotateIsNoTable, Zenon
        <5>2. k = m + 1
          BY <1>3, <3>1, <5>1, Zenon
        <5> QED BY <1>3, <5>2
      <4>2. i \in 1..n
        BY <1>2, <4>1
      <4> QED BY <1>2, <1>3, <3>1, <4>2
    <3>2. ASSUME NEW i \in 1..n, ks[i] = t, UpTo(ks, i) = k
          PROVE  i \in 1..Len(as) /\ as[i] = t /\ UpTo(as, i) = k
      <4>1. i \in 1..Len(as)
        BY <1>2
      <4>2. as[i] = t /\ UpTo(as, i) = k
        BY <1>2, <1>3, <3>2, Zenon
      <4> QED BY <4>1, <4>2
    <3> QED BY <3>1, <3>2
  <2> QED BY <1>0, <2>1, Zenon DEF Nth
<1>5. ASSUME x # Rotate PROVE Nth(as, m + 1) = x
  <2>1. x \in TableNames
    BY <1>5 DEF Words
  <2>2. \E i \in 1..Len(as) : as[i] = x /\ UpTo(as, i) = m + 1
    <3>1. n + 1 \in 1..Len(as) /\ as[n + 1] = x
      BY <1>2
    <3>2. UpTo(as, n + 1) = m + 1
      BY <1>3, <1>5, Zenon
    <3> QED BY <3>1, <3>2, Zenon
  <2>3. ASSUME NEW t \in TableNames, NEW i \in 1..Len(as), as[i] = t, UpTo(as, i) = m + 1
        PROVE  t = x
    <3>1. CASE i \in 1..n
      <4>1. m + 1 \in 0..m
        BY <1>3, <2>3, <3>1, Zenon
      <4> QED BY <1>3, <4>1
    <3>2. CASE i = n + 1
      BY <1>2, <2>3, <3>2
    <3> QED BY <1>2, <3>1, <3>2
  <2> QED BY <2>1, <2>2, <2>3 DEF Nth
<1>6. CASE x = Rotate
  <2>1. UpTo(as, Len(as)) = m /\ UpTo(ks, Len(ks)) = m
    BY <1>2, <1>3, <1>6, <1>0
  <2> QED BY <1>1, <1>4, <1>6, <2>1 DEF StatementsOf
<1>7. CASE x # Rotate
  <2> DEFINE a == StatementsOf(as)
             b == StatementsOf(ks)
             S == {Nth(ks, k) : k \in 1..m} \cup {x}
  <2>1. UpTo(as, Len(as)) = m + 1 /\ UpTo(ks, Len(ks)) = m
    BY <1>2, <1>3, <1>7, <1>0
  <2>2. b = [k \in 1..m |-> Nth(ks, k)] /\ a = [k \in 1..(m + 1) |-> Nth(as, k)]
    BY <2>1 DEF StatementsOf
  <2> HIDE DEF a, b
  <2>3. b \in Seq(S) /\ Len(b) = m /\ x \in S
    BY <1>3, <2>2
  <2>4. ASSUME NEW k \in 1..(m + 1) PROVE Nth(as, k) = (IF k = m + 1 THEN x ELSE Nth(ks, k)) /\ Nth(as, k) \in S
    <3>1. CASE k = m + 1
      BY <1>5, <1>7, <3>1
    <3>2. CASE k # m + 1
      <4>1. k \in 1..m
        BY <1>3, <3>2
      <4> QED BY <1>4, <3>2, <4>1
    <3> QED BY <3>1, <3>2
  <2>5. a \in Seq(S) /\ Len(a) = m + 1
    <3>1. PICK l \in Nat : l = m + 1
      BY <1>3
    <3>2. \A k \in 1..l : Nth(as, k) \in S
      BY <2>4, <3>1
    <3> HIDE DEF S
    <3>3. a = [k \in 1..l |-> Nth(as, k)]
      BY <2>2, <3>1
    <3>4. a \in Seq(S) /\ Len(a) = l
      <4>1. a \in [1..l -> S] /\ DOMAIN a = 1..l
        BY <3>2, <3>3, Zenon
      <4> HIDE DEF a
      <4> QED BY <3>1, <4>1
    <3> QED BY <3>1, <3>4
  <2> HIDE DEF S
  <2>6. PICK c : c = Append(b, x)
    OBVIOUS
  <2>7. c \in Seq(S) /\ Len(c) = m + 1 /\ c[m + 1] = x /\ \A k \in 1..m : c[k] = b[k]
    BY <2>3, <2>6, AppendProperties
  <2>8. \A k \in 1..(m + 1) : a[k] = c[k]
    <3> SUFFICES ASSUME NEW k \in 1..(m + 1) PROVE a[k] = c[k]
      OBVIOUS
    <3>1. a[k] = Nth(as, k)
      BY <2>2
    <3>2. CASE k = m + 1
      BY <2>4, <2>7, <3>1, <3>2
    <3>3. CASE k # m + 1
      <4>1. k \in 1..m
        BY <1>3, <3>3
      <4>2. b[k] = Nth(ks, k)
        BY <2>2, <4>1
      <4> QED BY <1>4, <2>7, <3>1, <4>1, <4>2
    <3> QED BY <3>2, <3>3
  <2>9. a = c
    BY <2>5, <2>7, <2>8, SeqEqual
  <2> QED BY <1>1, <1>7, <2>6, <2>9 DEF a, b
<1> QED BY <1>6, <1>7

-----------------------------------------------------------------------------
(* Databases.                                                              *)

(* The fields of a database.                                               *)
LEMMA Fields ==
  ASSUME NEW db \in Databases
  PROVE  /\ db.params \in (0..MaxSalts) \cup {None} /\ db.canary \in MasterKeys \cup {None}
         /\ db.head \in [key : MasterKeys, n : 1..MaxAudit] \cup {None}
         /\ db.entries \in Seq(AuditEntries) /\ Len(db.entries) \in Nat
         /\ db.tables \in [TableNames -> [key : MasterKeys, rows : 1..MaxAudit] \cup {None}]
         /\ db # None
<1>1. db.entries \in Seq(AuditEntries)
  BY DEF Databases, AuditEntries
<1>2. Len(db.entries) \in Nat
  BY <1>1, LenProperties
<1> QED BY <1>1, <1>2, NoneIsNoData DEF Databases

(* A database is its five fields.                                          *)
LEMMA Make ==
  ASSUME NEW a \in (0..MaxSalts) \cup {None}, NEW b \in MasterKeys \cup {None},
         NEW c \in [key : MasterKeys, n : 1..MaxAudit] \cup {None},
         NEW d \in Seq(AuditEntries),
         NEW e \in [TableNames -> [key : MasterKeys, rows : 1..MaxAudit] \cup {None}]
  PROVE  [params |-> a, canary |-> b, head |-> c, entries |-> d, tables |-> e] \in Databases
BY DEF Databases, AuditEntries

(* How long the chain of a consistent database is.                         *)
LEMMA HeadIsLength ==
  ASSUME NEW db, Sound(db)
  PROVE  AuditHead(db) = Len(db.entries)
<1>1. /\ db.entries \in Seq(AuditEntries) /\ Len(db.entries) \in Nat
      /\ db.canary \in MasterKeys \cup {None} /\ Len(db.entries) <= MaxAudit
  BY Fields DEF Sound
<1>2. CASE db.entries = <<>>
  BY <1>2 DEF Sound, Consistent, AuditHead
<1>3. CASE db.entries # <<>>
  <2>1. Len(db.entries) \in 1..MaxAudit
    <3>1. Len(db.entries) # 0
      BY <1>1, <1>3, EmptySeq
    <3> QED BY <1>1, <3>1, RotationBounds
  <2>2. db.canary \in MasterKeys
    BY <1>1, <1>3 DEF Sound
  <2>3. db.head = [key |-> db.canary, n |-> Len(db.entries)]
    BY <1>3 DEF Sound, Consistent
  <2>4. [key |-> db.canary, n |-> Len(db.entries)] \in [key : MasterKeys, n : 1..MaxAudit]
    BY <2>1, <2>2
  <2> QED BY <2>3, <2>4, NoneIsNoData DEF AuditHead
<1> QED BY <1>2, <1>3

(* An empty database is sound, whatever its parameters and canary.         *)
LEMMA BlankSound ==
  ASSUME NEW a \in (0..MaxSalts) \cup {None}, NEW b \in MasterKeys \cup {None},
         NEW db, db = [params |-> a, canary |-> b, head |-> None, entries |-> <<>>,
                       tables |-> [t \in TableNames |-> None]]
  PROVE  Sound(db) /\ db.params = a /\ db.canary = b /\ Data(db) = <<>>
         /\ db.head = None /\ db.entries = <<>> /\ \A t \in TableNames : db.tables[t] = None
<1>1. <<>> \in Seq(AuditEntries) /\ Len(<<>>) = 0
  OBVIOUS
<1>2. [t \in TableNames |-> None] \in [TableNames -> [key : MasterKeys, rows : 1..MaxAudit] \cup {None}]
  OBVIOUS
<1>3. /\ db \in Databases /\ db.params = a /\ db.canary = b /\ db.head = None
      /\ db.entries = <<>> /\ db.tables = [t \in TableNames |-> None]
  <2>1. PICK e : e = [t \in TableNames |-> None]
    OBVIOUS
  <2>2. e \in [TableNames -> [key : MasterKeys, rows : 1..MaxAudit] \cup {None}]
    BY <1>2, <2>1, Zenon
  <2>3. None \in [key : MasterKeys, n : 1..MaxAudit] \cup {None}
    OBVIOUS
  <2>4. db = [params |-> a, canary |-> b, head |-> None, entries |-> <<>>, tables |-> e]
    BY <2>1, Zenon
  <2>5. /\ db \in Databases /\ db.params = a /\ db.canary = b /\ db.head = None
        /\ db.entries = <<>> /\ db.tables = e
    <3>1. /\ db.params = a /\ db.canary = b /\ db.head = None /\ db.entries = <<>> /\ db.tables = e
      BY <2>4
    <3>2. db \in Databases
      BY <1>1, <2>2, <2>3, <2>4 DEF Databases, AuditEntries
    <3> QED BY <3>1, <3>2
  <2> QED BY <2>1, <2>5, Zenon
<1>4. (\A t : RowsOf(db, t) = 0) /\ Data(db) = <<>>
  BY <1>3, EmptyChain
<1>5. Consistent(db)
  BY <1>1, <1>3, <1>4 DEF Consistent
<1>6. Len(db.entries) <= MaxAudit
  BY <1>1, <1>3, RotationBounds
<1> QED BY <1>3, <1>4, <1>5, <1>6 DEF Sound

(* New parameters or a new canary in a database without entries, or the    *)
(* same ones again.                                                        *)
LEMMA Reparametrised ==
  ASSUME NEW db, Sound(db), NEW a \in (0..MaxSalts) \cup {None}, NEW new, new = [db EXCEPT !.params = a]
  PROVE  /\ Sound(new) /\ new.params = a /\ new.canary = db.canary
         /\ Data(new) = Data(db) /\ new.entries = db.entries
<1>1. /\ new \in Databases /\ new.params = a /\ new.canary = db.canary /\ new.head = db.head
      /\ new.entries = db.entries /\ new.tables = db.tables
  <2>1. db \in Databases
    BY DEF Sound
  <2> QED BY <2>1 DEF Databases
<1>2. Data(new) = Data(db) /\ \A t : RowsOf(new, t) = RowsOf(db, t)
  BY <1>1, SameEntries
<1>3. Consistent(new)
  BY <1>1, <1>2 DEF Sound, Consistent
<1> QED BY <1>1, <1>2, <1>3 DEF Sound

(* An empty database gets its canary; any other one keeps it.              *)
LEMMA CanarySealed ==
  ASSUME NEW db, Sound(db), NEW b \in MasterKeys, db.canary \in {None, b}, NEW new, new = [db EXCEPT !.canary = b]
  PROVE  /\ Sound(new) /\ new.params = db.params /\ new.canary = b
         /\ Data(new) = Data(db) /\ new.entries = db.entries
<1>1. /\ new \in Databases /\ new.params = db.params /\ new.canary = b /\ new.head = db.head
      /\ new.entries = db.entries /\ new.tables = db.tables
  <2>1. db \in Databases
    BY DEF Sound
  <2> QED BY <2>1 DEF Databases
<1>2. Data(new) = Data(db) /\ \A t : RowsOf(new, t) = RowsOf(db, t)
  BY <1>1, SameEntries
<1>3. Consistent(new)
  <2>1. CASE db.canary = b
    BY <1>1, <1>2, <2>1 DEF Sound, Consistent
  <2>2. CASE db.canary = None
    <3>1. new.entries = <<>> /\ Len(<<>>) = 0 /\ db.entries = <<>>
      BY <1>1, <2>2 DEF Sound
    <3>2. \A t : RowsOf(new, t) = 0
      BY <3>1, EmptyChain
    <3>3. \A t \in TableNames : new.tables[t] = None
      BY <1>1, <1>2, <3>2 DEF Sound, Consistent
    <3>4. new.head = None
      BY <1>1, <3>1 DEF Sound, Consistent
    <3> QED BY <3>1, <3>2, <3>3, <3>4 DEF Consistent
  <2> QED BY <2>1, <2>2
<1>4. new.canary # None
  BY <1>1, NoneIsNoData
<1> QED BY <1>1, <1>2, <1>3, <1>4 DEF Sound

(* The tables have the rows of the chain with one more entry.              *)
Anticipates(db, key, kind) ==
  \A t \in TableNames :
    LET n == IF kind = t THEN RowsOf(db, t) + 1 ELSE RowsOf(db, t)
    IN  db.tables[t] = IF n = 0 THEN None ELSE [key |-> key, rows |-> n]

(* commit_with_audit: the entry is sealed under the key of the canary, it  *)
(* continues the chain, and the tables have the rows of the new chain.     *)
LEMMA AuditedSound ==
  ASSUME NEW db \in Databases, NEW key \in MasterKeys, db.canary = key, NEW kind \in Words,
         Len(db.entries) < MaxAudit, \A i \in 1..Len(db.entries) : db.entries[i].key = key,
         Anticipates(db, key, kind), NEW new, new = Audited(db, Len(db.entries), key, kind)
  PROVE  /\ Sound(new) /\ new.params = db.params /\ new.canary = key
         /\ Data(new) = IF kind = Rotate THEN Data(db) ELSE Append(Data(db), kind)
<1> DEFINE e == [key |-> key, kind |-> kind]
           es == db.entries
<1>1. es \in Seq(AuditEntries) /\ Len(es) \in Nat
  BY Fields
<1>2. e \in AuditEntries /\ e.key = key /\ e.kind = kind
  BY DEF AuditEntries, Words
<1>3. PICK as : as = Append(es, e)
  OBVIOUS
<1>4. /\ as \in Seq(AuditEntries) /\ Len(as) = Len(es) + 1 /\ as[Len(es) + 1] = e
      /\ \A i \in 1..Len(es) : as[i] = es[i]
  <2> HIDE DEF e, es
  <2> QED BY <1>1, <1>2, <1>3, AppendProperties
<1>5. PICK n : n = Len(es) + 1
  OBVIOUS
<1>6. n \in 1..MaxAudit /\ n \in Nat
  BY <1>1, <1>5, RotationBounds
<1>7. [key |-> key, n |-> n] \in [key : MasterKeys, n : 1..MaxAudit]
  BY <1>6
<1>8. /\ new.params = db.params /\ new.canary = key /\ new.entries = as
      /\ new.head = [key |-> key, n |-> n] /\ new.tables = db.tables
      /\ new \in Databases
  <2>1. new = [params |-> db.params, canary |-> key, head |-> [key |-> key, n |-> n],
               entries |-> as, tables |-> db.tables]
    <3>1. new = [db EXCEPT !.entries = as, !.head = [key |-> key, n |-> n]]
      BY <1>3, <1>5 DEF Audited
    <3> QED BY <3>1 DEF Databases
  <2>2. /\ db.params \in (0..MaxSalts) \cup {None}
        /\ db.tables \in [TableNames -> [key : MasterKeys, rows : 1..MaxAudit] \cup {None}]
    BY Fields
  <2>3. PICK h : h = [key |-> key, n |-> n]
    OBVIOUS
  <2>4. h \in [key : MasterKeys, n : 1..MaxAudit] \cup {None} /\ key \in MasterKeys \cup {None}
    BY <1>7, <2>3
  <2>5. new = [params |-> db.params, canary |-> key, head |-> h, entries |-> as, tables |-> db.tables]
    BY <2>1, <2>3, Zenon
  <2>6. /\ new.params = db.params /\ new.canary = key /\ new.entries = as
        /\ new.head = h /\ new.tables = db.tables /\ new \in Databases
    <3>1. /\ new.params = db.params /\ new.canary = key /\ new.entries = as
          /\ new.head = h /\ new.tables = db.tables
      BY <2>5
    <3>2. new \in Databases
      <4>1. PICK a, t : a = db.params /\ t = db.tables
        OBVIOUS
      <4>2. /\ a \in (0..MaxSalts) \cup {None}
            /\ t \in [TableNames -> [key : MasterKeys, rows : 1..MaxAudit] \cup {None}]
            /\ as \in Seq(AuditEntries)
            /\ new = [params |-> a, canary |-> key, head |-> h, entries |-> as, tables |-> t]
        BY <1>4, <2>2, <2>5, <4>1
      <4>3. [params |-> a, canary |-> key, head |-> h, entries |-> as, tables |-> t] \in Databases
        BY <2>4, <4>2, Make
      <4> QED BY <4>2, <4>3, Zenon
    <3> QED BY <3>1, <3>2
  <2> QED BY <2>3, <2>6, Zenon
<1>9. \A t : RowsOf(new, t) = IF kind = t THEN RowsOf(db, t) + 1 ELSE RowsOf(db, t)
  <2>1. PICK x : x = e
    OBVIOUS
  <2>3. new.entries = Append(db.entries, x) /\ x \in AuditEntries /\ x.kind = kind /\ db.entries \in Seq(AuditEntries)
    BY <1>1, <1>2, <1>3, <1>8, <2>1
  <2> SUFFICES ASSUME NEW t PROVE RowsOf(new, t) = IF kind = t THEN RowsOf(db, t) + 1 ELSE RowsOf(db, t)
    OBVIOUS
  <2>2. RowsOf(new, t) = IF x.kind = t THEN RowsOf(db, t) + 1 ELSE RowsOf(db, t)
    BY <2>3, RowsAppend, SMTT(30)
  <2> QED BY <2>2, <2>3
<1>10. \A i \in 1..Len(as) : as[i].key = key
  <2> SUFFICES ASSUME NEW i \in 1..Len(as) PROVE as[i].key = key
    OBVIOUS
  <2>1. CASE i \in 1..Len(es)
    BY <1>4, <2>1
  <2>2. CASE i = Len(es) + 1
    BY <1>2, <1>4, <2>2
  <2>3. PICK l \in Nat : l = Len(es)
    BY <1>1
  <2>4. i \in 1..(l + 1)
    BY <1>4, <2>3
  <2>5. i \in 1..l \/ i = l + 1
    BY <2>4
  <2> QED BY <2>1, <2>2, <2>3, <2>5, Zenon
<1>11. as # <<>> /\ Len(as) = n
  <2>1. Len(as) = n
    BY <1>4, <1>5
  <2>2. Len(<<>>) = 0 /\ n # 0
    BY <1>6
  <2> QED BY <2>1, <2>2, Zenon
<1>12. Consistent(new)
  BY <1>8, <1>9, <1>10, <1>11, ZenonT(60) DEF Consistent, Anticipates
<1>13. Len(new.entries) <= MaxAudit /\ new.canary # None
  BY <1>6, <1>8, <1>11, NoneIsNoData
<1>14. Kinds(new) = Append(Kinds(db), kind) /\ Kinds(db) \in Seq(Words)
  <2> DEFINE a == Kinds(new)
             b == Kinds(db)
  <2>1. \A i \in 1..Len(es) : es[i].kind \in Words
    <3>1. \A i \in 1..Len(es) : es[i] \in AuditEntries
      BY <1>1, ElementOfSeq
    <3> QED BY <3>1 DEF AuditEntries, Words
  <2>2. b \in Seq(Words) /\ Len(b) = Len(es) /\ \A i \in 1..Len(es) : b[i] = es[i].kind
    BY <1>1, <2>1 DEF Kinds
  <2>3. a = [i \in 1..Len(as) |-> as[i].kind]
    BY <1>8 DEF Kinds
  <2>4. \A i \in 1..Len(as) : as[i].kind \in Words
    <3>1. \A i \in 1..Len(as) : as[i] \in AuditEntries
      BY <1>4, ElementOfSeq
    <3> QED BY <3>1 DEF AuditEntries, Words
  <2>5. a \in Seq(Words) /\ Len(a) = Len(as)
    <3>1. a \in [1..n -> Words]
      BY <1>11, <2>3, <2>4
    <3> HIDE DEF a
    <3> QED BY <1>6, <1>11, <3>1
  <2>6. PICK c : c = Append(b, kind)
    OBVIOUS
  <2> HIDE DEF a, b
  <2>7. c \in Seq(Words) /\ Len(c) = Len(es) + 1 /\ c[Len(es) + 1] = kind /\ \A i \in 1..Len(es) : c[i] = b[i]
    BY <2>2, <2>6, AppendProperties
  <2>8. \A i \in 1..Len(as) : a[i] = c[i]
    <3> SUFFICES ASSUME NEW i \in 1..Len(as) PROVE a[i] = c[i]
      OBVIOUS
    <3>1. a[i] = as[i].kind
      BY <2>3
    <3>2. CASE i \in 1..Len(es)
      BY <1>4, <2>2, <2>7, <3>1, <3>2
    <3>3. CASE i = Len(es) + 1
      BY <1>2, <1>4, <2>7, <3>1, <3>3
    <3> QED BY <1>1, <1>4, <3>2, <3>3
  <2>9. a = c
    BY <1>4, <2>5, <2>7, <2>8, SeqEqual
  <2> QED BY <2>2, <2>6, <2>9 DEF a, b
<1>15. Data(new) = IF kind = Rotate THEN Data(db) ELSE Append(Data(db), kind)
  BY <1>14, StatementsAppend DEF Data
<1> QED BY <1>8, <1>12, <1>13, <1>15 DEF Sound

(* The rows of a table in a sound database are counted by its chain.       *)
LEMMA TableRows ==
  ASSUME NEW db, Sound(db), NEW t \in TableNames
  PROVE  /\ RowsOf(db, t) \in 0..Len(db.entries)
         /\ db.tables[t] = IF RowsOf(db, t) = 0 THEN None ELSE [key |-> db.canary, rows |-> RowsOf(db, t)]
         /\ db.tables[t] = None <=> RowsOf(db, t) = 0
         /\ RowsOf(db, t) # 0 => db.canary \in MasterKeys /\ RowsOf(db, t) \in 1..MaxAudit
<1>1. /\ db.entries \in Seq(AuditEntries) /\ Len(db.entries) \in Nat /\ Len(db.entries) <= MaxAudit
      /\ db.canary \in MasterKeys \cup {None}
  BY Fields DEF Sound
<1>2. RowsOf(db, t) \in 0..Len(db.entries)
  <2>1. {i \in 1..Len(db.entries) : db.entries[i].kind = t} \in SUBSET (1..Len(db.entries))
    OBVIOUS
  <2> QED BY <1>1, <2>1, Countable DEF RowsOf
<1>3. db.tables[t] = IF RowsOf(db, t) = 0 THEN None ELSE [key |-> db.canary, rows |-> RowsOf(db, t)]
  BY DEF Sound, Consistent
<1>4. ASSUME RowsOf(db, t) # 0 PROVE db.canary \in MasterKeys /\ RowsOf(db, t) \in 1..MaxAudit
  <2>1. db.entries # <<>>
    BY <1>4, EmptyChain
  <2>2. db.canary \in MasterKeys
    BY <1>1, <2>1 DEF Sound
  <2>3. RowsOf(db, t) \in 1..MaxAudit
    BY <1>1, <1>2, <1>4, RotationBounds
  <2> QED BY <2>2, <2>3
<1>5. ASSUME RowsOf(db, t) # 0 PROVE db.tables[t] # None
  <2>1. [key |-> db.canary, rows |-> RowsOf(db, t)] \in [key : MasterKeys, rows : 1..MaxAudit]
    BY <1>4, <1>5
  <2> QED BY <1>3, <1>5, <2>1, NoneIsNoData
<1> QED BY <1>2, <1>3, <1>4, <1>5

(* A statement: its row and its audit entry together.                      *)
LEMMA ExecutedSound ==
  ASSUME NEW db, Sound(db), NEW key \in MasterKeys, db.canary = key, NEW t \in TableNames,
         Len(db.entries) < MaxAudit, NEW new, new = Executed(db, key, t)
  PROVE  /\ Sound(new) /\ new.params = db.params /\ new.canary = key
         /\ Data(new) = Append(Data(db), t)
<1>1. /\ db \in Databases /\ Len(db.entries) \in Nat /\ AuditHead(db) = Len(db.entries)
      /\ db.tables \in [TableNames -> [key : MasterKeys, rows : 1..MaxAudit] \cup {None}]
  BY Fields, HeadIsLength DEF Sound
<1>2. PICK n : n = RowsOf(db, t) + 1
  OBVIOUS
<1>3. n \in 1..MaxAudit
  <2>1. PICK k, l : k = RowsOf(db, t) /\ l = Len(db.entries)
    OBVIOUS
  <2>2. RowsOf(db, t) \in 0..Len(db.entries)
    BY TableRows, Zenon
  <2>3. l \in Nat /\ k \in 0..l /\ l < MaxAudit /\ n = k + 1
    BY <1>1, <1>2, <2>1, <2>2, Zenon
  <2> QED BY <2>3, RotationBounds
<1>4. (IF db.tables[t] = None THEN 0 ELSE db.tables[t].rows) = RowsOf(db, t)
  <2>1. CASE RowsOf(db, t) = 0
    BY <2>1, TableRows
  <2>2. CASE RowsOf(db, t) # 0
    <3>1. db.tables[t] # None /\ db.tables[t] = [key |-> db.canary, rows |-> RowsOf(db, t)]
      BY <2>2, TableRows
    <3> QED BY <3>1
  <2> QED BY <2>1, <2>2
<1>5. PICK r : r = [key |-> key, rows |-> n]
  OBVIOUS
<1>6. r \in [key : MasterKeys, rows : 1..MaxAudit]
  BY <1>3, <1>5
<1>7. PICK d : d = [db EXCEPT !.tables[t] = r]
  OBVIOUS
<1>8. /\ d \in Databases /\ d.params = db.params /\ d.canary = db.canary /\ d.entries = db.entries
      /\ d.tables = [db.tables EXCEPT ![t] = r]
  <2>1. [db.tables EXCEPT ![t] = r] \in [TableNames -> [key : MasterKeys, rows : 1..MaxAudit] \cup {None}]
    BY <1>1, <1>6
  <2>2. d = [db EXCEPT !.tables = [db.tables EXCEPT ![t] = r]]
    BY <1>1, <1>7 DEF Databases
  <2> QED BY <1>1, <2>1, <2>2 DEF Databases
<1>9. new = Audited(d, Len(d.entries), key, t)
  <2>1. new = Audited(d, AuditHead(db), key, t)
    BY <1>2, <1>4, <1>5, <1>7 DEF Executed
  <2> QED BY <1>1, <1>8, <2>1
<1>10. Data(d) = Data(db) /\ \A u : RowsOf(d, u) = RowsOf(db, u)
  BY <1>8, SameEntries
<1>11. ASSUME NEW u \in TableNames
       PROVE  LET m == IF t = u THEN RowsOf(d, u) + 1 ELSE RowsOf(d, u)
              IN  d.tables[u] = IF m = 0 THEN None ELSE [key |-> key, rows |-> m]
  <2>1. CASE u = t
    <3>1. d.tables[u] = r /\ n # 0 /\ RowsOf(d, u) + 1 = n
      BY <1>1, <1>2, <1>3, <1>8, <1>10, <2>1
    <3> QED BY <1>5, <2>1, <3>1
  <2>2. CASE u # t
    <3>1. d.tables[u] = db.tables[u] /\ RowsOf(d, u) = RowsOf(db, u)
      BY <1>1, <1>8, <1>10, <2>2
    <3> QED BY <2>2, <3>1, TableRows
  <2> QED BY <2>1, <2>2
<1>12. \A i \in 1..Len(d.entries) : d.entries[i].key = key
  BY <1>8 DEF Sound, Consistent
<1>13. Len(d.entries) < MaxAudit /\ t \in Words /\ d.canary = key /\ t # Rotate
  BY <1>8, RotateIsNoTable DEF Words
<1>14. /\ Sound(new) /\ new.params = d.params /\ new.canary = key
       /\ Data(new) = IF t = Rotate THEN Data(d) ELSE Append(Data(d), t)
  <2>1. Anticipates(d, key, t)
    BY <1>11 DEF Anticipates
  <2> QED BY <1>8, <1>9, <1>12, <1>13, <2>1, AuditedSound
<1> QED BY <1>8, <1>10, <1>13, <1>14

(* The rotation's own entry on a resealed copy.                            *)
LEMMA StampSound ==
  ASSUME NEW db, Sound(db), NEW d \in Databases, NEW key \in MasterKeys, d.canary = key,
         d.entries = Resealed(db, key), Len(db.entries) < MaxAudit,
         \A t \in TableNames :
           d.tables[t] = IF db.tables[t] = None THEN None ELSE [db.tables[t] EXCEPT !.key = key],
         NEW new, new = Audited(d, AuditHead(db), key, Rotate)
  PROVE  /\ Sound(new) /\ new.params = d.params /\ new.canary = key
         /\ Data(new) = Data(db)
<1>1. /\ db.entries \in Seq(AuditEntries) /\ Len(db.entries) \in Nat
      /\ AuditHead(db) = Len(db.entries)
  BY Fields, HeadIsLength DEF Sound
<1>2. PICK es : es = Resealed(db, key)
  OBVIOUS
<1>3. \A i \in 1..Len(db.entries) :
        /\ [db.entries[i] EXCEPT !.key = key] \in AuditEntries
        /\ [db.entries[i] EXCEPT !.key = key].key = key
        /\ [db.entries[i] EXCEPT !.key = key].kind = db.entries[i].kind
  <2>1. \A i \in 1..Len(db.entries) : db.entries[i] \in AuditEntries
    BY <1>1, ElementOfSeq
  <2> QED BY <2>1 DEF AuditEntries
<1>4. /\ Len(es) = Len(db.entries)
      /\ \A i \in 1..Len(db.entries) : es[i].key = key /\ es[i].kind = db.entries[i].kind
  BY <1>1, <1>2, <1>3 DEF Resealed
<1>5. d.entries = es
  BY <1>2
<1>6. Data(d) = Data(db) /\ \A t : RowsOf(d, t) = RowsOf(db, t)
  <2>1. Len(d.entries) = Len(db.entries) /\ \A i \in 1..Len(db.entries) : d.entries[i].kind = db.entries[i].kind
    BY <1>4, <1>5
  <2>2. \A t : RowsOf(d, t) = RowsOf(db, t) /\ Data(d) = Data(db)
    BY <2>1, RowsOfKinds, Zenon
  <2> QED BY <2>2
<1>7. ASSUME NEW t \in TableNames
      PROVE  LET m == IF Rotate = t THEN RowsOf(d, t) + 1 ELSE RowsOf(d, t)
             IN  d.tables[t] = IF m = 0 THEN None ELSE [key |-> key, rows |-> m]
  <2>1. Rotate # t
    BY RotateIsNoTable
  <2>2. CASE RowsOf(db, t) = 0
    <3>1. db.tables[t] = None
      BY <2>2, TableRows
    <3> QED BY <1>6, <2>1, <2>2, <3>1
  <2>3. CASE RowsOf(db, t) # 0
    <3>1. db.tables[t] # None /\ db.tables[t] = [key |-> db.canary, rows |-> RowsOf(db, t)]
      BY <2>3, TableRows
    <3>2. [db.tables[t] EXCEPT !.key = key] = [key |-> key, rows |-> RowsOf(db, t)]
      BY <3>1
    <3> QED BY <1>6, <2>1, <2>3, <3>1, <3>2
  <2> QED BY <2>2, <2>3
<1>8. /\ \A i \in 1..Len(d.entries) : d.entries[i].key = key
      /\ Len(d.entries) < MaxAudit /\ Rotate \in Words
      /\ new = Audited(d, Len(d.entries), key, Rotate)
  BY <1>1, <1>4, <1>5 DEF Words
<1>9. /\ Sound(new) /\ new.params = d.params /\ new.canary = key
      /\ Data(new) = IF Rotate = Rotate THEN Data(d) ELSE Append(Data(d), Rotate)
  <2>1. Anticipates(d, key, Rotate)
    BY <1>7 DEF Anticipates
  <2> QED BY <1>8, <2>1, AuditedSound
<1> QED BY <1>6, <1>9

-----------------------------------------------------------------------------
(* The invariant holds initially and every step keeps it.                  *)

(* The blank database, and one with parameters and a canary only.          *)
Fresh(a, b) == [params |-> a, canary |-> b, head |-> None, entries |-> <<>>,
                tables |-> [t \in TableNames |-> None]]

(* The blank database is sound: it holds nothing.                          *)
LEMMA BlankIs == Sound(Blank) /\ Blank.params = None /\ Blank.canary = None /\ Data(Blank) = <<>>
BY BlankSound DEF Blank

(* What rotate_to starts from, and a legacy database.                      *)
LEMMA FreshIs ==
  ASSUME NEW a \in (0..MaxSalts) \cup {None}, NEW b \in MasterKeys, NEW db, db = Fresh(a, b)
  PROVE  /\ Sound(db) /\ db.params = a /\ db.canary = b /\ Data(db) = <<>>
         /\ db.head = None /\ db.entries = <<>> /\ \A t \in TableNames : db.tables[t] = None
BY BlankSound DEF Fresh

(* A new or a legacy directory.                                            *)
LEMMA InitInv == Init => IInv
<1> SUFFICES ASSUME Init PROVE IInv
  OBVIOUS
<1>1. Sound(view) /\ Data(view) = <<>>
  BY BlankIs DEF Init
<1>2. /\ Sound(wal) /\ Data(wal) = <<>>
      /\ wal.canary # None => CanOpen(wal)
  <2>1. CASE wal = Blank
    BY <2>1, BlankIs
  <2>2. ASSUME NEW p \in Passphrases, wal = [Blank EXCEPT !.canary = <<p, 0>>], sidecar = 0
        PROVE  Sound(wal) /\ Data(wal) = <<>> /\ CanOpen(wal)
    <3>1. <<p, 0>> \in MasterKeys
      BY RotationBounds DEF MasterKeys
    <3>0. PICK b \in MasterKeys : b = <<p, 0>>
      BY <3>1
    <3>2. wal = Fresh(None, b)
      BY <2>2, <3>0 DEF Blank, Fresh
    <3>3. Sound(wal) /\ wal.params = None /\ wal.canary = <<p, 0>> /\ Data(wal) = <<>>
      <4>1. Sound(wal) /\ wal.params = None /\ wal.canary = b /\ Data(wal) = <<>>
        <5>1. PICK a \in (0..MaxSalts) \cup {None} : a = None
          OBVIOUS
        <5>2. wal = Fresh(a, b)
          BY <3>2, <5>1
        <5>3. Sound(wal) /\ wal.params = a /\ wal.canary = b /\ Data(wal) = <<>>
          BY <5>2, FreshIs
        <5> QED BY <5>1, <5>3
      <4> QED BY <3>0, <4>1
    <3>4. Opens(wal, p)
      BY <2>2, <3>3 DEF Opens, MasterKey, RecordedSalt
    <3> QED BY <3>3, <3>4 DEF CanOpen
  <2> QED BY <2>1, <2>2 DEF Init
<1>3. TypeOK
  <2>1. wal \in Databases /\ view \in Databases
    BY <1>1, <1>2 DEF Sound
  <2>2. salts \in 0..MaxSalts /\ pc = "down" /\ sidecar \in {None, 0}
    BY RotationBounds DEF Init
  <2>3. behind = {} /\ retired = {} /\ tmp = None /\ pass = None /\ target = None /\ inTxn = FALSE
    BY DEF Init
  <2> QED BY <2>1, <2>2, <2>3 DEF TypeOK
<1>4. DirectoryInv
  BY <1>1, <1>2 DEF DirectoryInv, Init
<1>5. SessionInv /\ ScratchInv
  BY <1>1, <1>2 DEF SessionInv, ScratchInv, Init, Rotating
<1> QED BY <1>3, <1>4, <1>5 DEF IInv

(* A replaced database records its parameters itself, so it can be opened  *)
(* whatever becomes of the legacy file.                                    *)
LEMMA BehindStays ==
  ASSUME DirectoryInv, behind' \subseteq behind
  PROVE  \A db \in behind' : Sound(db) /\ db.params # None /\ CanOpen(db)'
<1> TAKE db \in behind'
<1>1. Sound(db) /\ db.params # None /\ CanOpen(db)
  BY DEF DirectoryInv
<1>2. PICK p \in Passphrases : db.canary = <<p, db.params>>
  BY <1>1 DEF CanOpen, Opens, MasterKey, RecordedSalt
<1>3. MasterKey(db, p)' = <<p, db.params>>
  BY <1>1 DEF MasterKey, RecordedSalt
<1>4. CanOpen(db)'
  BY <1>2, <1>3 DEF CanOpen, Opens
<1> QED BY <1>1, <1>4

(* The sweep at the start of an opening.                                   *)
LEMMA SweepInv == ASSUME IInv, NEW p \in Passphrases, Sweep(p) PROVE IInv'
<1> USE DEF Sweep
<1>1. TypeOK'
  BY DEF IInv, TypeOK
<1>2. DirectoryInv'
  <2>1. CanOpen(wal) => CanOpen(wal)'
    BY DEF CanOpen, Opens, MasterKey, RecordedSalt
  <2>2. \A db \in behind' : Sound(db) /\ db.params # None /\ CanOpen(db)'
    BY BehindStays DEF IInv
  <2> QED BY <2>1, <2>2 DEF IInv, DirectoryInv
<1>3. SessionInv'
  <2>1. ~inTxn /\ Data(view) = Data(wal) /\ pc' = "params" /\ pass' = p /\ UNCHANGED <<wal, view, inTxn>>
    BY DEF IInv, SessionInv
  <2> QED BY <2>1 DEF SessionInv, Rotating
<1>4. ScratchInv'
  BY DEF ScratchInv, Rotating
<1> QED BY <1>1, <1>2, <1>3, <1>4 DEF IInv

(* Parameters are recorded.                                                *)
LEMMA ResolveParamsInv == ASSUME IInv, ResolveParams PROVE IInv'
<1> USE DEF ResolveParams
<1>0. /\ pc = "params" /\ pc' = "canary" /\ UNCHANGED <<behind, tmp, sidecar, pass, view, inTxn, target, retired>>
      /\ ~inTxn /\ Sound(wal) /\ Sound(view) /\ Data(view) = Data(wal)
      /\ salts \in 0..MaxSalts /\ sidecar \in {None, 0} /\ wal.params \in (0..MaxSalts) \cup {None}
  BY Fields DEF IInv, TypeOK, DirectoryInv, SessionInv, Sound
<1>1. PICK a : a = wal'.params
  OBVIOUS
<1>2. /\ a \in 0..MaxSalts /\ wal' = [wal EXCEPT !.params = a] /\ salts' \in 0..MaxSalts
      /\ RecordedSalt(wal) # None => a = RecordedSalt(wal)
  <2>1. CASE RecordedSalt(wal) # None
    <3>1. RecordedSalt(wal) \in 0..MaxSalts
      BY <1>0, <2>1, RotationBounds DEF RecordedSalt
    <3>2. wal' = [wal EXCEPT !.params = RecordedSalt(wal)] /\ salts' = salts
      BY <2>1
    <3>3. wal'.params = RecordedSalt(wal)
      BY <1>0, <3>2 DEF Sound, Databases
    <3> QED BY <1>0, <1>1, <3>1, <3>2, <3>3
  <2>2. CASE RecordedSalt(wal) = None
    <3>1. salts' \in 0..MaxSalts /\ wal' = [wal EXCEPT !.params = salts']
      BY <1>0, <2>2, RotationBounds
    <3>2. wal'.params = salts'
      BY <1>0, <3>1 DEF Sound, Databases
    <3> QED BY <1>1, <2>2, <3>1, <3>2
  <2> QED BY <2>1, <2>2
<1>3. Sound(wal') /\ wal'.params = a /\ wal'.canary = wal.canary /\ Data(wal') = Data(wal)
  BY <1>0, <1>2, Reparametrised
<1>4. a # None
  BY <1>2, NoneIsNoData
<1>5. wal'.canary # None => CanOpen(wal)'
  <2> SUFFICES ASSUME wal.canary # None PROVE CanOpen(wal)'
    BY <1>3
  <2>1. PICK p \in Passphrases : wal.canary = <<p, RecordedSalt(wal)>>
    BY DEF IInv, DirectoryInv, CanOpen, Opens, MasterKey
  <2>2. wal.canary \in MasterKeys
    BY <1>0, Fields DEF Sound
  <2>3. RecordedSalt(wal) \in 0..MaxSalts
    BY <2>1, <2>2 DEF MasterKeys
  <2>4. wal'.canary = <<p, a>>
    BY <1>2, <1>3, <2>1, <2>3, NoneIsNoData
  <2>5. RecordedSalt(wal)' = a
    BY <1>3, <1>4 DEF RecordedSalt
  <2> QED BY <2>4, <2>5 DEF CanOpen, Opens, MasterKey
<1>6. TypeOK'
  <2>1. wal' \in Databases
    BY <1>3 DEF Sound
  <2> QED BY <1>0, <1>2, <2>1 DEF IInv, TypeOK
<1>7. DirectoryInv'
  BY <1>0, <1>3, <1>5, BehindStays DEF IInv, DirectoryInv
<1>8. SessionInv'
  <2>1. pass \in Passphrases
    BY <1>0 DEF IInv, SessionInv
  <2> QED BY <1>0, <1>3, <1>4, <2>1 DEF SessionInv, Rotating
<1>9. ScratchInv'
  BY <1>0 DEF ScratchInv, Rotating
<1> QED BY <1>6, <1>7, <1>8, <1>9 DEF IInv

(* The canary is checked or sealed; a wrong passphrase gets no session.    *)
LEMMA CheckCanaryInv == ASSUME IInv, CheckCanary PROVE IInv'
<1> USE DEF CheckCanary
<1>0. /\ pc = "canary" /\ UNCHANGED <<behind, tmp, sidecar, pass, salts>> /\ inTxn' = FALSE /\ target' = None
      /\ view' = wal' /\ tmp = None /\ ~inTxn /\ Sound(wal)
      /\ wal.params \in 0..MaxSalts /\ wal.params # None /\ pass \in Passphrases
  BY Fields DEF IInv, TypeOK, DirectoryInv, SessionInv, Sound
<1>b. \A db \in behind' : Sound(db) /\ db.params # None /\ CanOpen(db)'
  BY <1>0, BehindStays DEF IInv
<1>r. retired' \subseteq MasterKeys \cup {None}
  BY Fields DEF IInv, TypeOK, DirectoryInv, Sound
<1>1. PICK k : k = <<pass, wal.params>>
  OBVIOUS
<1>2. k \in MasterKeys /\ MasterKey(wal, pass) = k
  BY <1>0, <1>1 DEF MasterKeys, MasterKey, RecordedSalt
<1>3. CASE wal.canary \in {None, k}
  <2>1. wal' = [wal EXCEPT !.canary = k] /\ pc' = "idle"
    BY <1>2, <1>3
  <2>2. Sound(wal') /\ wal'.params = wal.params /\ wal'.canary = k /\ Data(wal') = Data(wal)
    BY <1>0, <1>2, <1>3, <2>1, CanarySealed
  <2>3. CanOpen(wal)'
    <3>1. RecordedSalt(wal)' = wal.params
      BY <1>0, <2>2 DEF RecordedSalt
    <3>2. Opens(wal, pass)'
      BY <1>0, <1>1, <2>2, <3>1 DEF Opens, MasterKey
    <3> QED BY <1>0, <3>2 DEF CanOpen
  <2>4. TypeOK'
    <3>1. wal' \in Databases /\ view' \in Databases
      BY <1>0, <2>2 DEF Sound
    <3> QED BY <1>0, <1>r, <2>1, <3>1 DEF IInv, TypeOK
  <2>5. DirectoryInv'
    BY <1>0, <1>b, <2>2, <2>3 DEF DirectoryInv
  <2>6. SessionInv'
    BY <1>0, <1>1, <2>1, <2>2 DEF SessionInv, Rotating
  <2>7. ScratchInv'
    BY <2>1 DEF ScratchInv, Rotating
  <2> QED BY <2>4, <2>5, <2>6, <2>7 DEF IInv
<1>4. CASE wal.canary \notin {None, k}
  <2>1. wal' = wal /\ pc' = "down"
    BY <1>2, <1>4
  <2>2. CanOpen(wal) => CanOpen(wal)'
    BY <1>0, <2>1 DEF CanOpen, Opens, MasterKey, RecordedSalt
  <2>3. TypeOK'
    BY <1>0, <1>r, <2>1 DEF IInv, TypeOK
  <2>4. DirectoryInv'
    BY <1>0, <1>b, <2>1, <2>2 DEF DirectoryInv, IInv
  <2>5. SessionInv' /\ ScratchInv'
    BY <1>0, <2>1 DEF SessionInv, ScratchInv, Rotating
  <2> QED BY <2>3, <2>4, <2>5 DEF IInv
<1> QED BY <1>3, <1>4

(* What holds while a session is open.                                     *)
LEMMA SessionHas ==
  ASSUME IInv, pc \in {"idle"} \cup Rotating
  PROVE  /\ Sound(wal) /\ Sound(view) /\ CanOpen(wal)
         /\ wal.params \in 0..MaxSalts /\ wal.params # None /\ pass \in Passphrases
         /\ wal.canary = <<pass, wal.params>> /\ wal.canary \in MasterKeys
         /\ view.canary = wal.canary /\ view.params = wal.params
         /\ MasterKey(wal, pass) = wal.canary
<1>1. /\ Sound(wal) /\ Sound(view) /\ wal.params # None /\ pass \in Passphrases
      /\ wal.canary = <<pass, wal.params>> /\ view.canary = wal.canary /\ view.params = wal.params
  BY DEF IInv, TypeOK, DirectoryInv, SessionInv, Rotating
<1>2. wal.params \in 0..MaxSalts
  BY <1>1, Fields DEF Sound
<1>3. wal.canary \in MasterKeys
  BY <1>1, <1>2 DEF MasterKeys
<1>4. MasterKey(wal, pass) = wal.canary
  BY <1>1 DEF MasterKey, RecordedSalt
<1>5. CanOpen(wal)
  BY <1>1, <1>4 DEF CanOpen, Opens
<1> QED BY <1>1, <1>2, <1>3, <1>4, <1>5

(* The session's database becomes v, and the stored one w, which has the   *)
(* same parameters and canary: statements and transactions.                *)
LEMMA SessionStep ==
  ASSUME IInv, pc = "idle", UNCHANGED <<pc, behind, tmp, sidecar, pass, target, salts, retired>>,
         Sound(view'), view'.canary = view.canary, view'.params = view.params,
         Sound(wal'), wal'.canary = wal.canary, wal'.params = wal.params,
         inTxn' \in BOOLEAN, ~inTxn' => view' = wal'
  PROVE  IInv'
<1>0. /\ wal.params # None /\ pass \in Passphrases
      /\ wal.canary = <<pass, wal.params>> /\ view.canary = wal.canary /\ view.params = wal.params
  BY SessionHas
<1>1. TypeOK'
  <2>1. wal' \in Databases /\ view' \in Databases
    BY DEF Sound
  <2> QED BY <2>1 DEF IInv, TypeOK
<1>2. CanOpen(wal)'
  <2>1. RecordedSalt(wal)' = wal.params
    BY <1>0 DEF RecordedSalt
  <2>2. Opens(wal, pass)'
    BY <1>0, <2>1 DEF Opens, MasterKey
  <2> QED BY <1>0, <2>2 DEF CanOpen
<1>3. DirectoryInv'
  BY <1>0, <1>2, BehindStays DEF IInv, DirectoryInv
<1>4. SessionInv'
  BY <1>0 DEF SessionInv, Rotating
<1>5. ScratchInv'
  BY DEF ScratchInv, Rotating
<1> QED BY <1>1, <1>3, <1>4, <1>5 DEF IInv

(* A statement, in a transaction or on its own.                            *)
LEMMA ExecuteInv ==
  ASSUME IInv, NEW t \in TableNames, Execute(t)
  PROVE  IInv' /\ Data(view') = Append(Data(view), t)
<1>0. /\ pc = "idle" /\ Sound(wal) /\ Sound(view) /\ view.canary = wal.canary
      /\ view.params = wal.params /\ wal.canary \in MasterKeys /\ MasterKey(wal, pass) = wal.canary
      /\ UNCHANGED <<pc, behind, tmp, sidecar, pass, inTxn, target, salts, retired>>
      /\ view' = Executed(view, wal.canary, t) /\ Len(view.entries) < MaxAudit
      /\ wal' = IF inTxn THEN wal ELSE view'
  BY SessionHas DEF Execute
<1>1. Sound(view') /\ view'.params = view.params /\ view'.canary = view.canary /\ Data(view') = Append(Data(view), t)
  BY <1>0, ExecutedSound
<1>2. inTxn' \in BOOLEAN /\ (~inTxn' => view' = wal')
  BY <1>0 DEF IInv, TypeOK
<1>3. Sound(wal') /\ wal'.canary = wal.canary /\ wal'.params = wal.params
  BY <1>0, <1>1
<1> QED BY <1>0, <1>1, <1>2, <1>3, SessionStep

(* BEGIN, COMMIT and ROLLBACK.                                             *)
LEMMA TransactionInv == ASSUME IInv, Begin \/ Commit \/ Rollback PROVE IInv'
<1>0. /\ pc = "idle" /\ Sound(wal) /\ Sound(view) /\ view.canary = wal.canary /\ view.params = wal.params
  BY SessionHas DEF Begin, Commit, Rollback
<1>1. UNCHANGED <<pc, behind, tmp, sidecar, pass, target, salts, retired>>
  BY DEF Begin, Commit, Rollback, disk
<1>2. /\ inTxn' \in BOOLEAN /\ (~inTxn' => view' = wal')
      /\ view' \in {view, wal} /\ wal' \in {view, wal}
  BY DEF Begin, Commit, Rollback, disk
<1> QED BY <1>0, <1>1, <1>2, SessionStep

(* The scratch database is created.                                        *)
LEMMA StartRotationInv ==
  ASSUME IInv, NEW p \in Passphrases, ~inTxn, StartRotation(p)
  PROVE  IInv'
<1> USE DEF StartRotation
<1>0. /\ pc = "idle" /\ pc' = "tables" /\ target' = p /\ UNCHANGED <<wal, behind, sidecar, pass, view, inTxn, retired>>
      /\ salts' \in 0..MaxSalts /\ Len(view.entries) < MaxAudit
  BY RotationBounds DEF IInv, TypeOK
<1>1. PICK a, b : a = salts' /\ b = <<p, salts'>>
  OBVIOUS
<1>2. a \in (0..MaxSalts) \cup {None} /\ b \in MasterKeys /\ a # None
  BY <1>0, <1>1, NoneIsNoData DEF MasterKeys
<1>3. tmp' = Fresh(a, b)
  BY <1>1 DEF Fresh, Blank
<1>4. /\ Sound(tmp') /\ tmp'.params = a /\ tmp'.canary = b /\ tmp'.head = None /\ tmp'.entries = <<>>
      /\ \A t \in TableNames : tmp'.tables[t] = None
  <2>1. PICK d : d = Fresh(a, b)
    OBVIOUS
  <2>2. /\ Sound(d) /\ d.params = a /\ d.canary = b /\ d.head = None /\ d.entries = <<>>
        /\ \A t \in TableNames : d.tables[t] = None
    BY <1>2, <2>1, FreshIs
  <2> QED BY <1>3, <2>1, <2>2
<1>5. tmp' \in Databases /\ tmp' # None
  BY <1>4, NoneIsNoData DEF Sound
<1>6. TypeOK'
  BY <1>0, <1>5 DEF IInv, TypeOK
<1>7. DirectoryInv'
  <2>1. CanOpen(wal) => CanOpen(wal)'
    BY <1>0 DEF CanOpen, Opens, MasterKey, RecordedSalt
  <2>2. \A db \in behind' : Sound(db) /\ db.params # None /\ CanOpen(db)'
    BY <1>0, BehindStays DEF IInv
  <2> QED BY <1>0, <2>1, <2>2 DEF IInv, DirectoryInv
<1>8. SessionInv'
  BY <1>0 DEF IInv, SessionInv, Rotating
<1>9. ScratchInv'
  BY <1>0, <1>1, <1>2, <1>4, <1>5 DEF ScratchInv, Rotating
<1> QED BY <1>6, <1>7, <1>8, <1>9 DEF IInv

(* What holds of the scratch database while it is written.                 *)
LEMMA ScratchHas ==
  ASSUME IInv, pc \in Rotating
  PROVE  /\ tmp \in Databases /\ tmp.canary \in MasterKeys /\ tmp.params # None
         /\ tmp.canary = <<target, tmp.params>> /\ target \in Passphrases
         /\ ~inTxn /\ view = wal /\ Sound(view) /\ Len(view.entries) < MaxAudit
<1>1. /\ tmp \in Databases /\ tmp.params # None /\ tmp.canary = <<target, tmp.params>>
      /\ target \in Passphrases /\ Len(view.entries) < MaxAudit
  BY DEF IInv, TypeOK, ScratchInv, Rotating
<1>2. tmp.params \in 0..MaxSalts
  BY <1>1, Fields
<1>3. tmp.canary \in MasterKeys
  BY <1>1, <1>2 DEF MasterKeys
<1>4. ~inTxn /\ view = wal /\ Sound(view)
  BY DEF IInv, TypeOK, SessionInv, DirectoryInv, Rotating
<1> QED BY <1>1, <1>3, <1>4

(* A step that changes only the scratch database, or where the process is  *)
(* in the rotation.                                                        *)
LEMMA ScratchStep ==
  ASSUME IInv, pc \in Rotating, pc' \in Rotating \cup {"idle"},
         UNCHANGED <<wal, behind, sidecar, pass, view, inTxn, salts, retired>>,
         tmp' \in Databases, target' \in Passphrases \cup {None}, ScratchInv'
  PROVE  IInv'
<1>1. TypeOK'
  BY DEF IInv, TypeOK, Rotating
<1>2. DirectoryInv'
  <2>1. CanOpen(wal) => CanOpen(wal)'
    BY DEF CanOpen, Opens, MasterKey, RecordedSalt
  <2>2. \A db \in behind' : Sound(db) /\ db.params # None /\ CanOpen(db)'
    BY BehindStays DEF IInv
  <2> QED BY <2>1, <2>2 DEF IInv, DirectoryInv
<1>3. SessionInv'
  <2>1. ~inTxn
    BY ScratchHas
  <2> QED BY <2>1 DEF IInv, SessionInv, Rotating
<1> QED BY <1>1, <1>2, <1>3 DEF IInv

(* One table is copied.                                                    *)
LEMMA CopyTableInv ==
  ASSUME IInv, NEW t \in TableNames, CopyTable(t)
  PROVE  IInv'
<1> USE DEF CopyTable
<1>0. /\ pc = "tables" /\ UNCHANGED <<pc, wal, behind, sidecar, pass, view, inTxn, target, salts, retired>>
      /\ view.tables[t] # None
      /\ tmp \in Databases /\ tmp.canary \in MasterKeys /\ tmp.params # None
      /\ tmp.canary = <<target, tmp.params>> /\ target \in Passphrases /\ view \in Databases
      /\ Len(view.entries) < MaxAudit
      /\ tmp.entries = <<>> /\ tmp.head = None
      /\ \A u \in TableNames : tmp.tables[u] \in {None, ResealedTable(u)}
  BY ScratchHas DEF IInv, ScratchInv, Rotating, Sound
<1>1. PICK r : r = [view.tables[t] EXCEPT !.key = tmp.canary]
  OBVIOUS
<1>2. r \in [key : MasterKeys, rows : 1..MaxAudit]
  <2>1. view.tables[t] \in [key : MasterKeys, rows : 1..MaxAudit]
    BY <1>0, Fields
  <2> QED BY <1>0, <1>1, <2>1
<1>3. /\ tmp' \in Databases /\ tmp'.params = tmp.params /\ tmp'.canary = tmp.canary
      /\ tmp'.entries = <<>> /\ tmp'.head = None /\ tmp'.tables = [tmp.tables EXCEPT ![t] = r]
  <2>1. [tmp.tables EXCEPT ![t] = r] \in [TableNames -> [key : MasterKeys, rows : 1..MaxAudit] \cup {None}]
    BY <1>0, <1>2, Fields
  <2>2. tmp' = [tmp EXCEPT !.tables = [tmp.tables EXCEPT ![t] = r]]
    BY <1>0, <1>1 DEF Databases
  <2> QED BY <1>0, <2>1, <2>2 DEF Databases
<1>4. \A u \in TableNames : ResealedTable(u)' = ResealedTable(u)
  BY <1>0, <1>3 DEF ResealedTable
<1>5. ASSUME NEW u \in TableNames PROVE tmp'.tables[u] \in {None, ResealedTable(u)'}
  <2>1. CASE u = t
    <3>1. tmp'.tables[u] = r
      BY <1>0, <1>3, <2>1, Fields
    <3>2. ResealedTable(u) = r
      BY <1>0, <1>1, <2>1 DEF ResealedTable
    <3> QED BY <1>4, <3>1, <3>2
  <2>2. CASE u # t
    <3>1. tmp'.tables[u] = tmp.tables[u]
      BY <1>0, <1>3, <2>2, Fields
    <3> QED BY <1>0, <1>4, <3>1
  <2> QED BY <2>1, <2>2
<1>6. tmp' # None
  BY <1>3, NoneIsNoData
<1>7. ScratchInv'
  BY <1>0, <1>3, <1>5, <1>6 DEF ScratchInv, Rotating
<1> QED BY <1>0, <1>3, <1>7, ScratchStep DEF Rotating

(* The chain is copied once every table is there.                          *)
LEMMA CopyAuditInv == ASSUME IInv, CopyAudit PROVE IInv'
<1> USE DEF CopyAudit
<1>0. /\ pc = "tables" /\ pc' = "stamp" /\ UNCHANGED <<wal, behind, sidecar, pass, view, inTxn, target, salts, retired>>
      /\ tmp \in Databases /\ tmp.canary \in MasterKeys /\ tmp.params # None
      /\ tmp.canary = <<target, tmp.params>> /\ target \in Passphrases /\ view \in Databases
      /\ Len(view.entries) < MaxAudit /\ tmp.head = None
      /\ \A u \in TableNames : tmp.tables[u] \in {None, ResealedTable(u)}
      /\ \A u \in TableNames : view.tables[u] = None \/ tmp.tables[u] # None
  BY ScratchHas DEF IInv, ScratchInv, Rotating, Sound
<1>1. PICK es : es = Resealed(view, tmp.canary)
  OBVIOUS
<1>2. es \in Seq(AuditEntries)
  <2>1. view.entries \in Seq(AuditEntries) /\ Len(view.entries) \in Nat
    BY <1>0, Fields
  <2>2. \A i \in 1..Len(view.entries) : view.entries[i] \in AuditEntries
    BY <2>1, ElementOfSeq
  <2>3. \A i \in 1..Len(view.entries) : [view.entries[i] EXCEPT !.key = tmp.canary] \in AuditEntries
    BY <1>0, <2>2 DEF AuditEntries
  <2> QED BY <1>1, <2>1, <2>3 DEF Resealed
<1>3. /\ tmp' \in Databases /\ tmp'.params = tmp.params /\ tmp'.canary = tmp.canary
      /\ tmp'.entries = es /\ tmp'.head = None /\ tmp'.tables = tmp.tables
  <2>1. tmp' = [tmp EXCEPT !.entries = es]
    BY <1>1 DEF Resealed
  <2> QED BY <1>0, <1>2, <2>1 DEF Databases, AuditEntries
<1>4. ASSUME NEW u \in TableNames PROVE tmp'.tables[u] = ResealedTable(u)'
  <2>1. ResealedTable(u)' = ResealedTable(u)
    BY <1>0, <1>3 DEF ResealedTable
  <2>2. tmp.tables[u] = ResealedTable(u)
    BY <1>0 DEF ResealedTable
  <2> QED BY <1>3, <2>1, <2>2
<1>5. tmp' # None /\ tmp'.entries = Resealed(view', tmp'.canary)
  BY <1>0, <1>1, <1>3, NoneIsNoData
<1>6. ScratchInv'
  BY <1>0, <1>3, <1>4, <1>5 DEF ScratchInv, Rotating
<1> QED BY <1>0, <1>3, <1>6, ScratchStep DEF Rotating

(* The rotation's own entry.                                               *)
LEMMA StampRotationInv == ASSUME IInv, StampRotation PROVE IInv'
<1> USE DEF StampRotation
<1>0. /\ pc = "stamp" /\ pc' = "rename" /\ UNCHANGED <<wal, behind, sidecar, pass, view, inTxn, target, salts, retired>>
      /\ tmp \in Databases /\ tmp.canary \in MasterKeys /\ tmp.params # None
      /\ tmp.canary = <<target, tmp.params>> /\ target \in Passphrases /\ Sound(view)
      /\ Len(view.entries) < MaxAudit
      /\ tmp.entries = Resealed(view, tmp.canary)
      /\ \A u \in TableNames : tmp.tables[u] = ResealedTable(u)
  BY ScratchHas DEF IInv, ScratchInv, Rotating
<1>1. \A u \in TableNames :
        tmp.tables[u] = IF view.tables[u] = None THEN None ELSE [view.tables[u] EXCEPT !.key = tmp.canary]
  BY <1>0 DEF ResealedTable
<1>2. /\ Sound(tmp') /\ tmp'.params = tmp.params /\ tmp'.canary = tmp.canary
      /\ Data(tmp') = Data(view)
  <2>1. PICK v, d, key, new : v = view /\ d = tmp /\ key = tmp.canary /\ new = tmp'
    OBVIOUS
  <2>2. Sound(v) /\ d \in Databases /\ key \in MasterKeys /\ d.canary = key
    BY <1>0, <2>1
  <2>3. d.entries = Resealed(v, key) /\ Len(v.entries) < MaxAudit
    BY <1>0, <2>1
  <2>4. \A t \in TableNames :
          d.tables[t] = IF v.tables[t] = None THEN None ELSE [v.tables[t] EXCEPT !.key = key]
    BY <1>1, <2>1
  <2>5. new = Audited(d, AuditHead(v), key, Rotate)
    BY <2>1
  <2>6. Sound(new) /\ new.params = d.params /\ new.canary = key /\ Data(new) = Data(v)
    BY <2>2, <2>3, <2>4, <2>5, StampSound
  <2> QED BY <2>1, <2>6
<1>3. tmp' \in Databases /\ tmp' # None
  BY <1>2, NoneIsNoData DEF Sound
<1>4. ScratchInv'
  BY <1>0, <1>2, <1>3 DEF ScratchInv, Rotating
<1> QED BY <1>0, <1>3, <1>4, ScratchStep DEF Rotating

(* The rotation fails.                                                     *)
LEMMA RotationFailsInv == ASSUME IInv, RotationFails PROVE IInv'
<1>0. /\ pc \in Rotating /\ pc' = "idle" /\ target' = None
      /\ UNCHANGED <<wal, behind, tmp, sidecar, pass, view, inTxn, salts, retired>>
  BY DEF RotationFails, disk, Rotating
<1>1. tmp' \in Databases
  BY <1>0, ScratchHas
<1>2. ScratchInv'
  BY <1>0 DEF ScratchInv, Rotating
<1> QED BY <1>0, <1>1, <1>2, ScratchStep DEF Rotating

(* The switch: both databases can be found after a crash.                  *)
LEMMA RenameInv == ASSUME IInv, Rename PROVE IInv'
<1> USE DEF Rename
<1>0. /\ pc = "rename" /\ pc' = "sync" /\ UNCHANGED <<sidecar, pass, view, inTxn, target, salts, retired>>
      /\ behind' = behind \cup {wal} /\ wal' = tmp /\ tmp' = Blank
      /\ tmp \in Databases /\ tmp.params # None /\ tmp.canary = <<target, tmp.params>>
      /\ target \in Passphrases /\ ~inTxn /\ view = wal /\ Sound(view)
      /\ Sound(tmp) /\ Data(tmp) = Data(view)
  BY ScratchHas DEF IInv, ScratchInv, Rotating
<1>1. CanOpen(wal) /\ wal.params # None /\ Sound(wal) /\ pass \in Passphrases
  BY <1>0, SessionHas DEF Rotating
<1>2. CanOpen(wal)'
  <2>1. RecordedSalt(wal)' = tmp.params
    BY <1>0 DEF RecordedSalt
  <2>2. Opens(wal, target)'
    BY <1>0, <2>1 DEF Opens, MasterKey
  <2> QED BY <1>0, <2>2 DEF CanOpen
<1>3. ASSUME NEW db \in behind' PROVE Sound(db) /\ db.params # None /\ CanOpen(db)'
  <2>1. Sound(db) /\ db.params # None /\ CanOpen(db)
    BY <1>0, <1>1 DEF IInv, DirectoryInv
  <2>2. PICK p \in Passphrases : db.canary = <<p, db.params>>
    BY <2>1 DEF CanOpen, Opens, MasterKey, RecordedSalt
  <2>3. MasterKey(db, p)' = <<p, db.params>>
    BY <2>1 DEF MasterKey, RecordedSalt
  <2>4. CanOpen(db)'
    BY <2>2, <2>3 DEF CanOpen, Opens
  <2> QED BY <2>1, <2>4
<1>4. TypeOK'
  <2>1. tmp' \in Databases /\ wal' \in Databases /\ behind' \subseteq Databases
    BY <1>0, <1>1, BlankIs DEF Sound, IInv, TypeOK
  <2> QED BY <1>0, <2>1 DEF IInv, TypeOK
<1>5. DirectoryInv'
  BY <1>0, <1>1, <1>2, <1>3 DEF DirectoryInv
<1>6. SessionInv'
  BY <1>0, <1>1 DEF SessionInv, Rotating
<1>7. ScratchInv'
  BY <1>0 DEF ScratchInv, Rotating
<1> QED BY <1>4, <1>5, <1>6, <1>7 DEF IInv

(* The directory is fsynced and cleaned up.                                *)
LEMMA CleanupInv == ASSUME IInv, SyncDir \/ RemoveScratch \/ RemoveSidecar PROVE IInv'
<1>0. /\ pc \in {"sync", "clean"} /\ pc' \in {"clean", "params"} /\ UNCHANGED <<wal, view, inTxn, target, salts, retired>>
      /\ behind' \subseteq behind /\ tmp' \in {tmp, None} /\ sidecar' \in {sidecar, None}
      /\ pc' = "params" => tmp' = None /\ pass' = target
      /\ pc' = "clean" => pass' = pass
  BY DEF SyncDir, RemoveScratch, RemoveSidecar, IInv, TypeOK
<1>1. /\ ~inTxn /\ wal.params # None /\ target \in Passphrases /\ pass \in Passphrases
      /\ Data(view) = Data(wal)
  BY <1>0 DEF IInv, SessionInv, ScratchInv
<1>2. CanOpen(wal) => CanOpen(wal)'
  BY <1>0, <1>1 DEF CanOpen, Opens, MasterKey, RecordedSalt
<1>3. TypeOK'
  BY <1>0, <1>1 DEF IInv, TypeOK
<1>4. DirectoryInv'
  BY <1>0, <1>2, BehindStays DEF IInv, DirectoryInv
<1>5. SessionInv'
  BY <1>0, <1>1 DEF SessionInv, Rotating
<1>6. ScratchInv'
  BY <1>0, <1>1 DEF ScratchInv, Rotating
<1> QED BY <1>3, <1>4, <1>5, <1>6 DEF IInv

(* The process ends, and one of the databases on disk is found.            *)
LEMMA StoppedInv ==
  ASSUME IInv, Stopped, wal' \in {wal} \cup behind, behind' \subseteq behind
  PROVE  IInv'
<1>0. /\ pc' = "down" /\ view' = wal' /\ inTxn' = FALSE /\ target' = None
      /\ UNCHANGED <<tmp, sidecar, pass, salts, retired>>
  BY DEF Stopped
<1>1. Sound(wal')
  BY DEF IInv, DirectoryInv
<1>2. wal'.canary # None => CanOpen(wal)'
  <2> SUFFICES ASSUME wal'.canary # None PROVE CanOpen(wal)'
    OBVIOUS
  <2>1. PICK db \in {wal} \cup behind : db = wal'
    OBVIOUS
  <2>2. PICK p \in Passphrases : Opens(db, p)
    BY <2>1 DEF IInv, DirectoryInv, CanOpen
  <2>3. Opens(wal, p)'
    BY <1>0, <2>1, <2>2 DEF Opens, MasterKey, RecordedSalt
  <2> QED BY <2>3 DEF CanOpen
<1>3. TypeOK'
  <2>1. wal' \in Databases
    BY <1>1 DEF Sound
  <2> QED BY <1>0, <2>1 DEF IInv, TypeOK
<1>4. DirectoryInv'
  BY <1>0, <1>1, <1>2, BehindStays DEF IInv, DirectoryInv
<1>5. SessionInv' /\ ScratchInv'
  BY <1>0 DEF SessionInv, ScratchInv, Rotating
<1> QED BY <1>3, <1>4, <1>5 DEF IInv

(* Every step keeps the invariant.                                         *)
LEMMA NextInv == IInv /\ [Next]_vars => IInv'
<1> SUFFICES ASSUME IInv, [Next]_vars PROVE IInv'
  OBVIOUS
<1>1. CASE \E p \in Passphrases : Sweep(p)
  BY <1>1, SweepInv
<1>2. CASE ResolveParams \/ CheckCanary
  BY <1>2, ResolveParamsInv, CheckCanaryInv
<1>3. CASE \E t \in TableNames : Execute(t) \/ CopyTable(t)
  BY <1>3, ExecuteInv, CopyTableInv
<1>4. CASE Begin \/ Commit \/ Rollback
  BY <1>4, TransactionInv
<1>5. CASE CopyAudit \/ StampRotation \/ RotationFails
  BY <1>5, CopyAuditInv, StampRotationInv, RotationFailsInv
<1>6. CASE Rename \/ SyncDir \/ RemoveScratch \/ RemoveSidecar
  BY <1>6, RenameInv, CleanupInv
<1>7. CASE Killed \/ PowerLoss
  BY <1>7, StoppedInv DEF Killed, PowerLoss
<1>8. CASE ~inTxn /\ \E p \in Passphrases : StartRotation(p)
  BY <1>8, StartRotationInv
<1>9. CASE UNCHANGED vars
  BY <1>9 DEF vars, IInv, TypeOK, DirectoryInv, SessionInv, ScratchInv, CanOpen, Opens,
              MasterKey, RecordedSalt, ResealedTable
<1> QED BY <1>1, <1>2, <1>3, <1>4, <1>5, <1>6, <1>7, <1>8, <1>9 DEF Next, Steps

(* The invariant holds in every state of every behaviour.                  *)
LEMMA Invariance == Spec => []IInv
BY InitInv, NextInv, PTL DEF Spec

-----------------------------------------------------------------------------
(* A crash at any moment of an opening or a rotation leaves a database     *)
(* that is sealed under one key throughout, holds the rows of its audit    *)
(* chain and can be opened: rotate_to never strands it between two keys.   *)
THEOREM DirectoryStaysSound == Spec => []DirectoryIsSound
<1>1. IInv => DirectoryIsSound
  <2> SUFFICES ASSUME IInv, NEW db \in Possible, db.canary # None PROVE TypeOK /\ Whole(db)
    BY DEF IInv, DirectoryIsSound, NeverStranded
  <2>1. Consistent(db) /\ CanOpen(db)
    BY DEF IInv, DirectoryInv, Possible, Sound
  <2> QED BY <2>1 DEF IInv, Whole, CanOpen
<1> QED BY <1>1, Invariance, PTL

-----------------------------------------------------------------------------
(* Keys.                                                                   *)

(* A directory before its first rotation has retired no key.               *)
LEMMA InitKeys == Init => KeysInv
<1> SUFFICES ASSUME Init PROVE KeysInv
  OBVIOUS
<1>1. salts = 0 /\ 0..salts = {0}
  BY DEF Init
<1>2. /\ wal.params = None /\ view.canary = None
      /\ wal.canary \in Issued \cup {None}
  <2>1. CASE wal = Blank
    BY <2>1 DEF Init, Blank
  <2>2. ASSUME NEW p \in Passphrases, wal = [Blank EXCEPT !.canary = <<p, 0>>]
        PROVE  wal.params = None /\ wal.canary \in Issued
    BY <1>1, <2>2 DEF Blank, Issued
  <2> QED BY <2>1, <2>2 DEF Init, Blank
<1> QED BY <1>2 DEF Init, KeysInv, Rotating, Replaced, Settled

(* More salts, more keys.                                                  *)
LEMMA IssuedGrows ==
  ASSUME salts \in Nat, salts' \in Nat, salts <= salts'
  PROVE  Issued \subseteq Issued' /\ 0..salts \subseteq 0..(salts')
BY DEF Issued

(* A step that changes neither the databases on disk nor the keys there    *)
(* are, and begins no new stage of a rotation.                             *)
LEMMA KeysStay ==
  ASSUME KeysInv, UNCHANGED <<salts, retired>>,
         wal'.params = wal.params, wal'.canary = wal.canary, view'.canary = view.canary,
         behind' = behind,
         pc' = "down" => target' = None,
         pc' \in Rotating => pc \in Rotating /\ tmp'.params = tmp.params /\ tmp'.canary = tmp.canary,
         Replaced' => Replaced,
         Settled' => Settled
  PROVE  KeysInv'
<1>1. Issued' = Issued
  BY DEF Issued
<1> QED BY <1>1 DEF KeysInv

(* Fresh parameters are newer than every key.                              *)
LEMMA ResolveParamsKeys == ASSUME IInv, KeysInv, ResolveParams PROVE KeysInv'
<1> USE DEF ResolveParams
<1>0. /\ pc = "params" /\ pc' = "canary" /\ UNCHANGED <<behind, view, target, retired>>
      /\ wal \in Databases /\ salts \in Nat /\ salts' \in Nat /\ salts <= salts'
  BY RotationBounds DEF IInv, TypeOK
<1>1. Issued \subseteq Issued' /\ 0..salts \subseteq 0..(salts')
  BY <1>0, IssuedGrows
<1>2. wal'.canary = wal.canary
  BY <1>0 DEF Databases
<1>3. wal'.params \in (0..(salts')) \cup {None}
  <2>1. CASE RecordedSalt(wal) # None
    <3>1. wal'.params = RecordedSalt(wal)
      BY <1>0, <2>1 DEF Databases
    <3>2. RecordedSalt(wal) \in (0..salts) \cup {None}
      BY <1>0 DEF KeysInv, RecordedSalt, IInv, TypeOK
    <3> QED BY <1>1, <3>1, <3>2
  <2>2. CASE RecordedSalt(wal) = None
    <3>1. wal'.params = salts'
      BY <1>0, <2>2 DEF Databases
    <3> QED BY <1>0, <3>1
  <2> QED BY <2>1, <2>2
<1>4. (Replaced' => Replaced) /\ (Settled' => Settled) /\ pc' \notin Rotating
  BY <1>0 DEF Replaced, Settled, Rotating
<1> QED BY <1>0, <1>1, <1>2, <1>3, <1>4 DEF KeysInv

(* A database is opened. Where rotate_to opens it, the key of the database *)
(* its session had is retired, and no database under that key is left.     *)
LEMMA CheckCanaryKeys == ASSUME IInv, KeysInv, CheckCanary PROVE KeysInv'
<1> USE DEF CheckCanary
<1>0. /\ pc = "canary" /\ UNCHANGED <<behind, salts>> /\ view' = wal' /\ target' = None
      /\ pc' \in {"idle", "down"} /\ wal \in Databases /\ pass \in Passphrases /\ wal.params # None
  BY DEF IInv, TypeOK, SessionInv
<1>1. Issued' = Issued
  BY <1>0 DEF Issued
<1>2. PICK k : k = <<pass, wal.params>>
  OBVIOUS
<1>3. MasterKey(wal, pass) = k /\ k \in Issued
  BY <1>0, <1>2 DEF KeysInv, Issued, MasterKey, RecordedSalt
<1>4. wal'.params = wal.params /\ wal'.canary \in {wal.canary, k}
  BY <1>0, <1>3 DEF Databases
<1>5. wal.canary # None => wal'.canary = wal.canary
  BY <1>0, <1>3 DEF Databases
<1>6. CASE target = None
  <2>1. retired' = retired
    BY <1>6
  <2>2. wal'.canary \notin retired /\ (wal'.canary = None => retired = {})
    BY <1>4, <1>5 DEF KeysInv
  <2> QED BY <1>0, <1>1, <1>3, <1>4, <2>1, <2>2 DEF KeysInv, Rotating, Replaced, Settled
<1>7. CASE target # None
  <2>1. wal.canary # None /\ view.canary # None /\ wal.canary # view.canary /\ behind = {}
    BY <1>0, <1>7 DEF KeysInv, Replaced, Settled
  <2>2. wal'.canary = wal.canary /\ retired' = retired \cup {view.canary}
    BY <1>5, <1>7, <2>1
  <2> QED BY <1>0, <1>1, <1>4, <2>1, <2>2 DEF KeysInv, Rotating, Replaced, Settled
<1> QED BY <1>6, <1>7

(* Statements and transactions keep parameters and canary.                 *)
LEMMA SessionKeys ==
  ASSUME IInv, KeysInv, (\E t \in TableNames : Execute(t)) \/ Begin \/ Commit \/ Rollback
  PROVE  KeysInv'
<1>0. /\ pc = "idle" /\ pc' = "idle" /\ UNCHANGED <<behind, target, salts, retired>>
  BY DEF Execute, Begin, Commit, Rollback, disk
<1>1. /\ wal \in Databases /\ view \in Databases
      /\ view.canary = wal.canary /\ view.params = wal.params
  BY <1>0, SessionHas DEF Sound
<1>2. /\ wal'.params = wal.params /\ wal'.canary = wal.canary /\ view'.canary = view.canary
  <2>1. ASSUME NEW t \in TableNames, Execute(t)
        PROVE  view'.params = view.params /\ view'.canary = view.canary
    BY <1>1, <2>1 DEF Execute, Executed, Audited, Databases
  <2>2. CASE \E t \in TableNames : Execute(t)
    <3>1. PICK t \in TableNames : Execute(t)
      BY <2>2
    <3>2. wal' \in {wal, view'}
      BY <3>1 DEF Execute
    <3> QED BY <1>1, <2>1, <3>1, <3>2
  <2>3. CASE Begin \/ Commit \/ Rollback
    <3>1. view' \in {view, wal} /\ wal' \in {view, wal}
      BY <2>3 DEF Begin, Commit, Rollback, disk
    <3> QED BY <1>1, <3>1
  <2> QED BY <2>2, <2>3
<1>3. pc' \notin Rotating /\ ~Replaced' /\ ~Settled' /\ pc' # "down"
  BY <1>0 DEF Rotating, Replaced, Settled
<1> QED BY <1>0, <1>2, <1>3, KeysStay

(* The key a rotation works towards has a salt of its own.                 *)
LEMMA StartRotationKeys ==
  ASSUME IInv, KeysInv, NEW p \in Passphrases, StartRotation(p) PROVE KeysInv'
<1> USE DEF StartRotation
<1>0. /\ pc = "idle" /\ pc' = "tables" /\ target' = p /\ UNCHANGED <<wal, behind, view, retired>>
      /\ salts \in Nat /\ salts' = salts + 1
  BY RotationBounds DEF IInv, TypeOK
<1>1. Issued \subseteq Issued' /\ 0..salts \subseteq 0..(salts')
  BY <1>0, IssuedGrows
<1>2. PICK k : k = <<p, salts'>>
  OBVIOUS
<1>3. k \in Issued' /\ k \notin Issued
  BY <1>0, <1>2 DEF Issued
<1>4. tmp'.canary = k /\ tmp'.params = salts'
  BY <1>2 DEF Blank
<1>5. view.canary # k
  <2>1. view.canary = wal.canary /\ wal.canary \in MasterKeys
    BY <1>0, SessionHas
  <2>2. view.canary # None
    BY <2>1, NoneIsNoData
  <2> QED BY <1>3, <2>2 DEF KeysInv
<1>6. tmp'.params \in 0..(salts') /\ tmp'.canary \in Issued' \ (retired' \cup {view'.canary})
  BY <1>0, <1>3, <1>4, <1>5 DEF KeysInv
<1>7. ~Replaced' /\ ~Settled' /\ pc' # "down"
  BY <1>0 DEF Replaced, Settled
<1> QED BY <1>0, <1>1, <1>6, <1>7 DEF KeysInv

(* Building the scratch database keeps its parameters and canary.          *)
LEMMA ScratchKeys ==
  ASSUME IInv, KeysInv,
         (\E t \in TableNames : CopyTable(t)) \/ CopyAudit \/ StampRotation \/ RotationFails
  PROVE  KeysInv'
<1>0. /\ pc \in Rotating /\ pc' \in Rotating \cup {"idle"}
      /\ UNCHANGED <<wal, behind, view, salts, retired>>
  BY DEF CopyTable, CopyAudit, StampRotation, RotationFails, disk, Rotating
<1>1. tmp \in Databases
  BY <1>0, ScratchHas
<1>2. tmp'.params = tmp.params /\ tmp'.canary = tmp.canary
  <2>1. CASE \E t \in TableNames : CopyTable(t)
    BY <1>1, <2>1 DEF CopyTable, Databases
  <2>2. CASE CopyAudit
    BY <1>1, <2>2 DEF CopyAudit, Databases
  <2>3. CASE StampRotation
    BY <1>1, <2>3 DEF StampRotation, Audited, Databases
  <2>4. CASE RotationFails
    BY <2>4 DEF RotationFails, disk
  <2> QED BY <2>1, <2>2, <2>3, <2>4
<1>3. ~Replaced' /\ ~Settled' /\ pc' # "down"
  BY <1>0 DEF Rotating, Replaced, Settled
<1> QED BY <1>0, <1>2, <1>3, KeysStay

(* The switch: the replaced database is not under the new key.             *)
LEMMA RenameKeys == ASSUME IInv, KeysInv, Rename PROVE KeysInv'
<1> USE DEF Rename
<1>0. /\ pc = "rename" /\ pc \in Rotating /\ pc' = "sync"
      /\ UNCHANGED <<view, target, salts, retired>>
      /\ behind' = behind \cup {wal} /\ wal' = tmp
  BY DEF Rotating
<1>1. Issued' = Issued
  BY <1>0 DEF Issued
<1>2. /\ wal.canary \in MasterKeys /\ view.canary = wal.canary /\ wal.params # None
  BY <1>0, SessionHas
<1>3. wal.canary # None /\ wal.canary \in Issued \ retired /\ wal.params \in 0..salts
  BY <1>2, NoneIsNoData DEF KeysInv
<1>4. /\ tmp.params \in 0..salts
      /\ tmp.canary \in Issued \ (retired \cup {view.canary})
  BY <1>0 DEF KeysInv
<1>5. tmp.canary # None
  <2>1. tmp.canary \in MasterKeys
    BY <1>0, ScratchHas
  <2> QED BY <2>1, NoneIsNoData
<1>6. ~Settled' /\ pc' \notin Rotating /\ pc' # "down"
  BY <1>0 DEF Settled, Rotating
<1> QED BY <1>0, <1>1, <1>2, <1>3, <1>4, <1>5, <1>6 DEF KeysInv

(* After the fsync nothing is left that could come back.                   *)
LEMMA CleanupKeys ==
  ASSUME IInv, KeysInv, SyncDir \/ RemoveScratch \/ RemoveSidecar PROVE KeysInv'
<1>0. /\ pc \in {"sync", "clean"} /\ pc' \in {"clean", "params"}
      /\ UNCHANGED <<wal, view, target, salts, retired>>
      /\ pc = "sync" => behind' = {}
      /\ pc = "clean" => behind' = behind
  BY DEF SyncDir, RemoveScratch, RemoveSidecar
<1>1. Issued' = Issued
  BY <1>0 DEF Issued
<1>2. target # None
  <2>1. target \in Passphrases
    BY <1>0 DEF IInv, ScratchInv
  <2> QED BY <2>1, NoneIsNothing
<1>3. Replaced /\ (pc = "clean" => Settled)
  BY <1>0, <1>2 DEF Replaced, Settled
<1>4. behind' = {}
  BY <1>0, <1>3 DEF KeysInv
<1>5. pc' \notin Rotating /\ pc' # "down"
  BY <1>0 DEF Rotating
<1> QED BY <1>0, <1>1, <1>3, <1>4, <1>5 DEF KeysInv

(* Whichever database is found after the end of the process, it is under   *)
(* a key that has not been retired.                                        *)
LEMMA StoppedKeys ==
  ASSUME IInv, KeysInv, Stopped, wal' \in {wal} \cup behind, behind' \subseteq behind
  PROVE  KeysInv'
<1>0. /\ pc' = "down" /\ target' = None /\ view' = wal' /\ UNCHANGED <<salts, retired>>
  BY DEF Stopped
<1>1. Issued' = Issued
  BY <1>0 DEF Issued
<1>2. None \notin Issued
  <2>1. Issued \subseteq MasterKeys
    BY RotationBounds DEF Issued, MasterKeys, IInv, TypeOK
  <2> QED BY <2>1, NoneIsNoData
<1>3. /\ wal'.params \in (0..salts) \cup {None}
      /\ wal'.canary \in Issued \cup {None}
      /\ wal'.canary \notin retired
      /\ wal'.canary = None => retired = {}
  <2>1. CASE wal' = wal
    BY <2>1 DEF KeysInv
  <2>2. CASE wal' \in behind
    BY <1>2, <2>2 DEF KeysInv
  <2> QED BY <2>1, <2>2
<1>4. \A db \in behind' : db.params \in 0..salts /\ db.canary \in Issued \ retired
  BY DEF KeysInv
<1>5. pc' \notin Rotating /\ ~Replaced' /\ ~Settled'
  BY <1>0 DEF Rotating, Replaced, Settled
<1> QED BY <1>0, <1>1, <1>3, <1>4, <1>5 DEF KeysInv

(* Every step keeps what is known of the keys.                             *)
LEMMA NextKeys == IInv /\ KeysInv /\ [Next]_vars => KeysInv'
<1> SUFFICES ASSUME IInv, KeysInv, [Next]_vars PROVE KeysInv'
  OBVIOUS
<1>1. CASE \E p \in Passphrases : Sweep(p)
  <2>1. /\ pc = "down" /\ pc' = "params" /\ UNCHANGED <<wal, behind, view, target, salts, retired>>
        /\ target = None
    BY <1>1 DEF Sweep, KeysInv
  <2>2. pc' \notin Rotating /\ ~Replaced' /\ ~Settled'
    BY <2>1 DEF Rotating, Replaced, Settled
  <2> QED BY <2>1, <2>2, KeysStay
<1>2. CASE ResolveParams \/ CheckCanary
  BY <1>2, ResolveParamsKeys, CheckCanaryKeys
<1>3. CASE (\E t \in TableNames : Execute(t)) \/ Begin \/ Commit \/ Rollback
  BY <1>3, SessionKeys
<1>4. CASE (\E t \in TableNames : CopyTable(t)) \/ CopyAudit \/ StampRotation \/ RotationFails
  BY <1>4, ScratchKeys
<1>5. CASE Rename \/ SyncDir \/ RemoveScratch \/ RemoveSidecar
  BY <1>5, RenameKeys, CleanupKeys
<1>6. CASE Killed \/ PowerLoss
  BY <1>6, StoppedKeys DEF Killed, PowerLoss
<1>7. CASE \E p \in Passphrases : StartRotation(p)
  BY <1>7, StartRotationKeys
<1>8. CASE UNCHANGED vars
  BY <1>8 DEF vars, KeysInv, Issued, Rotating, Replaced, Settled
<1> QED BY <1>1, <1>2, <1>3, <1>4, <1>5, <1>6, <1>7, <1>8 DEF Next, Steps

(* What is known of the keys holds in every state of every behaviour.      *)
LEMMA KeysAlways == Spec => []KeysInv
<1>1. Init => KeysInv
  BY InitKeys
<1>2. IInv /\ KeysInv /\ [Next]_vars => KeysInv'
  BY NextKeys
<1> QED BY <1>1, <1>2, Invariance, PTL DEF Spec

(* Once rotate_to has returned, no death of the process and no power loss, *)
(* at any later time, brings back a database under the key it replaced;    *)
(* and an open session, after a failed rotation too, works on a database   *)
(* its own passphrase opens and no other.                                  *)
THEOREM RotationsAreFinal == Spec => []RotationIsFinal
<1>1. IInv /\ KeysInv => RotationIsFinal
  <2> SUFFICES ASSUME IInv, KeysInv PROVE RotationIsFinal
    OBVIOUS
  <2>1. \A db \in Possible : db.canary \notin retired
    BY DEF KeysInv, Possible
  <2>2. ASSUME pc = "idle", NEW p \in Passphrases PROVE Opens(wal, p) <=> p = pass
    <3>1. wal.canary = <<pass, wal.params>> /\ wal.params # None
      BY <2>2, SessionHas
    <3>2. MasterKey(wal, p) = <<p, wal.params>>
      BY <3>1 DEF MasterKey, RecordedSalt
    <3> QED BY <3>1, <3>2 DEF Opens
  <2> QED BY <2>1, <2>2 DEF RotationIsFinal
<1> QED BY <1>1, Invariance, KeysAlways, PTL

-----------------------------------------------------------------------------
(* Every step is a step of the serial history of statements, or none of    *)
(* its steps.                                                              *)
LEMMA StepRefines == IInv /\ IInv' /\ [Next]_vars => [Serial!HistNext]_(Serial!histVars)
<1> SUFFICES ASSUME IInv, IInv', [Next]_vars
             PROVE  Serial!HistNext \/ UNCHANGED Serial!histVars
  OBVIOUS
<1> USE DEF Serial!HistNext
<1>1. CASE \E t \in TableNames : Execute(t)
  <2>1. PICK t \in TableNames : Execute(t)
    BY <1>1
  <2>2. Data(view)' = Append(Data(view), t)
    BY <2>1, ExecuteInv
  <2>3. inTxn' = inTxn /\ Data(wal)' = IF inTxn THEN Data(wal) ELSE Data(view)'
    BY <2>1 DEF Execute
  <2>4. behind' = behind
    BY <2>1 DEF Execute
  <2> QED BY <2>2, <2>3, <2>4 DEF Serial!HistExec
<1>2. CASE Begin
  BY <1>2 DEF Begin, disk, Serial!HistBegin
<1>3. CASE Commit
  BY <1>3 DEF Commit, Serial!HistCommit
<1>4. CASE Rollback
  BY <1>4 DEF Rollback, disk, Serial!HistAbort
<1>5. CASE Killed
  <2>1. UNCHANGED <<wal, behind>> /\ view' = wal /\ inTxn' = FALSE
    BY <1>5 DEF Killed, Stopped
  <2> QED BY <2>1 DEF Serial!HistAbort
<1>5a. CASE PowerLoss
  <2>1. wal' \in {wal} \cup behind /\ behind' = {} /\ view' = wal' /\ inTxn' = FALSE
    BY <1>5a DEF PowerLoss, Stopped
  <2>2. Data(wal)' \in {Data(wal)} \cup {Data(db) : db \in behind}
    <3>1. PICK db \in {wal} \cup behind : db = wal'
      BY <2>1
    <3>2. Data(wal)' = Data(db)
      BY <3>1
    <3> QED BY <3>2
  <2> QED BY <2>1, <2>2 DEF Serial!HistPowerLoss
<1>6. CASE ResolveParams
  <2>1. wal'.entries = wal.entries
    BY <1>6 DEF ResolveParams, IInv, TypeOK, Databases
  <2>2. Data(wal)' = Data(wal)
    BY <2>1, SameEntries
  <2> QED BY <1>6, <2>2 DEF ResolveParams, Serial!histVars
<1>7. CASE CheckCanary
  <2>1. wal'.entries = wal.entries
    BY <1>7 DEF CheckCanary, IInv, TypeOK, Databases
  <2>2. Data(wal)' = Data(wal)
    BY <2>1, SameEntries
  <2> QED BY <1>7, <2>2 DEF CheckCanary, Serial!HistAbort
<1>8. CASE Rename
  <2>1. Data(tmp) = Data(view) /\ ~inTxn /\ view = wal
    BY <1>8, ScratchHas DEF Rename, IInv, ScratchInv, Rotating
  <2>2. wal' = tmp /\ view' = view /\ inTxn' = inTxn /\ behind' = behind \cup {wal}
    BY <1>8 DEF Rename
  <2>3. {Data(db) : db \in behind}' = {Data(db) : db \in behind} \cup {Data(wal)}
    BY <2>2
  <2> QED BY <2>1, <2>2, <2>3 DEF Serial!HistMove
<1>8a. CASE SyncDir
  <2>1. UNCHANGED <<wal, view, inTxn>> /\ behind' = {}
    BY <1>8a DEF SyncDir
  <2> QED BY <2>1 DEF Serial!HistSettle
<1>9. CASE UNCHANGED <<wal, view, inTxn, behind>>
  BY <1>9 DEF Serial!histVars
<1>10. \/ \E t \in TableNames : Execute(t)
       \/ Begin \/ Commit \/ Rollback \/ Killed \/ PowerLoss \/ ResolveParams \/ CheckCanary
       \/ Rename \/ SyncDir \/ UNCHANGED <<wal, view, inTxn, behind>>
  BY DEF Next, Steps, Sweep, CopyTable, CopyAudit, StampRotation, RotationFails,
         RemoveScratch, RemoveSidecar, StartRotation, disk, vars
<1> QED BY <1>1, <1>2, <1>3, <1>4, <1>5, <1>5a, <1>6, <1>7, <1>8, <1>8a, <1>9, <1>10

(* A rotation is invisible to the history of statements: with a crash at   *)
(* any of its steps nothing committed is lost and nothing uncommitted      *)
(* appears, whatever passphrases and tables there are; but a rename that   *)
(* is not on disk may be undone, with what was committed since.            *)
THEOREM RotationRefines == Spec => ImplementsSerialHistory
<1>1. Init => Serial!HistInit
  <2> SUFFICES ASSUME Init PROVE Serial!HistInit
    OBVIOUS
  <2>1. wal.entries = <<>> /\ view.entries = <<>> /\ inTxn = FALSE /\ behind = {}
    BY DEF Init, Blank
  <2>2. Data(wal) = <<>> /\ Data(view) = <<>>
    BY <2>1, EmptyChain
  <2> QED BY <2>1, <2>2 DEF Serial!HistInit
<1>2. IInv /\ IInv' /\ [Next]_vars => [Serial!HistNext]_(Serial!histVars)
  BY StepRefines
<1> QED BY <1>1, <1>2, Invariance, PTL DEF Spec, ImplementsSerialHistory, Serial!HistSpec
=============================================================================
