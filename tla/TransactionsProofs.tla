------------------------- MODULE TransactionsProofs -------------------------
(***************************************************************************)
(* Proofs about Transactions, for every key space, value space, set of     *)
(* statements and every bound on the audit chain.                          *)
(***************************************************************************)
EXTENDS Transactions, FiniteSetTheorems, SequenceTheorems, TLAPS

-----------------------------------------------------------------------------
(* The inductive invariant: both the stored table and what the session     *)
(* sees hold exactly the history of their heads, and everything signed is  *)
(* an initial part of the stored history.                                  *)
Steps == [seq : Nat, digest : Statements]

EntryOf(root, i) == [seq |-> i, digest |-> root[i + 1].digest, prev |-> SubSeq(root, 1, i)]

Recorded(t, h) ==
  /\ h \in Heads /\ Len(h.root) = h.n
  /\ \A i \in 1..h.n : h.root[i].seq = i - 1
  /\ \A i \in 0..MaxAudit : t[Audit(i)] = IF i < h.n THEN EntryOf(h.root, i) ELSE Absent
  /\ \A k \in Keys : t[Row(k)] = RowsOf(h.root)[k]
  /\ t[HeadKey] = IF h.n = 0 THEN Absent ELSE h

StartOf(r, s) == Len(r) <= Len(s) /\ \A i \in 1..Len(r) : r[i] = s[i]

IsWriteSet(g) == \E D \in SUBSET StoreKeys : g \in [D -> Cells]

IInv ==
  /\ backend \in [StoreKeys -> Cells]
  /\ overlay # NoTxn => IsWriteSet(overlay)
  /\ txnAuditHead = IF overlay = NoTxn THEN NoTxn ELSE StoredHead
  /\ overlay = NoTxn => auditHead = StoredHead
  /\ Recorded(backend, StoredHead)
  /\ Recorded(View, auditHead)
  /\ StartOf(StoredHead.root, auditHead.root)
  /\ signed \subseteq Roots
  /\ \A r \in signed : StartOf(r, StoredHead.root)

-----------------------------------------------------------------------------
(* Keys and tables.                                                        *)

(* The three kinds of keys are different, and different within a kind.     *)
LEMMA KeysDiffer ==
  /\ \A k, i : Row(k) # Audit(i) /\ Row(k) # HeadKey /\ Audit(i) # HeadKey
  /\ \A k, j : Row(k) = Row(j) <=> k = j
  /\ \A i, j : Audit(i) = Audit(j) <=> i = j
  /\ \A k : Row(k)[2] = k
BY DEF Row, Audit, HeadKey

(* The keys a table has.                                                   *)
LEMMA StoreKeysHave ==
  /\ HeadKey \in StoreKeys
  /\ \A k \in Keys : Row(k) \in StoreKeys
  /\ \A i \in 0..MaxAudit : Audit(i) \in StoreKeys
BY DEF StoreKeys

(* A map that writes some keys is not "no transaction".                    *)
LEMMA WriteSetIsNoNoTxn ==
  ASSUME NEW g, IsWriteSet(g) PROVE g # NoTxn
BY NoTxnIsNoMap DEF IsWriteSet

(* BEGIN opens a transaction with nothing written.                         *)
LEMMA EmptyIsWriteSet == IsWriteSet(<<>>)
<1>1. <<>> \in [{} -> Cells]
  OBVIOUS
<1>2. {} \in SUBSET StoreKeys
  OBVIOUS
<1> QED BY <1>1, <1>2 DEF IsWriteSet

(* Override merges write sets.                                             *)
LEMMA OverrideType ==
  ASSUME NEW g, IsWriteSet(g), NEW w, IsWriteSet(w)
  PROVE  IsWriteSet(Override(g, w))
<1>1. PICK D \in SUBSET StoreKeys : g \in [D -> Cells]
  BY DEF IsWriteSet
<1>2. PICK E \in SUBSET StoreKeys : w \in [E -> Cells]
  BY DEF IsWriteSet
<1>3. Override(g, w) \in [D \cup E -> Cells]
  BY <1>1, <1>2 DEF Override
<1> QED BY <1>3 DEF IsWriteSet

(* What a session sees is a table.                                         *)
LEMMA ViewType ==
  ASSUME IInv PROVE View \in [StoreKeys -> Cells]
<1>1. ASSUME NEW k \in StoreKeys, overlay # NoTxn, k \in DOMAIN overlay
      PROVE  overlay[k] \in Cells
  <2>1. PICK D \in SUBSET StoreKeys : overlay \in [D -> Cells]
    BY <1>1 DEF IInv, IsWriteSet
  <2> QED BY <1>1, <2>1
<1> QED BY <1>1 DEF View, IInv

(* Without a transaction the session sees the stored table.                *)
LEMMA ViewIsBackend ==
  ASSUME backend \in [StoreKeys -> Cells], overlay = NoTxn PROVE View = backend
BY DEF View

-----------------------------------------------------------------------------
(* Histories.                                                              *)

(* A new statement decides the keys it writes and no others.               *)
LEMMA RowsOfAppend ==
  ASSUME NEW root \in Roots, NEW s \in Steps, NEW k \in Keys
  PROVE  RowsOf(Append(root, s))[k] =
           IF k \in DOMAIN s.digest THEN s.digest[k] ELSE RowsOf(root)[k]
<1> DEFINE n == Len(root)
           new == Append(root, s)
<1>0. n \in Nat /\ Len(new) = n + 1 /\ new[n + 1] = s /\ \A i \in 1..n : new[i] = root[i]
  BY DEF Roots, Steps
<1>1. CASE k \in DOMAIN s.digest
  <2>1. LastWriter(new, k) = {n + 1}
    BY <1>0, <1>1 DEF LastWriter
  <2>2. (CHOOSE i \in LastWriter(new, k) : TRUE) = n + 1
    BY <2>1
  <2> QED BY <1>0, <1>1, <2>1, <2>2 DEF RowsOf
<1>2. CASE k \notin DOMAIN s.digest
  <2>1. LastWriter(new, k) = LastWriter(root, k)
    BY <1>0, <1>2 DEF LastWriter
  <2>2. CASE LastWriter(root, k) = {}
    BY <1>2, <2>1, <2>2 DEF RowsOf
  <2>3. CASE LastWriter(root, k) # {}
    <3>1. (CHOOSE i \in LastWriter(root, k) : TRUE) \in 1..n
      BY <2>3 DEF LastWriter
    <3> QED BY <1>0, <1>2, <2>1, <2>3, <3>1 DEF RowsOf
  <2> QED BY <2>2, <2>3
<1> QED BY <1>1, <1>2

(* The first n statements of a history.                                    *)
LEMMA Prefix ==
  ASSUME NEW s \in Roots, NEW n \in 0..Len(s)
  PROVE  /\ SubSeq(s, 1, n) \in Roots
         /\ Len(SubSeq(s, 1, n)) = n
         /\ \A i \in 1..n : SubSeq(s, 1, n)[i] = s[i]
<1>0. Len(s) \in Nat /\ \A i \in 1..Len(s) : s[i] \in [seq : Nat, digest : Statements]
  BY LenProperties DEF Roots
<1>1. n \in Int /\ 1 \in Int /\ \A i \in 1..n : s[i] \in [seq : Nat, digest : Statements]
  BY <1>0
<1>2. /\ SubSeq(s, 1, n) \in Seq([seq : Nat, digest : Statements])
      /\ Len(SubSeq(s, 1, n)) = IF 1 <= n THEN n - 1 + 1 ELSE 0
      /\ \A i \in 1..(n - 1 + 1) : SubSeq(s, 1, n)[i] = s[1 + i - 1]
  BY <1>1, SubSeqProperties
<1> QED BY <1>2 DEF Roots

(* StartOf is SubSeq, and an order.                                        *)
LEMMA StartOfIsSubSeq ==
  ASSUME NEW r \in Roots, NEW s \in Roots, StartOf(r, s)
  PROVE  r = SubSeq(s, 1, Len(r))
<1>1. Len(r) \in Nat /\ Len(s) \in Nat /\ Len(r) <= Len(s)
  BY DEF Roots, StartOf
<1>2. /\ SubSeq(s, 1, Len(r)) \in Roots
      /\ Len(SubSeq(s, 1, Len(r))) = Len(r)
      /\ \A i \in 1..Len(r) : SubSeq(s, 1, Len(r))[i] = r[i]
  BY <1>1, Prefix DEF StartOf
<1> QED BY <1>2, SeqEqual DEF Roots

(* Being a start of is reflexive and transitive, and a root is a start of  *)
(* the root that a step appends to it.                                     *)
LEMMA StartOfOrder ==
  /\ \A r \in Roots : StartOf(r, r)
  /\ \A r, s, t \in Roots : StartOf(r, s) /\ StartOf(s, t) => StartOf(r, t)
  /\ \A r \in Roots, x \in Steps : StartOf(r, Append(r, x))
BY DEF StartOf, Roots, Steps

(* A recorded history verifies.                                            *)
LEMMA RecordedVerifies ==
  ASSUME NEW t, NEW h, Recorded(t, h) PROVE AuditVerify(t, h)
<1> DEFINE n == h.n
           root == h.root
           RootAt(i) == IF i = 0 THEN <<>> ELSE Root(t[Audit(i - 1)])
<1>0. n \in 0..MaxAudit /\ root \in Roots /\ root \in Seq(Steps) /\ Len(root) = n /\ n \in Nat /\ MaxAudit \in Nat
  BY MaxAuditIsNat DEF Recorded, Heads, Roots, Steps
<1>1. \A i \in 0..(n - 1) : t[Audit(i)] = EntryOf(root, i) /\ t[Audit(i)] # Absent
  <2> TAKE i \in 0..(n - 1)
  <2>1. i \in 0..MaxAudit /\ i < n /\ i + 1 \in 1..n
    BY <1>0
  <2>2. SubSeq(root, 1, i) \in Roots /\ root[i + 1] \in Steps
    <3>1. i \in 0..Len(root) /\ i + 1 \in 1..Len(root)
      BY <1>0, <2>1
    <3> QED BY <1>0, <3>1, Prefix, ElementOfSeq
  <2>3. EntryOf(root, i) \in AuditRows
    BY <2>1, <2>2 DEF EntryOf, AuditRows, Steps
  <2> QED BY <2>1, <2>3, AbsentIsNoRecord DEF Recorded
<1>2. Count(t) = n
  <2>1. {i \in 0..MaxAudit : t[Audit(i)] # Absent} = 0..(n - 1)
    BY <1>0, <1>1 DEF Recorded
  <2>2. Cardinality(0..(n - 1)) = n
    <3>1. 0 \in Int /\ n - 1 \in Int /\ (0 > n - 1 <=> n = 0) /\ (n - 1) - 0 + 1 = n
      BY <1>0
    <3> QED BY <3>1, FS_Interval
  <2> QED BY <2>1, <2>2 DEF Count
<1>3. \A i \in 0..n : RootAt(i) = SubSeq(root, 1, i)
  <2> TAKE i \in 0..n
  <2>1. CASE i = 0
    BY <2>1, SubSeqEmpty
  <2>2. CASE i # 0
    <3>1. i - 1 \in 0..(n - 1) /\ i \in 1..Len(root) /\ (i - 1) + 1 = i
      BY <1>0, <2>2
    <3>2. t[Audit(i - 1)] = [seq |-> i - 1, digest |-> root[i].digest, prev |-> SubSeq(root, 1, i - 1)]
      BY <1>1, <3>1 DEF EntryOf
    <3>3. root[i] = [seq |-> i - 1, digest |-> root[i].digest]
      <4>1. root[i] \in Steps
        BY <1>0, <3>1
      <4>2. root[i].seq = i - 1
        BY <1>0, <3>1 DEF Recorded
      <4> QED BY <4>1, <4>2 DEF Steps
    <3>4. Root(t[Audit(i - 1)]) = Append(SubSeq(root, 1, i - 1), root[i])
      BY <3>2, <3>3 DEF Root
    <3>5. SubSeq(root, 1, i - 1) \in Seq(Steps) /\ Len(SubSeq(root, 1, i - 1)) = i - 1
      BY <1>0, <3>1
    <3>6. Append(SubSeq(root, 1, i - 1), root[i]) = SubSeq(root, 1, i)
      <4> DEFINE a == Append(SubSeq(root, 1, i - 1), root[i])
                 b == SubSeq(root, 1, i)
      <4>1. a \in Seq(Steps) /\ b \in Seq(Steps) /\ Len(a) = i /\ Len(b) = i
        BY <1>0, <3>1, <3>5
      <4>2. \A j \in 1..i : a[j] = root[j] /\ b[j] = root[j]
        BY <1>0, <3>1, <3>5
      <4> QED BY <4>1, <4>2, SeqEqual
    <3> QED BY <2>2, <3>4, <3>6
  <2> QED BY <2>1, <2>2
<1>4. \A i \in 0..(n - 1) : t[Audit(i)].seq = i /\ t[Audit(i)].prev = RootAt(i)
  <2> TAKE i \in 0..(n - 1)
  <2>0. t[Audit(i)] = EntryOf(root, i)
    BY <1>1
  <2>1. t[Audit(i)].seq = i /\ t[Audit(i)].prev = SubSeq(root, 1, i)
    BY <2>0 DEF EntryOf
  <2>2. i \in 0..n
    BY <1>0
  <2> HIDE DEF RootAt
  <2> QED BY <1>3, <2>1, <2>2
<1>5. h = [n |-> n, root |-> RootAt(n)]
  <2>1. RootAt(n) = root
    BY <1>0, <1>3, SubSeqFull
  <2>2. h = [n |-> h.n, root |-> h.root]
    BY DEF Recorded, Heads
  <2> QED BY <2>1, <2>2
<1> QED BY <1>1, <1>2, <1>4, <1>5 DEF AuditVerify

(* The head open_store would load from a table is the head it records.     *)
LEMMA RecordedHead ==
  ASSUME NEW t, NEW h, Recorded(t, h)
  PROVE  (IF t[HeadKey] = Absent THEN Genesis ELSE t[HeadKey]) = h
<1>1. CASE h.n = 0
  <2>1. h.root = <<>>
    BY <1>1, EmptySeq DEF Recorded, Heads, Roots
  <2>2. h = [n |-> h.n, root |-> h.root]
    BY DEF Recorded, Heads
  <2> QED BY <1>1, <2>1, <2>2 DEF Recorded, Genesis
<1>2. CASE h.n # 0
  BY <1>2, AbsentIsNoRecord DEF Recorded
<1> QED BY <1>1, <1>2
-----------------------------------------------------------------------------
(* One statement.                                                          *)

(* The batch of a statement writes its rows, one audit entry and the head. *)
LEMMA BatchType ==
  ASSUME NEW w \in Statements, NEW t, Recorded(t, auditHead), auditHead.n < MaxAudit
  PROVE  /\ NewHead(w) \in Heads
         /\ Entry(w) \in AuditRows
         /\ IsWriteSet(AuditedBatch(w))
         /\ DOMAIN AuditedBatch(w) \subseteq StoreKeys
<1>1. /\ auditHead.n \in 0..(MaxAudit - 1) /\ auditHead.n + 1 \in 0..MaxAudit /\ auditHead.n \in 0..MaxAudit
      /\ auditHead.root \in Roots
  BY MaxAuditIsNat DEF Recorded, Heads
<1>2. Entry(w) \in AuditRows
  BY <1>1 DEF Entry, AuditRows
<1>3. Root(Entry(w)) = Append(auditHead.root, [seq |-> auditHead.n, digest |-> w])
  BY DEF Root, Entry
<1>4. Root(Entry(w)) \in Roots
  BY <1>1, <1>3 DEF Roots
<1>5. NewHead(w) \in Heads
  BY <1>1, <1>4 DEF NewHead, Heads
<1> DEFINE D == {Row(j) : j \in DOMAIN w} \cup {Audit(auditHead.n), HeadKey}
<1>6. D \in SUBSET StoreKeys
  BY <1>1, StatementsAreWrites DEF StoreKeys
<1>7. AuditedBatch(w) \in [D -> Cells]
  <2>1. \A k \in D : (IF k = HeadKey THEN NewHead(w)
                      ELSE IF k = Audit(auditHead.n) THEN Entry(w) ELSE w[k[2]]) \in Cells
    BY <1>2, <1>5, StatementsAreWrites, KeysDiffer DEF Cells
  <2> QED BY <2>1 DEF AuditedBatch
<1>8. IsWriteSet(AuditedBatch(w))
  BY <1>6, <1>7 DEF IsWriteSet
<1>9. DOMAIN AuditedBatch(w) = D
  BY DEF AuditedBatch
<1> QED BY <1>2, <1>5, <1>6, <1>8, <1>9

(* A statement on top of a recorded history is recorded with it.           *)
LEMMA RecordedStep ==
  ASSUME NEW w \in Statements, NEW t, Recorded(t, auditHead), auditHead.n < MaxAudit,
         NEW u,
         \A k \in StoreKeys : u[k] = IF k \in DOMAIN AuditedBatch(w) THEN AuditedBatch(w)[k] ELSE t[k]
  PROVE  Recorded(u, NewHead(w))
<1> DEFINE n == auditHead.n
           root == auditHead.root
           s == [seq |-> n, digest |-> w]
           new == Append(root, s)
           D == {Row(j) : j \in DOMAIN w} \cup {Audit(n), HeadKey}
<1>0. n \in 0..MaxAudit /\ n \in Nat /\ root \in Roots /\ Len(root) = n /\ MaxAudit \in Nat
  BY MaxAuditIsNat DEF Recorded, Heads
<1>1. s \in Steps
  BY <1>0 DEF Steps
<1>2. new \in Roots /\ Len(new) = n + 1 /\ new[n + 1] = s /\ \A i \in 1..n : new[i] = root[i]
  BY <1>0, <1>1 DEF Roots, Steps
<1>3. NewHead(w).n = n + 1 /\ NewHead(w).root = new
  BY DEF NewHead, Root, Entry
<1>4. /\ \A j \in DOMAIN w : AuditedBatch(w)[Row(j)] = w[j]
      /\ AuditedBatch(w)[Audit(n)] = Entry(w)
      /\ AuditedBatch(w)[HeadKey] = NewHead(w)
      /\ DOMAIN AuditedBatch(w) = D
  BY KeysDiffer DEF AuditedBatch
<1>5. NewHead(w) \in Heads
  BY BatchType
<1>6. \A i \in 1..(n + 1) : new[i].seq = i - 1
  BY <1>0, <1>2 DEF Recorded
<1>7. \A i \in 0..MaxAudit : u[Audit(i)] = IF i < n + 1 THEN EntryOf(new, i) ELSE Absent
  <2> TAKE i \in 0..MaxAudit
  <2>1. Audit(i) \in StoreKeys
    BY StoreKeysHave
  <2>2. Audit(i) \in D <=> i = n
    BY KeysDiffer
  <2>3. CASE i = n
    <3>1. u[Audit(i)] = [seq |-> n, digest |-> w, prev |-> root]
      BY <1>4, <2>1, <2>2, <2>3 DEF Entry
    <3>2. SubSeq(new, 1, n) = root
      <4>1. StartOf(root, new)
        BY <1>0, <1>1, StartOfOrder
      <4> QED BY <1>0, <1>2, <4>1, StartOfIsSubSeq
    <3>3. new[n + 1].digest = w
      BY <1>2
    <3>4. EntryOf(new, n) = [seq |-> n, digest |-> w, prev |-> root]
      BY <3>2, <3>3 DEF EntryOf
    <3>5. n < n + 1
      BY <1>0
    <3> QED BY <2>3, <3>1, <3>4, <3>5
  <2>4. CASE i # n
    <3>1. u[Audit(i)] = t[Audit(i)]
      BY <1>4, <2>1, <2>2, <2>4
    <3>2. CASE i < n
      <4>1. u[Audit(i)] = EntryOf(root, i)
        BY <3>1, <3>2 DEF Recorded
      <4>2. new[i + 1] = root[i + 1] /\ i \in 0..Len(root) /\ i \in 0..Len(new) /\ i < n + 1
        BY <1>0, <1>2, <3>2
      <4>3. SubSeq(new, 1, i) = SubSeq(root, 1, i)
        <5> DEFINE a == SubSeq(new, 1, i)
                   b == SubSeq(root, 1, i)
        <5>1. /\ a \in Roots /\ Len(a) = i /\ \A j \in 1..i : a[j] = new[j]
              /\ b \in Roots /\ Len(b) = i /\ \A j \in 1..i : b[j] = root[j]
          BY <1>0, <1>2, <4>2, Prefix
        <5>2. \A j \in 1..i : new[j] = root[j]
          BY <1>0, <1>2, <3>2
        <5> HIDE DEF a, b
        <5>3. a \in Seq(Steps) /\ b \in Seq(Steps)
          BY <5>1 DEF Roots, Steps
        <5>4. a = b
          BY <5>1, <5>2, <5>3, SeqEqual
        <5> QED BY <5>4 DEF a, b
      <4> QED BY <4>1, <4>2, <4>3 DEF EntryOf
    <3>3. CASE ~(i < n)
      <4>1. ~(i < n + 1)
        BY <1>0, <2>4, <3>3
      <4> QED BY <3>1, <3>3, <4>1 DEF Recorded
    <3> QED BY <3>2, <3>3
  <2> QED BY <2>3, <2>4
<1>8. \A k \in Keys : u[Row(k)] = RowsOf(new)[k]
  <2> TAKE k \in Keys
  <2>1. Row(k) \in StoreKeys
    BY StoreKeysHave
  <2>2. Row(k) \in D <=> k \in DOMAIN w
    BY KeysDiffer
  <2>3. u[Row(k)] = IF k \in DOMAIN w THEN w[k] ELSE t[Row(k)]
    BY <1>4, <2>1, <2>2
  <2>4. t[Row(k)] = RowsOf(root)[k]
    BY DEF Recorded
  <2>5. RowsOf(new)[k] = IF k \in DOMAIN s.digest THEN s.digest[k] ELSE RowsOf(root)[k]
    BY <1>0, <1>1, RowsOfAppend
  <2> QED BY <2>3, <2>4, <2>5
<1>9. u[HeadKey] = NewHead(w)
  BY <1>4, StoreKeysHave
<1> HIDE DEF new
<1> QED BY <1>0, <1>2, <1>3, <1>5, <1>6, <1>7, <1>8, <1>9 DEF Recorded

-----------------------------------------------------------------------------
(* The invariant is inductive.                                             *)

(* A new database records the empty history.                               *)
LEMMA InitInv == Init => IInv
<1> SUFFICES ASSUME Init PROVE IInv
  OBVIOUS
<1>1. backend \in [StoreKeys -> Cells] /\ \A k \in StoreKeys : backend[k] = Absent
  BY DEF Init, Cells
<1>2. StoredHead = Genesis /\ View = backend
  BY <1>1, StoreKeysHave, ViewIsBackend DEF Init, StoredHead
<1>3. Genesis \in Heads /\ Genesis.n = 0 /\ Genesis.root = <<>> /\ Len(Genesis.root) = 0
  BY MaxAuditIsNat DEF Genesis, Heads, Roots
<1>4. \A k \in Keys : RowsOf(<<>>)[k] = Absent
  BY DEF RowsOf, LastWriter
<1>5. Recorded(backend, Genesis)
  BY <1>1, <1>3, <1>4, StoreKeysHave, MaxAuditIsNat DEF Recorded
<1>6. StartOf(Genesis.root, Genesis.root)
  BY <1>3 DEF StartOf
<1> QED BY <1>1, <1>2, <1>5, <1>6 DEF Init, IInv

(* A statement, inside or outside a transaction.                           *)
LEMMA ExecuteInv ==
  ASSUME IInv, NEW w \in Statements, Execute(w) PROVE IInv'
<1>0. auditHead.n < MaxAudit /\ auditHead' = NewHead(w) /\ signed' = signed /\ txnAuditHead' = txnAuditHead
  BY DEF Execute
<1>1. /\ IsWriteSet(AuditedBatch(w)) /\ DOMAIN AuditedBatch(w) \subseteq StoreKeys
      /\ NewHead(w) \in Heads
  BY <1>0, BatchType DEF IInv
<1>2. auditHead.root \in Roots /\ StoredHead.root \in Roots
  BY DEF IInv, Recorded, Heads
<1>3. NewHead(w).root = Append(auditHead.root, [seq |-> auditHead.n, digest |-> w])
  BY DEF NewHead, Root, Entry
<1>4. StartOf(auditHead.root, NewHead(w).root) /\ NewHead(w).root \in Roots
  <2>1. [seq |-> auditHead.n, digest |-> w] \in Steps
    BY DEF IInv, Recorded, Heads, Steps
  <2>2. StartOf(auditHead.root, NewHead(w).root)
    BY <1>2, <1>3, <2>1, StartOfOrder
  <2>3. NewHead(w).root \in Roots
    BY <1>1 DEF Heads
  <2> QED BY <2>2, <2>3
<1>5. CASE overlay # NoTxn
  <2>1. overlay' = Override(overlay, AuditedBatch(w)) /\ backend' = backend
    BY <1>5 DEF Execute
  <2>2. IsWriteSet(overlay')
    BY <1>1, <1>5, <2>1, OverrideType DEF IInv
  <2>3. overlay' # NoTxn
    BY <2>2, WriteSetIsNoNoTxn
  <2>4. \A k \in StoreKeys : View'[k] = IF k \in DOMAIN AuditedBatch(w) THEN AuditedBatch(w)[k] ELSE View[k]
    BY <1>5, <2>1, <2>3 DEF View, Override
  <2>5. Recorded(View', NewHead(w))
    BY <1>0, <2>4, RecordedStep DEF IInv
  <2>6. StoredHead' = StoredHead
    BY <2>1 DEF StoredHead
  <2>7. Recorded(View', auditHead') /\ Recorded(backend', StoredHead')
    BY <1>0, <2>1, <2>5, <2>6 DEF IInv
  <2>8. StartOf(StoredHead.root, auditHead.root)'
    BY <1>0, <1>2, <1>4, <2>6, StartOfOrder DEF IInv
  <2> QED BY <1>0, <1>5, <2>1, <2>2, <2>3, <2>6, <2>7, <2>8 DEF IInv, IsWriteSet
<1>6. CASE overlay = NoTxn
  <2>1. backend' = Override(backend, AuditedBatch(w)) /\ overlay' = NoTxn
    BY <1>6 DEF Execute
  <2>2. backend' \in [StoreKeys -> Cells]
    <3>1. PICK D \in SUBSET StoreKeys : AuditedBatch(w) \in [D -> Cells]
      BY <1>1 DEF IsWriteSet
    <3> QED BY <2>1, <3>1 DEF Override, IInv
  <2>3. View' = backend' /\ View = backend
    BY <1>6, <2>1, <2>2, ViewIsBackend DEF IInv, View
  <2>4. \A k \in StoreKeys : backend'[k] = IF k \in DOMAIN AuditedBatch(w) THEN AuditedBatch(w)[k] ELSE View[k]
    BY <2>1, <2>3 DEF Override, IInv
  <2>5. Recorded(backend', NewHead(w))
    BY <1>0, <2>4, RecordedStep DEF IInv
  <2>6. StoredHead' = NewHead(w)
    BY <2>5, RecordedHead DEF StoredHead
  <2>7. auditHead = StoredHead
    BY <1>6 DEF IInv
  <2>8. signed \subseteq Roots /\ \A r \in signed : StartOf(r, NewHead(w).root)
    BY <1>2, <1>4, <2>7, StartOfOrder DEF IInv
  <2>9. StartOf(NewHead(w).root, NewHead(w).root)
    BY <1>4, StartOfOrder
  <2> QED BY <1>0, <1>6, <2>1, <2>2, <2>3, <2>5, <2>6, <2>8, <2>9 DEF IInv
<1> QED BY <1>5, <1>6

(* BEGIN changes nothing that can be seen.                                 *)
LEMMA BeginInv == ASSUME IInv, Begin PROVE IInv'
<1>1. /\ overlay = NoTxn /\ overlay' = <<>> /\ backend' = backend /\ auditHead' = auditHead
      /\ txnAuditHead' = auditHead /\ signed' = signed
  BY DEF Begin
<1>2. IsWriteSet(overlay') /\ overlay' # NoTxn
  BY <1>1, EmptyIsWriteSet, WriteSetIsNoNoTxn
<1>3. View' = backend /\ View = backend /\ StoredHead' = StoredHead
  BY <1>1, ViewIsBackend DEF View, IInv, StoredHead
<1> QED BY <1>1, <1>2, <1>3 DEF IInv

(* COMMIT stores what the session saw.                                     *)
LEMMA CommitInv == ASSUME IInv, Commit PROVE IInv'
<1>1. /\ overlay # NoTxn /\ overlay' = NoTxn /\ backend' = Override(backend, overlay)
      /\ auditHead' = auditHead /\ txnAuditHead' = NoTxn /\ signed' = signed
  BY DEF Commit
<1>2. PICK D \in SUBSET StoreKeys : overlay \in [D -> Cells]
  BY <1>1 DEF IInv, IsWriteSet
<1>3. backend' = View
  BY <1>1, <1>2 DEF Override, View, IInv
<1>4. View \in [StoreKeys -> Cells]
  BY ViewType
<1>5. View' = View
  BY <1>1, <1>3, <1>4 DEF View
<1>6. StoredHead' = auditHead
  BY <1>3, RecordedHead DEF StoredHead, IInv
<1>7. auditHead.root \in Roots /\ StoredHead.root \in Roots
  BY DEF IInv, Recorded, Heads
<1>8. StartOf(auditHead.root, auditHead.root) /\ \A r \in signed : StartOf(r, auditHead.root)
  BY <1>7, StartOfOrder DEF IInv
<1> QED BY <1>1, <1>3, <1>4, <1>5, <1>6, <1>8 DEF IInv

(* ROLLBACK and a crash go back to what is stored.                         *)
LEMMA AbortInv ==
  ASSUME IInv, overlay' = NoTxn, backend' = backend, auditHead' = StoredHead,
         txnAuditHead' = NoTxn, signed' = signed
  PROVE  IInv'
<1>1. StoredHead' = StoredHead
  BY DEF StoredHead
<1>2. View' = backend
  BY DEF View, IInv
<1>3. StoredHead.root \in Roots
  BY DEF IInv, Recorded, Heads
<1>4. StartOf(StoredHead.root, StoredHead.root)
  BY <1>3, StartOfOrder
<1> QED BY <1>1, <1>2, <1>4 DEF IInv

(* A signature outside a transaction is over the stored history.           *)
LEMMA SignInv == ASSUME IInv, SignAuditRoot PROVE IInv'
<1>1. UNCHANGED <<backend, overlay, auditHead, txnAuditHead>>
  BY DEF SignAuditRoot
<1>2. View' = View /\ StoredHead' = StoredHead
  BY <1>1 DEF View, StoredHead
<1>3. StoredHead.root \in Roots /\ StartOf(StoredHead.root, StoredHead.root)
  BY StartOfOrder DEF IInv, Recorded, Heads
<1>4. signed' \subseteq Roots /\ \A r \in signed' : StartOf(r, StoredHead.root)
  <2>1. CASE overlay = NoTxn
    BY <1>3, <2>1 DEF SignAuditRoot, IInv
  <2>2. CASE overlay # NoTxn
    BY <2>2 DEF SignAuditRoot, IInv
  <2> QED BY <2>1, <2>2
<1> QED BY <1>1, <1>2, <1>4 DEF IInv

(* No step breaks the invariant.                                           *)
LEMMA StepInv == IInv /\ [Next]_vars => IInv'
<1> SUFFICES ASSUME IInv, [Next]_vars PROVE IInv'
  OBVIOUS
<1>1. CASE \E w \in Statements : Execute(w)
  BY <1>1, ExecuteInv
<1>2. CASE Begin
  BY <1>2, BeginInv
<1>3. CASE Commit
  BY <1>3, CommitInv
<1>4. CASE Rollback
  BY <1>4, AbortInv DEF Rollback, IInv
<1>5. CASE Reopen
  BY <1>5, AbortInv DEF Reopen
<1>6. CASE SignAuditRoot
  BY <1>6, SignInv
<1>7. CASE UNCHANGED vars
  <2>1. View' = View /\ StoredHead' = StoredHead
    BY <1>7 DEF View, StoredHead, vars
  <2> QED BY <1>7, <2>1 DEF IInv, vars
<1> QED BY <1>1, <1>2, <1>3, <1>4, <1>5, <1>6, <1>7 DEF Next

(* The invariant holds in every reachable state.                           *)
LEMMA Invariance == Spec => []IInv
BY InitInv, StepInv, PTL DEF Spec

-----------------------------------------------------------------------------
(* What the invariant says.                                                *)

(* "History and data can never disagree": stored rows and the rows a       *)
(* session sees are exactly what the statements of their audit chains      *)
(* wrote, and both chains verify, in every state of every engine.          *)
THEOREM HistoryAndData == Spec => []HistoryAgrees
<1>1. IInv => HistoryAgrees
  <2> SUFFICES ASSUME IInv PROVE HistoryAgrees
    OBVIOUS
  <2>1. TypeOK
    <3>1. DOMAIN backend = StoreKeys /\ auditHead \in Heads /\ StoredHead \in Heads
      BY DEF IInv, Recorded
    <3>2. overlay # NoTxn => DOMAIN overlay \subseteq StoreKeys
      BY DEF IInv, IsWriteSet
    <3>3. overlay = NoTxn <=> txnAuditHead = NoTxn
      BY <3>1, NoTxnIsNoMap DEF IInv
    <3> QED BY <3>1, <3>2, <3>3 DEF TypeOK, IInv
  <2>2. ChainVerifies
    BY RecordedVerifies DEF IInv, ChainVerifies, StoredChainVerifies
  <2>3. HistoryIsData
    BY DEF IInv, Recorded, HistoryIsData
  <2> QED BY <2>1, <2>2, <2>3 DEF HistoryAgrees
<1> QED BY <1>1, Invariance, PTL

(* A root signed outside a transaction is never denied: it stays an        *)
(* initial part of the history through every rollback and crash.           *)
THEOREM SignaturesStand == Spec => []SignedIsHistory
<1>1. IInv => SignedIsHistory
  <2> SUFFICES ASSUME IInv, NEW r \in signed
               PROVE  Len(r) <= Len(auditHead.root) /\ r = SubSeq(auditHead.root, 1, Len(r))
    BY DEF SignedIsHistory
  <2>1. r \in Roots /\ auditHead.root \in Roots /\ StoredHead.root \in Roots
    BY DEF IInv, Recorded, Heads
  <2>2. StartOf(r, auditHead.root)
    BY <2>1, StartOfOrder DEF IInv
  <2> QED BY <2>1, <2>2, StartOfIsSubSeq DEF StartOf
<1> QED BY <1>1, Invariance, PTL

-----------------------------------------------------------------------------
(* Refinement.                                                             *)

(* The statements of a history, and of a history with one more.            *)
LEMMA DigestsAppend ==
  ASSUME NEW root \in Roots, NEW n \in Nat, NEW w \in Statements
  PROVE  Digests(Append(root, [seq |-> n, digest |-> w])) = Append(Digests(root), w)
<1> DEFINE s == [seq |-> n, digest |-> w]
           a == Digests(Append(root, s))
           b == Append(Digests(root), w)
<1>1. s \in Steps
  BY DEF Steps
<1>0. root \in Seq(Steps)
  BY DEF Roots, Steps
<1>2. /\ Len(Append(root, s)) = Len(root) + 1 /\ Len(root) \in Nat
      /\ \A i \in 1..Len(root) : Append(root, s)[i] = root[i] /\ root[i].digest \in Statements
      /\ Append(root, s)[Len(root) + 1] = s
  <2>1. \A i \in 1..Len(root) : root[i] \in Steps
    BY <1>0
  <2>2. \A i \in 1..Len(root) : root[i].digest \in Statements
    BY <2>1 DEF Steps
  <2> HIDE DEF s
  <2> QED BY <1>0, <1>1, <2>2
<1>3. Digests(root) \in Seq(Statements) /\ Len(Digests(root)) = Len(root)
  BY <1>2 DEF Digests
<1>4. a \in Seq(Statements) /\ Len(a) = Len(root) + 1
  BY <1>2 DEF Digests
<1>5. b \in Seq(Statements) /\ Len(b) = Len(root) + 1
  BY <1>2, <1>3
<1>6. \A i \in 1..(Len(root) + 1) : a[i] = b[i]
  BY <1>2, <1>3 DEF Digests
<1> HIDE DEF a, b
<1>7. a = b
  BY <1>4, <1>5, <1>6, SeqEqual
<1> QED BY <1>7 DEF a, b

(* Every step is a step of the serial history, or none.                    *)
LEMMA StepRefines ==
  IInv /\ IInv' /\ [Next]_vars =>
    [Serial!HistExec \/ Serial!HistBegin \/ Serial!HistCommit \/ Serial!HistAbort]_(Serial!histVars)
<1> SUFFICES ASSUME IInv, IInv', [Next]_vars
             PROVE  \/ Serial!HistExec \/ Serial!HistBegin \/ Serial!HistCommit \/ Serial!HistAbort
                    \/ UNCHANGED Serial!histVars
  OBVIOUS
<1>1. CASE \E w \in Statements : Execute(w)
  <2>1. PICK w \in Statements : Execute(w)
    BY <1>1
  <2>2. auditHead' = NewHead(w)
    BY <2>1 DEF Execute
  <2>3. auditHead'.root = Append(auditHead.root, [seq |-> auditHead.n, digest |-> w])
    BY <2>2 DEF NewHead, Root, Entry
  <2>4. Digests(auditHead'.root) = Append(Digests(auditHead.root), w)
    BY <2>3, DigestsAppend DEF IInv, Recorded, Heads
  <2>5. CASE overlay # NoTxn
    <3>1. overlay' # NoTxn /\ StoredHead' = StoredHead
      BY <2>1, <2>5, OverrideType, BatchType, WriteSetIsNoNoTxn DEF Execute, StoredHead, IInv
    <3> QED BY <2>4, <2>5, <3>1 DEF Serial!HistExec
  <2>6. CASE overlay = NoTxn
    <3>1. overlay' = NoTxn
      BY <2>1, <2>6 DEF Execute
    <3>2. StoredHead' = auditHead'
      BY <3>1 DEF IInv
    <3> QED BY <2>4, <2>6, <3>1, <3>2 DEF Serial!HistExec
  <2> QED BY <2>5, <2>6
<1>2. CASE Begin
  <2>1. overlay = NoTxn /\ overlay' # NoTxn /\ auditHead' = auditHead /\ StoredHead' = StoredHead
    BY <1>2, EmptyIsWriteSet, WriteSetIsNoNoTxn DEF Begin, StoredHead
  <2> QED BY <2>1 DEF Serial!HistBegin
<1>3. CASE Commit
  <2>1. overlay # NoTxn /\ overlay' = NoTxn /\ auditHead' = auditHead
    BY <1>3 DEF Commit
  <2>2. StoredHead' = auditHead
    BY <2>1 DEF IInv
  <2> QED BY <2>1, <2>2 DEF Serial!HistCommit
<1>4. CASE Rollback \/ Reopen
  <2>1. overlay' = NoTxn /\ auditHead' = StoredHead /\ StoredHead' = StoredHead
    BY <1>4 DEF Rollback, Reopen, IInv, StoredHead
  <2> QED BY <2>1 DEF Serial!HistAbort
<1>5. CASE SignAuditRoot \/ UNCHANGED vars
  <2>1. overlay' = overlay /\ auditHead' = auditHead /\ StoredHead' = StoredHead
    BY <1>5 DEF SignAuditRoot, vars, StoredHead
  <2> QED BY <2>1 DEF Serial!histVars
<1> QED BY <1>1, <1>2, <1>3, <1>4, <1>5 DEF Next

(* The engine implements the serial history: a transaction happens whole,  *)
(* at COMMIT, or not at all, wherever BEGIN, COMMIT, ROLLBACK and the end  *)
(* of the process fall.                                                    *)
THEOREM Refinement == Spec => ImplementsSerialHistory
<1>1. Init => Serial!HistInit
  <2> SUFFICES ASSUME Init PROVE Serial!HistInit
    OBVIOUS
  <2>1. StoredHead = Genesis /\ auditHead = Genesis /\ overlay = NoTxn
    BY StoreKeysHave DEF Init, StoredHead
  <2>2. Digests(<<>>) = <<>>
    BY DEF Digests
  <2> QED BY <2>1, <2>2 DEF Serial!HistInit, Genesis
<1>2. IInv /\ IInv' /\ [Next]_vars =>
        [Serial!HistNext]_(Serial!histVars)
  BY StepRefines DEF Serial!HistNext
<1> QED BY <1>1, <1>2, Invariance, PTL DEF Spec, ImplementsSerialHistory, Serial!HistSpec
=============================================================================
