---------------------------- MODULE Transactions ----------------------------
(***************************************************************************)
(* ciphra-engine: the store with its transaction overlay, and the audit    *)
(* chain every writing statement extends in the same commit as its rows.   *)
(*                                                                         *)
(* The backend is one key-value table (durable, see WalStorage): rows,     *)
(* audit entries by sequence number, and the audit head. SHA-256 has no    *)
(* collisions, so the root of an entry stands for what was hashed into it: *)
(* the previous root, the sequence number and the digest of the write set. *)
(***************************************************************************)
EXTENDS Naturals, Sequences, FiniteSets

CONSTANTS Keys,        \* keys of rows, catalog entries, indexes
          Values,      \* sealed values
          Absent,      \* "this key has no value"
          NoTxn,       \* "no transaction is open"
          Statements,  \* the write sets statements commit: partial tables
          MaxAudit     \* bound: audited statements

ASSUME AbsentIsNoValue   == Absent \notin Values
ASSUME MaxAuditIsNat     == MaxAudit \in Nat
ASSUME StatementsAreWrites ==
  \A w \in Statements : /\ DOMAIN w \subseteq Keys
                        /\ \A k \in DOMAIN w : w[k] \in Values \cup {Absent}

(* What the backend may hold under a key.                                  *)
Roots     == Seq([seq : Nat, digest : Statements])
Heads     == [n : 0..MaxAudit, root : Roots]
AuditRows == [seq : 0..MaxAudit, digest : Statements, prev : Roots]
Row(k)    == <<"row", k>>
Audit(i)  == <<"audit", i>>
HeadKey   == <<"head", 0>>
StoreKeys == {Row(k) : k \in Keys} \cup {Audit(i) : i \in 0..MaxAudit} \cup {HeadKey}
Cells     == Values \cup {Absent} \cup Heads \cup AuditRows

ASSUME AbsentIsNoRecord == Absent \notin Heads /\ Absent \notin AuditRows
ASSUME NoTxnIsNoMap     == NoTxn \notin Heads /\ \A D \in SUBSET StoreKeys : NoTxn \notin [D -> Cells]

VARIABLES backend,      \* Store.backend: the committed key-value table
          overlay,      \* Store.overlay: buffered writes, or NoTxn
          auditHead,    \* Engine.audit_head: next sequence number, root
          txnAuditHead, \* Engine.txn_audit_head: auditHead at BEGIN, or NoTxn
          signed        \* history: roots signed while no transaction was open

vars == <<backend, overlay, auditHead, txnAuditHead, signed>>

-----------------------------------------------------------------------------
(* The writes of w on top of those of g: BTreeMap::insert, key by key.     *)
Override(g, w) ==
  [k \in DOMAIN g \cup DOMAIN w |-> IF k \in DOMAIN w THEN w[k] ELSE g[k]]

(* Store::get and Store::scan_prefix: the overlay over the backend.        *)
View ==
  [k \in StoreKeys |-> IF overlay # NoTxn /\ k \in DOMAIN overlay
                       THEN overlay[k] ELSE backend[k]]

Genesis == [n |-> 0, root |-> <<>>]

(* AuditEntry::root.                                                       *)
Root(e) == Append(e.prev, [seq |-> e.seq, digest |-> e.digest])

(* commit_with_audit: the statement's writes, its audit entry and the new  *)
(* head, as one batch.                                                     *)
Entry(w) == [seq |-> auditHead.n, digest |-> w, prev |-> auditHead.root]
NewHead(w) == [n |-> auditHead.n + 1, root |-> Root(Entry(w))]

BugHeadNotInBatch(w) ==
  [k \in {Row(j) : j \in DOMAIN w} \cup {Audit(auditHead.n)} |->
     IF k = Audit(auditHead.n) THEN Entry(w) ELSE w[k[2]]]

AuditedBatch(w) ==
  [k \in {Row(j) : j \in DOMAIN w} \cup {Audit(auditHead.n), HeadKey} |->
     IF k = HeadKey THEN NewHead(w)
     ELSE IF k = Audit(auditHead.n) THEN Entry(w) ELSE w[k[2]]]

Init ==
  /\ backend = [k \in StoreKeys |-> Absent]
  /\ overlay = NoTxn
  /\ auditHead = Genesis
  /\ txnAuditHead = NoTxn
  /\ signed = {}

-----------------------------------------------------------------------------
(* execute_statement of a statement that writes: commit_audited, Store::   *)
(* commit into the overlay or, outside a transaction, into the backend.    *)
(* (An autocommitted statement whose backend commit fails changes nothing.)*)
BugIgnoresOverlay(w) ==
  /\ auditHead.n < MaxAudit
  /\ backend' = Override(backend, AuditedBatch(w))
  /\ auditHead' = NewHead(w)
  /\ UNCHANGED <<overlay, txnAuditHead, signed>>

Execute(w) ==
  /\ auditHead.n < MaxAudit
  /\ IF overlay # NoTxn
     THEN /\ overlay' = Override(overlay, AuditedBatch(w))
          /\ backend' = backend
     ELSE /\ backend' = Override(backend, AuditedBatch(w))
          /\ overlay' = overlay
  /\ auditHead' = NewHead(w)
  /\ UNCHANGED <<txnAuditHead, signed>>

Begin ==
  /\ overlay = NoTxn
  /\ txnAuditHead' = auditHead
  /\ overlay' = <<>>
  /\ UNCHANGED <<backend, auditHead, signed>>

(* COMMIT: the overlay is taken and flushed as one backend commit.         *)
Commit ==
  /\ overlay # NoTxn
  /\ backend' = Override(backend, overlay)
  /\ overlay' = NoTxn
  /\ txnAuditHead' = NoTxn
  /\ UNCHANGED <<auditHead, signed>>

BugRollbackKeepsHead ==
  /\ overlay # NoTxn
  /\ overlay' = NoTxn
  /\ txnAuditHead' = NoTxn
  /\ UNCHANGED <<backend, auditHead, signed>>

Rollback ==
  /\ overlay # NoTxn
  /\ overlay' = NoTxn
  /\ auditHead' = txnAuditHead
  /\ txnAuditHead' = NoTxn
  /\ UNCHANGED <<backend, signed>>

(* The head open_store loads.                                              *)
StoredHead == IF backend[HeadKey] = Absent THEN Genesis ELSE backend[HeadKey]

(* The process ends, with or without an open transaction, and open_store   *)
(* loads the head again.                                                   *)
Reopen ==
  /\ overlay' = NoTxn
  /\ auditHead' = StoredHead
  /\ txnAuditHead' = NoTxn
  /\ UNCHANGED <<backend, signed>>

(* audit_verify over a table and the head it should end in: the entries in *)
(* key order, contiguous from 0, each extending the previous root.         *)
Count(t) == Cardinality({i \in 0..MaxAudit : t[Audit(i)] # Absent})
AuditVerify(t, head) ==
  LET n == Count(t)
      RootAt(i) == IF i = 0 THEN <<>> ELSE Root(t[Audit(i - 1)])
  IN  /\ \A i \in 0..(n - 1) : /\ t[Audit(i)] # Absent
                               /\ t[Audit(i)].seq = i
                               /\ t[Audit(i)].prev = RootAt(i)
      /\ head = [n |-> n, root |-> RootAt(n)]

(* sign_audit_root verifies the chain and signs the head it shows. Inside  *)
(* a transaction it signs statements that may still be rolled back; those  *)
(* signatures are left out of the history variable.                        *)
SignAuditRoot ==
  /\ AuditVerify(View, auditHead)
  /\ signed' = IF overlay = NoTxn THEN signed \cup {auditHead.root} ELSE signed
  /\ UNCHANGED <<backend, overlay, auditHead, txnAuditHead>>

Next ==
  \/ \E w \in Statements : Execute(w)
  \/ Begin
  \/ Commit
  \/ Rollback
  \/ Reopen
  \/ SignAuditRoot

Spec == Init /\ [][Next]_vars

-----------------------------------------------------------------------------
(* COMMIT whose backend commit fails (a full disk, a lost connection, a    *)
(* server that is a read-only replica): the overlay is gone, the head      *)
(* stays where the buffered statements left it.                            *)
CommitFails ==
  /\ overlay \notin {NoTxn, <<>>}
  /\ overlay' = NoTxn
  /\ UNCHANGED <<backend, auditHead, txnAuditHead, signed>>

SpecFail == Init /\ [][Next \/ CommitFails]_vars

-----------------------------------------------------------------------------
(* Type invariant: a head was saved exactly while a transaction is open.   *)
TypeOK ==
  /\ DOMAIN backend = StoreKeys
  /\ overlay # NoTxn => DOMAIN overlay \subseteq StoreKeys
  /\ auditHead \in Heads
  /\ txnAuditHead \in Heads \cup {NoTxn}
  /\ overlay = NoTxn <=> txnAuditHead = NoTxn

(* The chain a reopened database would load verifies: restore_from and     *)
(* every later audit_verify accept it.                                     *)
StoredChainVerifies == AuditVerify(backend, StoredHead)

(* The session's own chain verifies as well: mid-transaction, after a      *)
(* rollback and after a crash.                                             *)
ChainVerifies == StoredChainVerifies /\ AuditVerify(View, auditHead)

(* The table a list of statements leaves behind.                           *)
LastWriter(root, k) ==
  {i \in 1..Len(root) : /\ k \in DOMAIN root[i].digest
                        /\ \A j \in (i + 1)..Len(root) : k \notin DOMAIN root[j].digest}
RowsOf(root) ==
  [k \in Keys |-> IF LastWriter(root, k) = {} THEN Absent
                  ELSE root[CHOOSE i \in LastWriter(root, k) : TRUE].digest[k]]

(* "History and data can never disagree": what a session reads is exactly  *)
(* what the statements of its audit chain wrote, and what is stored is     *)
(* exactly what the statements of the stored chain wrote.                  *)
HistoryIsData ==
  /\ \A k \in Keys : View[Row(k)] = RowsOf(auditHead.root)[k]
  /\ \A k \in Keys : backend[Row(k)] = RowsOf(StoredHead.root)[k]

(* Together: rows, stored chain and the session's own chain agree.         *)
HistoryAgrees == TypeOK /\ ChainVerifies /\ HistoryIsData

(* A root signed outside a transaction stays part of the history: no       *)
(* rollback and no crash produces a chain that denies it.                  *)
SignedIsHistory ==
  \A r \in signed : /\ Len(r) <= Len(auditHead.root)
                     /\ r = SubSeq(auditHead.root, 1, Len(r))

(* The engine implements the serial history: transactions are all or       *)
(* nothing, under every placement of BEGIN, COMMIT, ROLLBACK and crashes.  *)
Digests(root) == [i \in 1..Len(root) |-> root[i].digest]
Serial == INSTANCE SerialHistory
  WITH durable <- Digests(StoredHead.root),
       current <- Digests(auditHead.root),
       inTxn <- overlay # NoTxn, setbacks <- {}

ImplementsSerialHistory == Serial!HistSpec
=============================================================================
