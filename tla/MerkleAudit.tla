---------------------------- MODULE MerkleAudit -----------------------------
(***************************************************************************)
(* ciphra-engine: the Merkle tree over the audit entries and the inclusion *)
(* proofs, on top of Transactions, whose chain they are about; and the     *)
(* external auditor who checks a receipt with nothing but the entry, the   *)
(* proof and a published root. Proving changes no state: a receipt is what *)
(* audit_inclusion_proof returned when the history had some length.        *)
(*                                                                         *)
(* SHA-256 has no collisions: a hash is the term that was hashed. An entry *)
(* commits to the statements before it through prev_root.                  *)
(***************************************************************************)
EXTENDS Transactions, Integers, SequencesExt

CONSTANTS MaxForged,   \* bound: entries of the histories forged receipts are tried on
          MaxSiblings  \* bound: siblings of a forged receipt

ASSUME ForgeryBoundsAreNat == MaxForged \in Nat /\ MaxSiblings \in Nat

-----------------------------------------------------------------------------
(* audit_verify returns the entries in order. Where the chain verifies     *)
(* they are those of its root, and so for the history of a signed root.    *)
AuditEntries == [i \in 1..Count(View) |-> View[Audit(i - 1)]]
EntriesOf(r) == [i \in 1..Len(r) |-> [seq |-> i - 1, digest |-> r[i].digest, prev |-> SubSeq(r, 1, i - 1)]]

Leaf(e)    == <<"leaf", e>>
Node(l, r) == <<"node", l, r>>
EmptyRoot  == <<"empty">>

(* One pass of the loop in merkle_levels: neighbours are paired and a lone *)
(* node is promoted unchanged.                                             *)
NextLevel(level) ==
  [i \in 1..((Len(level) + 1) \div 2) |->
     IF 2 * i <= Len(level) THEN Node(level[2 * i - 1], level[2 * i]) ELSE level[2 * i - 1]]

RECURSIVE LevelsAbove(_)
LevelsAbove(level) ==
  IF Len(level) <= 1 THEN <<level>> ELSE <<level>> \o LevelsAbove(NextLevel(level))

Leaves(h)     == [i \in 1..Len(h) |-> Leaf(h[i])]
MerkleLevels(h) == LevelsAbove(Leaves(h))
MerkleRoot(h) == IF h = <<>> THEN EmptyRoot ELSE Last(MerkleLevels(h))[1]

(* audit_inclusion_proof: the sibling, where there is one, of the position *)
(* at each level below the root.                                           *)
RECURSIVE SiblingsFrom(_, _)
SiblingsFrom(levels, pos) ==
  IF Len(levels) = 1 THEN <<>>
  ELSE LET level == levels[1]
           sibling == IF pos % 2 = 1 THEN <<level[pos]>>
                      ELSE IF pos + 1 < Len(level) THEN <<level[pos + 2]>> ELSE <<>>
       IN  sibling \o SiblingsFrom(Tail(levels), pos \div 2)

AuditInclusionProof(h, idx) ==
  [entry |-> h[idx + 1], root |-> MerkleRoot(h),
   proof |-> [index |-> idx, total |-> Len(h), siblings |-> SiblingsFrom(MerkleLevels(h), idx)]]

(* verify_inclusion: the loop that folds the siblings into the leaf.       *)
RECURSIVE Climb(_, _, _, _, _)
Climb(hash, pos, size, sibs, root) ==
  IF size <= 1 THEN sibs = <<>> /\ hash = root
  ELSE IF pos % 2 = 1
       THEN sibs # <<>> /\ Climb(Node(sibs[1], hash), pos \div 2, (size + 1) \div 2, Tail(sibs), root)
  ELSE IF pos + 1 < size
       THEN sibs # <<>> /\ Climb(Node(hash, sibs[1]), pos \div 2, (size + 1) \div 2, Tail(sibs), root)
  ELSE Climb(hash, pos \div 2, (size + 1) \div 2, sibs, root)

BugIndexUnchecked(e, p, root) ==
  /\ p.index < p.total
  /\ Climb(Leaf(e), p.index, p.total, p.siblings, root)

VerifyInclusion(e, p, root) ==
  /\ p.index = e.seq
  /\ p.index < p.total
  /\ Climb(Leaf(e), p.index, p.total, p.siblings, root)

-----------------------------------------------------------------------------
(* Reference: the tree splits at the largest power of two below its size,  *)
(* so a history keeps the subtrees of its prefixes.                        *)
RECURSIVE TreeHash(_)
TreeHash(h) ==
  IF h = <<>> THEN EmptyRoot
  ELSE IF Len(h) = 1 THEN Leaf(h[1])
  ELSE LET k == CHOOSE p \in {1, 2, 4, 8, 16} : p < Len(h) /\ 2 * p >= Len(h)
       IN  Node(TreeHash(SubSeq(h, 1, k)), TreeHash(SubSeq(h, k + 1, Len(h))))

(* merkle_root_of builds the canonical tree: promoting lone nodes level by *)
(* level gives the same root as splitting at powers of two.                *)
TreeIsCanonical == MerkleRoot(AuditEntries) = TreeHash(AuditEntries)

(* A receipt, issued when the history had m entries, is accepted against   *)
(* the root published over as many entries and against no other, older or  *)
(* newer (audit_inclusion_proof, verify_inclusion, sign_audit_root).       *)
ReceiptNeedsItsRoot ==
  overlay = NoTxn =>
    \A r \in signed, m \in 1..Len(AuditEntries) : \A idx \in 0..(m - 1) :
      LET receipt == AuditInclusionProof(SubSeq(AuditEntries, 1, m), idx)
      IN  VerifyInclusion(receipt.entry, receipt.proof, MerkleRoot(EntriesOf(r))) <=> m = Len(r)

(* What an auditor could be shown: entries at any place, with any writes,  *)
(* behind any part of the history; any index and total; siblings from the  *)
(* tree or from outside it.                                                *)
Shown == [seq : 0..MaxForged, digest : Statements, prev : {SubSeq(auditHead.root, 1, i) : i \in 0..auditHead.n}]
Hashes(h) == UNION {ToSet(level) : level \in ToSet(MerkleLevels(h))}
               \cup {Leaf([seq |-> 0, digest |-> w, prev |-> <<>>]) : w \in Statements}

(* verify_inclusion accepts, against a published root, nothing but         *)
(* statements that are recorded in the database, at their own place,       *)
(* whatever total and siblings come with them. (The total itself is not    *)
(* bound by the root: index and entry are.)                                *)
OnlyHistoryVerifies ==
  overlay = NoTxn /\ Cardinality(signed) = 1 /\ Len(AuditEntries) <= MaxForged =>
    \A r \in signed : \A e \in Shown, idx, total \in 0..MaxForged,
       sibs \in SeqOf(Hashes(EntriesOf(r)), MaxSiblings) :
      VerifyInclusion(e, [index |-> idx, total |-> total, siblings |-> sibs], MerkleRoot(EntriesOf(r)))
        => idx < Len(AuditEntries) /\ AuditEntries[idx + 1] = e

(* Together: what the owner proves and what an auditor accepts is the      *)
(* recorded history, entry by entry.                                       *)
ReceiptsAreSound == TreeIsCanonical /\ ReceiptNeedsItsRoot /\ OnlyHistoryVerifies
=============================================================================
