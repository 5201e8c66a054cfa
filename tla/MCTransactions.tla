--------------------------- MODULE MCTransactions ---------------------------
(* A small instance of Transactions and MerkleAudit for TLC: statements    *)
(* that write one key, remove it, or write both keys at once.              *)
EXTENDS MerkleAudit

CONSTANTS k1, v1, v2

MCStatements == {k1 :> v1, k1 :> Absent, [k \in Keys |-> v2]}
=============================================================================
