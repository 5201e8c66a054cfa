--------------------------- MODULE MCReplication ---------------------------
(* A leader l, a replica r1 of it, a replica r2 of r1 and r3 of r2.        *)
EXTENDS Replication

CONSTANTS r1, r2, r3

MCChain == [f \in Replicas |-> CASE f = r1 -> Leader [] f = r2 -> r1 [] f = r3 -> r2]

(* Writes that set a key, remove it, and change two keys at once.          *)
MCBatches ==
  LET k == CHOOSE x \in Keys : TRUE
      j == CHOOSE x \in Keys : x # k
      v == CHOOSE x \in Values : TRUE
  IN  {<<[key |-> k, val |-> v]>>,
       <<[key |-> k, val |-> Absent], [key |-> j, val |-> v]>>}

(* The data directory of a replica was empty or held an old value.         *)
MCLeftovers == {[k \in Keys |-> CHOOSE x \in Values : TRUE]}
=============================================================================
