---------------------------- MODULE MCWalStorage ----------------------------
(* Small instances of WalStorage for TLC.                                  *)
EXTENDS WalStorage

(* Batches of two entries, on two keys or twice on the same one: two puts, *)
(* and a put with a delete.                                                *)
MCBatches ==
  LET k == CHOOSE x \in Keys : TRUE
      v == CHOOSE x \in Values : TRUE
  IN  {<<[key |-> k, val |-> v], [key |-> l, val |-> w]>> :
          l \in Keys, w \in {CHOOSE u \in Values : u # v, Absent}}
=============================================================================
