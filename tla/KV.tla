--------------------------------- MODULE KV ---------------------------------
(***************************************************************************)
(* Key-value tables and the batches that change them: the data shared by   *)
(* the storage layer, the promise it makes and the nodes that replicate it.*)
(***************************************************************************)
EXTENDS Naturals, Sequences

CONSTANTS Keys,      \* the key space
          Values,    \* the value space
          Absent     \* "this key has no value"

ASSUME AbsentIsNoValue == Absent \notin Values

(* A table maps every key to a value or to Absent; an entry sets or, with  *)
(* Absent, removes one key; a batch is a sequence of entries.              *)
Tables  == [Keys -> Values \cup {Absent}]
Entries == [key : Keys, val : Values \cup {Absent}]
Empty   == [k \in Keys |-> Absent]

(* The element of a set known to have exactly one.                         *)
Only(S) == CHOOSE x \in S : TRUE

(* The positions of es that write k and are not overwritten by a later     *)
(* entry of es: at most one.                                               *)
LastWriteTo(es, k) ==
  {i \in DOMAIN es : /\ es[i].key = k
                     /\ \A j \in DOMAIN es : j > i => es[j].key # k}

Touches(es, k) == LastWriteTo(es, k) # {}
Written(es, k) == es[Only(LastWriteTo(es, k))].val

(* The table after applying the entries of es to m, in order.              *)
ApplyOps(m, es) ==
  [k \in Keys |-> IF Touches(es, k) THEN Written(es, k) ELSE m[k]]
=============================================================================
