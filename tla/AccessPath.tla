----------------------------- MODULE AccessPath -----------------------------
(***************************************************************************)
(* ciphra-engine: the access path a WHERE clause takes. SELECT, UPDATE and *)
(* DELETE use it to fetch rows, EXPLAIN to describe the plan. A schema s   *)
(* records the key column (0: none) and the columns with an equality and   *)
(* with a range index.                                                     *)
(***************************************************************************)
EXTENDS Predicates

(* eq_value_for and range_pred_value: the conjuncts of a clause that pin   *)
(* column c, of which the first counts; OR and NOT pin nothing.            *)
BugOrPins(p, c, ops) ==
  IF p.kind \notin {"atom", "and", "or"} THEN {}
  ELSE {i \in DOMAIN p.atoms :
          p.atoms[i].col = c /\ p.atoms[i].op \in ops /\ p.atoms[i].lit # Null}

Pins(p, c, ops) ==
  IF p.kind \notin {"atom", "and"} THEN {}
  ELSE {i \in DOMAIN p.atoms :
          p.atoms[i].col = c /\ p.atoms[i].op \in ops /\ p.atoms[i].lit # Null}

First(cs) == CHOOSE c \in cs : \A d \in cs : c <= d
Pinned(p, c, ops) == p.atoms[First(Pins(p, c, ops))]

(* indexed_eq_value and range_indexed_pred: the primary key, else the      *)
(* first indexed column the clause pins; else the first range-indexed one. *)
RangeOps == {"=", "<", "<=", ">", ">="}
EqCols(p, s) == {c \in s.indexed : Pins(p, c, {"="}) # {}}
RangeCols(p, s) == {c \in s.ranged : Pins(p, c, RangeOps) # {}}

Path(p, s) ==
  IF s.pk # 0 /\ Pins(p, s.pk, {"="}) # {} THEN [kind |-> "key", col |-> s.pk]
  ELSE IF EqCols(p, s) # {} THEN [kind |-> "index", col |-> First(EqCols(p, s))]
  ELSE IF RangeCols(p, s) # {} THEN [kind |-> "range", col |-> First(RangeCols(p, s))]
  ELSE [kind |-> "scan", col |-> 0]
=============================================================================
