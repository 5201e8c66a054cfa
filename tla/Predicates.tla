----------------------------- MODULE Predicates -----------------------------
(***************************************************************************)
(* ciphra-engine: cells, literals and WHERE clauses.                       *)
(*                                                                         *)
(* The engine compares values in three different ways: by their encoding   *)
(* (equality-index tags), by Rust's derived PartialEq (has this cell       *)
(* changed?) and by compare_values (predicates, the range index), so each  *)
(* has its own relation here. A literal is its type and its value: 2 and   *)
(* 2.0 are two literals with two encodings and one rank. INSERT and UPDATE *)
(* coerce what they store to the column's type; a WHERE clause keeps its   *)
(* literal as it was written. A clause has at most two comparisons: enough *)
(* for every case of the access-path selection.                            *)
(***************************************************************************)
EXTENDS Integers, Sequences, FiniteSets

CONSTANTS Cols,      \* column positions of the table, 1..n
          Lits,      \* literals a statement may carry, NULL aside
          Null,      \* Value::Null
          Coerce,    \* what coerce() stores, for the literals it accepts
          Kind,      \* "number", "text" or "vector"
          Rank,      \* the position of a literal in compare_values' order
          Class      \* the literals PartialEq identifies share a class

ASSUME NullIsNoLiteral == Null \notin Lits
ASSUME CoerceIsTyped   ==
  DOMAIN Coerce \subseteq Lits /\ \A v \in DOMAIN Coerce : Coerce[v] \in Lits
ASSUME KindIsTotal     == Kind \in [Lits -> {"number", "text", "vector"}]
ASSUME RankIsTotal     == Rank \in [Lits -> Int]
ASSUME ClassIsTotal    == DOMAIN Class = Lits

Operands == Lits \cup {Null}
Storable == DOMAIN Coerce \cup {Null}
Values   == {Coerce[v] : v \in DOMAIN Coerce}
Cells    == Values \cup {Null}
RowsOf   == [Cols -> Cells]

Store(v) == IF v = Null THEN Null ELSE Coerce[v]

(* Value: PartialEq.                                                       *)
Same(a, b) ==
  \/ a = Null /\ b = Null
  \/ a # Null /\ b # Null /\ Class[a] = Class[b]

(* The comparison operators, on the Ordering of two numbers.               *)
Compared(op, m, n) ==
  CASE op = "="  -> m = n
    [] op = "!=" -> m # n
    [] op = "<"  -> m < n
    [] op = "<=" -> m <= n
    [] op = ">"  -> m > n
    [] op = ">=" -> m >= n

(* ... and on the Ordering compare_values returns.                         *)
Holds(op, a, b) == Compared(op, Rank[a], Rank[b])

CmpOps == {"=", "!=", "<", "<=", ">", ">="}

(* A clause: none at all, one atom, its negation, or two atoms joined.     *)
Compare(c, op, v) == [op |-> op, col |-> c, lit |-> v]
IsNull(c)         == [op |-> "is null", col |-> c, lit |-> Null]
IsNotNull(c)      == [op |-> "is not null", col |-> c, lit |-> Null]
Everything        == [kind |-> "all", atoms |-> <<>>]
Atom(a)           == [kind |-> "atom", atoms |-> <<a>>]
Not(a)            == [kind |-> "not", atoms |-> <<a>>]
And(a, b)         == [kind |-> "and", atoms |-> <<a, b>>]
Or(a, b)          == [kind |-> "or", atoms |-> <<a, b>>]

Comparisons == [op : CmpOps \cup {"is null", "is not null"}, col : Cols, lit : Operands]
IsClause(p) ==
  \/ p = Everything
  \/ \E a \in Comparisons : p \in {Atom(a), Not(a)}
  \/ \E a, b \in Comparisons : p \in {And(a, b), Or(a, b)}

-----------------------------------------------------------------------------
Truth(b) == IF b THEN "true" ELSE "false"

(* What eval compares: INT and REAL with each other, TEXT with TEXT;       *)
(* anything else is a type error.                                          *)
Comparable(a, b) == Kind[a] = Kind[b] /\ Kind[a] # "vector"

(* CompiledExpr::eval on one comparison: any NULL makes it unknown.        *)
EvalAtom(a, row) ==
  CASE a.op = "is null"     -> Truth(row[a.col] = Null)
    [] a.op = "is not null" -> Truth(row[a.col] # Null)
    [] OTHER -> IF row[a.col] = Null \/ a.lit = Null THEN "unknown"
                ELSE IF ~Comparable(row[a.col], a.lit) THEN "error"
                ELSE Truth(Holds(a.op, row[a.col], a.lit))

(* Definitely true under Kleene's logic: two atoms with their connective.  *)
DefinitelyTrue(kind, val) ==
  CASE kind = "all"  -> TRUE
    [] kind = "atom" -> val[1] = "true"
    [] kind = "not"  -> val[1] = "false"
    [] kind = "and"  -> val[1] = "true" /\ val[2] = "true"
    [] kind = "or"   -> val[1] = "true" \/ val[2] = "true"

(* CompiledExpr::matches. AND and OR evaluate both sides, so one type      *)
(* error is the clause's, and the statement's.                             *)
Errs(p, row) == \E i \in DOMAIN p.atoms : EvalAtom(p.atoms[i], row) = "error"
Matches(p, row) ==
  /\ ~Errs(p, row)
  /\ DefinitelyTrue(p.kind, [i \in DOMAIN p.atoms |-> EvalAtom(p.atoms[i], row)])
=============================================================================
