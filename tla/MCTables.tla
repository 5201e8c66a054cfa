------------------------------ MODULE MCTables ------------------------------
(* Small instances of Tables for TLC.                                      *)
EXTENDS Tables

CONSTANTS lo, hi,    \* two literals of an INT column's type
          real,      \* a REAL literal that compares equal to lo
          text       \* a TEXT literal: compare_values puts it behind numbers

MCCols == 1..2
MCLits == {lo, hi, real, text}

MCCoerce == [v \in {lo, hi} |-> v]
MCKind   == [v \in MCLits |-> IF v = text THEN "text" ELSE "number"]
MCRank   == [v \in MCLits |-> CASE v \in {lo, real} -> 1 [] v = hi -> 2 [] v = text -> 3]
MCClass  == [v \in MCLits |-> v]

MCInserts ==
  {<<r>> : r \in [Cols -> Storable]}
    \cup {<<r, [c \in Cols |-> v]>> : r \in [Cols -> Storable], v \in Values}

MCClauses ==
  {Atom(IsNull(2)), Atom(Compare(2, "=", hi)), Atom(Compare(2, "<=", lo)),
   Atom(Compare(1, "=", lo)), Or(Compare(1, "=", lo), Compare(2, "=", lo)),
   And(Compare(1, ">", lo), Compare(2, "=", hi)),
   Atom(Compare(1, "=", real)), And(Compare(1, "=", lo), Compare(2, "<", text))}

MCAtoms == {Compare(c, op, v) : c \in Cols, op \in CmpOps, v \in Operands}
             \cup {IsNull(c) : c \in Cols} \cup {IsNotNull(c) : c \in Cols}
MCJoined(c) == {Compare(c, op, v) : op \in {"=", "<="}, v \in Values}
MCQuestions ==
  {Everything} \cup {Atom(a) : a \in MCAtoms} \cup {Not(a) : a \in MCAtoms}
    \cup {And(a, b) : a \in MCJoined(1) \cup {Compare(1, "=", real)},
                      b \in MCJoined(2) \cup {Compare(2, "=", text)}}
    \cup {Or(a, b) : a \in MCJoined(1), b \in MCJoined(2) \cup {Compare(2, "=", text)}}

MCAssignments ==
  {[c \in {d} |-> v] : d \in Cols, v \in Storable} \cup {[c \in Cols |-> hi]}
=============================================================================
