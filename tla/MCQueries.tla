----------------------------- MODULE MCQueries ------------------------------
(* Small instances of Queries for TLC: column 1 is TEXT, column 2 INT,     *)
(* column 3 a VECTOR. INT holds -4..3.                                     *)
EXTENDS Queries

MCCols == 1..3
MCLits == {1, 2, 3, 4}
Id == [v \in MCLits |-> v]

(* 1 to 3 are what every column holds, each of its type; 4 is a VECTOR     *)
(* literal, which no clause may compare.                                   *)
Stored == [v \in 1..3 |-> v]
MCKind == [v \in MCLits |-> IF v = 4 THEN "vector" ELSE "number"]
MCColType == <<"text", "int", "vector">>

(* 1 is the query vector, 3 is orthogonal to it, 2 has norm zero.          *)
MCDistance == <<0, 10, 10>>

Row(t, n, v) == <<t, n, v>>
MCRows == {Row(1, 2, 1), Row(1, 3, 2), Row(2, 2, Null), Row(2, Null, 3), Row(Null, 1, 1), Row(Null, Null, 2)}

Col(c)   == [fn |-> "col", col |-> c]
Agg(f, c) == [fn |-> f, col |-> c]
Count    == Agg("count*", 1)
NoHaving == [kind |-> "all", atoms |-> <<>>]
H(it, op, v) == [fn |-> it.fn, col |-> it.col, op |-> op, lit |-> v]
Limit(c, o) == <<[count |-> c, offset |-> o]>>
By(c, d) == <<[col |-> c, dir |-> d]>>

Wheres == {Everything, Atom(Compare(2, ">=", 2)), Atom(Compare(2, "=", 2)), Or(Compare(1, "=", 1), IsNull(2)),
           Not(Compare(1, "<", 2)), And(Compare(1, "=", 2), Compare(2, "<=", 2))}

Plain(w, items, star, order, limit) ==
  [where |-> w, items |-> items, star |-> star, group |-> <<>>, having |-> NoHaving,
   order |-> order, limit |-> limit]
Grouped(w, items, group, having, limit) ==
  [where |-> w, items |-> items, star |-> FALSE, group |-> group, having |-> having,
   order |-> <<>>, limit |-> limit]

Orders == {<<>>, By(1, "asc"), By(2, "desc"), By(3, "nearest"), By(3, "asc"), By(1, "nearest")}
Limits == {<<>>, Limit(1, 0), Limit(2, 1), Limit(0, 0), Limit(1, 3)}

Having == [kind |-> "atom", atoms |-> <<H(Count, ">", 1)>>]

PlainQueries ==
  {Plain(w, <<>>, TRUE, o, l) : w \in {Everything, Atom(Compare(2, ">=", 2))}, o \in Orders, l \in Limits}
  \cup {Plain(w, <<Col(1)>>, FALSE, o, Limit(2, 0)) :
           w \in Wheres \cup {Or(Compare(1, "=", 1), Compare(2, "=", 4))}, o \in Orders}
  \cup {[Plain(w, <<>>, TRUE, o, <<>>) EXCEPT !.having = Having] : w \in Wheres, o \in Orders}

Havings == {NoHaving,
  Having,
  [kind |-> "not", atoms |-> <<H(Agg("sum", 2), "=", 2)>>],
  [kind |-> "and", atoms |-> <<H(Col(1), "=", 1), H(Agg("max", 2), ">=", 2)>>],
  [kind |-> "or", atoms |-> <<H(Agg("avg", 2), ">", 2), H(Agg("min", 3), "=", Null)>>],
  [kind |-> "or", atoms |-> <<H(Agg("min", 2), "<", 2), H(Agg("avg", 2), ">", 2)>>]}

Items == {<<Count>>, <<Col(1), Agg("sum", 2), Agg("avg", 2)>>, <<Agg("min", 2), Agg("max", 1), Agg("count", 2)>>,
          <<Col(2), Count>>, <<Agg("sum", 1)>>}

GroupQueries ==
  {Grouped(w, it, g, h, <<>>) : w \in {Everything, Atom(Compare(2, ">=", 2))}, it \in Items,
                                g \in {<<>>, <<1>>}, h \in Havings}
  \cup {Grouped(w, <<Col(2), Col(1), Count>>, <<1, 2>>, h, Limit(1, 1)) : w \in Wheres, h \in Havings}
  \cup {[Grouped(Everything, <<Count>>, <<1>>, NoHaving, <<>>) EXCEPT !.order = By(1, "asc")]}

MCAsked == PlainQueries \cup GroupQueries
=============================================================================
