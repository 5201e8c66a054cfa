------------------------------ MODULE Queries -------------------------------
(***************************************************************************)
(* ciphra-engine: what SELECT returns. The rows a clause selects arrive in *)
(* the order of the access path; they are sorted and cut, or folded into   *)
(* groups that HAVING filters.                                             *)
(*                                                                         *)
(* INT cells are integers of a small width, so that SUM overflows; TEXT    *)
(* and VECTOR cells are stand-ins with a rank and a cosine distance. REAL  *)
(* arithmetic is left out, except that AVG is the exact quotient.          *)
(***************************************************************************)
EXTENDS AccessPath, SequencesExt

CONSTANTS ColType,   \* column -> "int", "text" or "vector"
          Distance,  \* VECTOR cell -> cosine distance to the query vector
          Infinity,  \* f32::INFINITY, the distance of NULL
          IntMax,    \* i64::MAX, small; i64::MIN is -IntMax - 1
          NoQuery,   \* nothing was asked yet
          Rows,      \* the rows INSERT may carry
          Asked,     \* the SELECT statements
          MaxRows    \* bound: rows of the table

ASSUME ColTypeIsTotal == DOMAIN ColType = Cols
ASSUME IntsHaveWidth  == IntMax \in Nat
ASSUME MaxRowsIsNat   == MaxRows \in Nat

VARIABLES schema,  \* [pk, indexed, ranged]: which access paths exist
          rows,    \* the table, in row-id order
          query,   \* the last SELECT, or NoQuery
          answer   \* its result: [ok, rows]

vars == <<schema, rows, query, answer>>

Error == [ok |-> FALSE, rows |-> <<>>]

-----------------------------------------------------------------------------
(* compare_values within one column: NULLs first.                          *)
Less(a, b) == b # Null /\ (a = Null \/ Rank[a] < Rank[b])

(* slice::sort_by is stable.                                               *)
StableSort(s, Before(_, _)) ==
  LET order == SortSeq([i \in 1..Len(s) |-> i],
                 LAMBDA i, j : Before(s[i], s[j]) \/ (~Before(s[j], s[i]) /\ i < j))
  IN  [i \in 1..Len(s) |-> s[order[i]]]

(* candidate_rows: row-id order, or value order out of the range blob; the *)
(* caller applies the whole clause.                                        *)
CandidateRows(p) ==
  LET path == Path(p, schema)
      pin == Pinned(p, path.col, RangeOps)
  IN  CASE path.kind = "scan" -> rows
        [] path.kind \in {"key", "index"} ->
             LET v == Pinned(p, path.col, {"="}).lit
             IN  SelectSeq(rows, LAMBDA r : r[path.col] = v)
        [] path.kind = "range" ->
             StableSort(SelectSeq(rows, LAMBDA r : r[path.col] # Null /\ Holds(pin.op, r[path.col], pin.lit)),
                        LAMBDA r, s : Less(r[path.col], s[path.col]))

Filtered(p) == SelectSeq(CandidateRows(p), LAMBDA r : Matches(p, r))
TypeError(p) == \E r \in ToSet(CandidateRows(p)) : Errs(p, r)

BugLimitBeforeOffset(s, lim) ==
  IF lim = <<>> THEN s
  ELSE SubSeq(s, lim[1].offset + 1, IF lim[1].count < Len(s) THEN lim[1].count ELSE Len(s))

(* skip(offset).take(count).                                               *)
Window(s, lim) ==
  IF lim = <<>> THEN s
  ELSE LET last == lim[1].offset + lim[1].count
       IN  SubSeq(s, lim[1].offset + 1, IF last < Len(s) THEN last ELSE Len(s))

(* The order ORDER BY sorts whole rows in: a cell's order, reversed for    *)
(* DESC, or its distance with NULL at infinity.                            *)
Nearness(v) == IF v = Null THEN Infinity ELSE Distance[v]

SortsBefore(o, r, s) ==
  CASE o.dir = "asc"     -> Less(r[o.col], s[o.col])
    [] o.dir = "desc"    -> Less(s[o.col], r[o.col])
    [] o.dir = "nearest" -> Nearness(r[o.col]) < Nearness(s[o.col])

Sortable(o) == (o.dir = "nearest") <=> (ColType[o.col] = "vector")

Projected(q, r) ==
  IF q.star THEN [c \in 1..Cardinality(Cols) |-> r[c]]
  ELSE [i \in 1..Len(q.items) |-> r[q.items[i].col]]

SelectPlain(q) ==
  LET sorted == IF q.order = <<>> THEN Filtered(q.where)
                ELSE StableSort(Filtered(q.where), LAMBDA r, s : SortsBefore(q.order[1], r, s))
      cut == Window(sorted, q.limit)
  IN  IF TypeError(q.where) \/ (q.order # <<>> /\ ~Sortable(q.order[1])) THEN Error
      ELSE [ok |-> TRUE, rows |-> [i \in 1..Len(cut) |-> Projected(q, cut[i])]]

-----------------------------------------------------------------------------
(* Projected items and HAVING operands: a column or an aggregate.          *)
IsAggregate(it) == it.fn # "col"

(* resolve_aggregate and group_col_pos: what a query may aggregate.        *)
Resolves(q, it) ==
  CASE it.fn = "col" -> it.col \in ToSet(q.group)
    [] it.fn \in {"count*", "count"} -> TRUE
    [] it.fn \in {"sum", "avg"} -> ColType[it.col] = "int"
    [] it.fn \in {"min", "max"} -> ColType[it.col] # "vector"

(* AggAcc: the accumulator of a plan before any row, and after one more.   *)
Start(plan) ==
  CASE plan.fn \in {"count*", "count"} -> 0
    [] plan.fn \in {"sum", "avg"} -> [total |-> 0, n |-> 0]
    [] OTHER -> Null

(* update_extreme.                                                         *)
Extreme(plan, acc, v) ==
  IF acc = Null \/ (IF plan.fn = "min" THEN Less(v, acc) ELSE Less(acc, v)) THEN v ELSE acc

BugCountsNulls(plan, acc, r) ==
  LET v == r[plan.col]
  IN  CASE plan.fn \in {"count*", "count"} -> acc + 1
        [] plan.fn = "col" \/ v = Null -> acc
        [] plan.fn \in {"sum", "avg"} -> [total |-> acc.total + v, n |-> acc.n + 1]
        [] plan.fn \in {"min", "max"} -> Extreme(plan, acc, v)

Accumulate(plan, acc, r) ==
  LET v == r[plan.col]
  IN  CASE plan.fn = "count*" -> acc + 1
        [] plan.fn = "col" \/ v = Null -> acc
        [] plan.fn = "count" -> acc + 1
        [] plan.fn \in {"sum", "avg"} -> [total |-> acc.total + v, n |-> acc.n + 1]
        [] plan.fn \in {"min", "max"} -> Extreme(plan, acc, v)

(* finalize_plan: no value for an empty SUM or AVG, an error for a SUM     *)
(* outside the integers.                                                   *)
Overflows(plan, acc) ==
  plan.fn = "sum" /\ acc.n > 0 /\ (acc.total > IntMax \/ acc.total < -IntMax - 1)

Finalize(q, plan, acc, key) ==
  CASE plan.fn = "col" -> key[CHOOSE i \in 1..Len(q.group) :
                                q.group[i] = plan.col /\ \A j \in 1..(i - 1) : q.group[j] # plan.col]
    [] plan.fn \in {"sum", "avg"} /\ acc.n = 0 -> Null
    [] plan.fn = "sum" -> acc.total
    [] OTHER -> acc

(* compile_having: every aggregate HAVING compares is one more plan behind *)
(* the projected ones, selected or not.                                    *)
HavingPlans(q) == SelectSeq(q.having.atoms, IsAggregate)
Plans(q) == q.items \o [i \in 1..Len(HavingPlans(q)) |->
                          [fn |-> HavingPlans(q)[i].fn, col |-> HavingPlans(q)[i].col]]
PlanOf(q, i) == Len(q.items) + Len(SelectSeq(SubSeq(q.having.atoms, 1, i), IsAggregate))

(* The comparison of an operand with a literal; an average by its quotient.*)
CompareTo(fn, v, op, lit) ==
  IF v = Null \/ lit = Null THEN "unknown"
  ELSE Truth(IF fn = "avg" THEN Compared(op, v.total, lit * v.n) ELSE Compared(op, v, lit))

(* eval_having on one comparison.                                          *)
EvalHaving(q, computed, key, i) ==
  LET a == q.having.atoms[i]
  IN  CompareTo(a.fn, IF IsAggregate(a) THEN computed[PlanOf(q, i)] ELSE Finalize(q, a, Null, key),
                a.op, a.lit)

KeyOf(q, r) == [i \in 1..Len(q.group) |-> r[q.group[i]]]
KeyBefore(k, l) ==
  \E i \in 1..Len(k) : Less(k[i], l[i]) /\ \A j \in 1..(i - 1) : ~Less(k[j], l[j]) /\ ~Less(l[j], k[j])

(* The loop of aggregate: groups in the order their key is first seen.     *)
AddRow(q, groups, r) ==
  LET key == KeyOf(q, r)
      at == {i \in 1..Len(groups) : groups[i].key = key}
      fresh == [key |-> key, accs |-> [i \in 1..Len(Plans(q)) |-> Start(Plans(q)[i])]]
      Add(g) == [g EXCEPT !.accs = [i \in 1..Len(Plans(q)) |-> Accumulate(Plans(q)[i], @[i], r)]]
  IN  IF at = {} THEN Append(groups, Add(fresh))
      ELSE [i \in 1..Len(groups) |-> IF i \in at THEN Add(groups[i]) ELSE groups[i]]

(* Without GROUP BY there is one group, even of no rows.                   *)
Seed(q) ==
  IF q.group # <<>> THEN <<>>
  ELSE <<[key |-> <<>>, accs |-> [i \in 1..Len(Plans(q)) |-> Start(Plans(q)[i])]]>>

SelectAggregate(q) ==
  LET plans  == Plans(q)
      groups == StableSort(FoldLeft(LAMBDA gs, r : AddRow(q, gs, r), Seed(q), Filtered(q.where)),
                           LAMBDA g, h : KeyBefore(g.key, h.key))
      Computed(g) == [i \in 1..Len(plans) |-> Finalize(q, plans[i], g.accs[i], g.key)]
      Kept(g) == DefinitelyTrue(q.having.kind, [i \in DOMAIN q.having.atoms |-> EvalHaving(q, Computed(g), g.key, i)])
      kept == SelectSeq(groups, Kept)
      out == [i \in 1..Len(kept) |-> SubSeq(Computed(kept[i]), 1, Len(q.items))]
  IN  IF \/ q.order # <<>> \/ TypeError(q.where)
         \/ \E i \in 1..Len(q.items) : ~Resolves(q, q.items[i])
         \/ \E i \in 1..Len(q.having.atoms) : ~Resolves(q, q.having.atoms[i])
         \/ \E g \in ToSet(groups) : \E i \in 1..Len(plans) : Overflows(plans[i], g.accs[i])
      THEN Error
      ELSE [ok |-> TRUE, rows |-> Window(out, q.limit)]

(* Which of the two a parsed SELECT runs: an item list with an aggregate,  *)
(* a GROUP BY or a HAVING; `*` always runs the plain one, which does not   *)
(* look at HAVING.                                                         *)
Aggregates(q) ==
  /\ ~q.star
  /\ \/ \E i \in 1..Len(q.items) : IsAggregate(q.items[i])
     \/ q.group # <<>>
     \/ q.having.kind # "all"

Select(q) == IF Aggregates(q) THEN SelectAggregate(q) ELSE SelectPlain(q)

-----------------------------------------------------------------------------
Init ==
  /\ schema = [pk |-> 0, indexed |-> {}, ranged |-> {}]
  /\ rows = <<>>
  /\ query = NoQuery
  /\ answer = Error

Insert(r) ==
  /\ Len(rows) < MaxRows
  /\ rows' = Append(rows, r)
  /\ query' = NoQuery
  /\ answer' = Error
  /\ UNCHANGED schema

(* CREATE INDEX and CREATE RANGE INDEX: another access path.               *)
CreateIndex(c) ==
  /\ ColType[c] # "vector" /\ c \notin schema.indexed
  /\ schema' = [schema EXCEPT !.indexed = @ \cup {c}]
  /\ query' = NoQuery
  /\ answer' = Error
  /\ UNCHANGED rows

CreateRangeIndex(c) ==
  /\ ColType[c] # "vector" /\ c \notin schema.ranged
  /\ schema' = [schema EXCEPT !.ranged = @ \cup {c}]
  /\ query' = NoQuery
  /\ answer' = Error
  /\ UNCHANGED rows

DropIndex(c) ==
  /\ c \in schema.indexed
  /\ schema' = [schema EXCEPT !.indexed = @ \ {c}]
  /\ query' = NoQuery
  /\ answer' = Error
  /\ UNCHANGED rows

DropRangeIndex(c) ==
  /\ c \in schema.ranged
  /\ schema' = [schema EXCEPT !.ranged = @ \ {c}]
  /\ query' = NoQuery
  /\ answer' = Error
  /\ UNCHANGED rows

Ask(q) ==
  /\ query' = q
  /\ answer' = Select(q)
  /\ UNCHANGED <<schema, rows>>

Next ==
  \/ \E r \in Rows : Insert(r)
  \/ \E c \in Cols : CreateIndex(c)
  \/ \E c \in Cols : CreateRangeIndex(c)
  \/ \E c \in Cols : DropIndex(c)
  \/ \E c \in Cols : DropRangeIndex(c)
  \/ \E q \in Asked : query = NoQuery /\ Ask(q)

Spec == Init /\ [][Next]_vars

-----------------------------------------------------------------------------
TypeOK ==
  /\ rows \in Seq(Rows) /\ Len(rows) <= MaxRows
  /\ schema.indexed \cup schema.ranged \subseteq {c \in Cols : ColType[c] # "vector"}
  /\ query = NoQuery => answer = Error
  /\ query # NoQuery /\ answer.ok /\ ~query.star =>
       \A i \in 1..Len(answer.rows) : Len(answer.rows[i]) = Len(query.items)

(* The rows of the table a clause is true of, whatever indexes exist.      *)
Selected(p) == {i \in 1..Len(rows) : Matches(p, rows[i])}

(* A plain SELECT returns exactly the window [offset, offset + count) of   *)
(* the selected rows in the order asked for: as many rows as are left,     *)
(* none more often than it occurs, and each no earlier and no later than   *)
(* the rows before and after it in that order allow. Indexes, projection   *)
(* of the sort column, NULLs, LIMIT 0 and a HAVING behind `*` make no      *)
(* difference.                                                             *)
WindowIsExact ==
  query # NoQuery /\ ~Aggregates(query) /\ answer.ok =>
    LET sel == Selected(query.where)
        lim == IF query.limit = <<>> THEN [offset |-> 0, count |-> Len(rows)] ELSE query.limit[1]
        left == IF lim.offset < Cardinality(sel) THEN Cardinality(sel) - lim.offset ELSE 0
        Before(i, j) == query.order # <<>> /\ SortsBefore(query.order[1], rows[i], rows[j])
        Fits(i, n) == /\ Cardinality({j \in sel : Before(j, i)}) < n
                      /\ n <= Cardinality({j \in sel : ~Before(i, j)})
        Shows(n, i) == answer.rows[n] = Projected(query, rows[i])
    IN  /\ Len(answer.rows) = (IF lim.count < left THEN lim.count ELSE left)
        /\ \A n \in 1..Len(answer.rows) :
             /\ \E i \in sel : Shows(n, i) /\ Fits(i, n + lim.offset)
             /\ Cardinality({m \in 1..Len(answer.rows) : answer.rows[m] = answer.rows[n]})
                  <= Cardinality({i \in sel : Shows(n, i)})

(* An aggregate by its definition over the rows of a group.                *)
Value(it, key, group) ==
  LET given == {i \in group : rows[i][it.col] # Null}
      cell(i) == rows[i][it.col]
      total == FoldFunctionOnSet(+, 0, [i \in given |-> cell(i)], given)
  IN  CASE it.fn = "col" -> key[it.col]
        [] it.fn = "count*" -> Cardinality(group)
        [] it.fn = "count" -> Cardinality(given)
        [] given = {} -> Null
        [] it.fn = "sum" -> total
        [] it.fn = "avg" -> [total |-> total, n |-> Cardinality(given)]
        [] it.fn = "min" -> cell(CHOOSE i \in given : \A j \in given : Rank[cell(i)] <= Rank[cell(j)])
        [] it.fn = "max" -> cell(CHOOSE i \in given : \A j \in given : Rank[cell(i)] >= Rank[cell(j)])

(* A grouped SELECT returns one row per key that occurs among the selected *)
(* rows and for which HAVING is definitely true (without GROUP BY one row, *)
(* even for an empty table), in key order, with every aggregate equal to   *)
(* its definition; a SUM the integers cannot hold is an error and never a  *)
(* wrong number, also in a group HAVING or LIMIT would have dropped.       *)
GroupsAreExact ==
  query # NoQuery /\ Aggregates(query) /\ query.order = <<>> =>
    LET sel == Selected(query.where)
        Key(i) == [c \in ToSet(query.group) |-> rows[i][c]]
        keys == IF query.group = <<>> THEN {<<>>} ELSE {Key(i) : i \in sel}
        Of(k) == {i \in sel : query.group = <<>> \/ Key(i) = k}
        typed == /\ \A it \in ToSet(query.items) : Resolves(query, it)
                 /\ \A a \in ToSet(query.having.atoms) : Resolves(query, a)
        sums == {it \in ToSet(Plans(query)) : it.fn = "sum"}
        fits == \A k \in keys, it \in sums :
                  Value(it, k, Of(k)) = Null \/ Value(it, k, Of(k)) \in (-IntMax - 1)..IntMax
        Truthful(k, i) == LET a == query.having.atoms[i]
                          IN  CompareTo(a.fn, Value(a, k, Of(k)), a.op, a.lit)
        kept == {k \in keys : DefinitelyTrue(query.having.kind, [i \in DOMAIN query.having.atoms |-> Truthful(k, i)])}
        inOrder == SetToSortSeq(kept, LAMBDA k, l :
                     KeyBefore([i \in 1..Len(query.group) |-> k[query.group[i]]],
                               [i \in 1..Len(query.group) |-> l[query.group[i]]]))
        RowOf(k) == [n \in 1..Len(query.items) |-> Value(query.items[n], k, Of(k))]
    IN  /\ answer.ok <=> (typed /\ fits)
        /\ answer.ok => answer.rows = Window([n \in 1..Len(inOrder) |-> RowOf(inOrder[n])], query.limit)

(* ORDER BY col NEAREST TO: no row without a vector comes before one that  *)
(* has one.                                                                *)
NullsLast ==
  query # NoQuery /\ query.star /\ query.order # <<>> /\ answer.ok =>
    (query.order[1].dir = "nearest" =>
       \A m, n \in 1..Len(answer.rows) :
         m < n /\ answer.rows[m][query.order[1].col] = Null => answer.rows[n][query.order[1].col] = Null)

(* Together: a SELECT without groups returns the rows its text asks for.   *)
RowsAreExact == TypeOK /\ WindowIsExact /\ NullsLast
=============================================================================
