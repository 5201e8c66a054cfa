------------------------------- MODULE Tables -------------------------------
(***************************************************************************)
(* ciphra-engine: the statements that change one table, the equality and   *)
(* range indexes they maintain, and the access path a WHERE clause takes.  *)
(*                                                                         *)
(* A statement validates everything, then commits one batch (atomic: see   *)
(* Transactions and WalStorage), so each statement is one action and a     *)
(* rejected one is no step. Sealing is left out; an equality-index entry   *)
(* keeps the value whose keyed tag it is stored under. Index keys start    *)
(* with a tag of the table's name, so a table created again under the same *)
(* name would see whatever its predecessor left behind.                    *)
(***************************************************************************)
EXTENDS AccessPath

CONSTANTS NoTable,     \* the catalog has no entry for the table
          NoBlob,      \* the column has no range blob
          KeyChoices,  \* the PRIMARY KEY column of a CREATE TABLE, 0 for none
          Inserts,     \* the row lists INSERT statements carry
          Clauses,     \* the WHERE clauses of UPDATE and DELETE
          Questions,   \* the WHERE clauses of SELECT
          Assignments, \* the SET lists of UPDATE: partial rows of literals
          MaxInserts   \* bound: row ids handed out per table

ASSUME MaxInsertsIsNat == MaxInserts \in Nat
ASSUME ColsArePositions == IsFiniteSet(Cols) /\ Cols \subseteq Nat \ {0}
ASSUME KeyChoicesAreCols == KeyChoices \subseteq Cols \cup {0}
ASSUME InsertsAreRows == Inserts \subseteq Seq([Cols -> Storable])
ASSUME AssignmentsAreCells ==
  \A set \in Assignments : DOMAIN set \subseteq Cols /\ \A c \in DOMAIN set : set[c] \in Storable
ASSUME ClausesAreClauses == \A p \in Clauses \cup Questions : IsClause(p)

(* Of the values one column stores, compare_values and PartialEq tell      *)
(* apart what has different encodings. That is so of INT and TEXT, and of  *)
(* REAL except for the two zeroes. A clause's literal need be none of      *)
(* these values: a REAL may rank with an INT cell.                         *)
ASSUME ValuesAreExact ==
  \A v, w \in Values : v # w => Rank[v] # Rank[w] /\ Class[v] # Class[w]

VARIABLES schema,   \* catalog entry: [pk, indexed, ranged], or NoTable
          rows,     \* row id -> row
          seq,      \* next row id (0 when no sequence is stored)
          index,    \* equality-index entries <<column, value, row id>>
          blob      \* range blob per column: sorted <<value, row id>> pairs

vars == <<schema, rows, seq, index, blob>>

Schemas == [pk : Cols \cup {0}, indexed : SUBSET Cols, ranged : SUBSET Cols]
ASSUME NoTableIsNoSchema == NoTable \notin Schemas /\ NoTable \notin Cols \cup {0}
ASSUME NoBlobIsNoList    == NoBlob \notin Seq(Values \X Nat)

-----------------------------------------------------------------------------
(* maintained_columns.                                                     *)
Maintained == schema.indexed \cup {c \in Cols : c = schema.pk}

(* index_rowids.                                                           *)
IndexRowids(c, v) == {e[3] : e \in {f \in index : f[1] = c /\ f[2] = v}}

(* load_range_index.                                                       *)
LoadRange(c) == IF blob[c] = NoBlob THEN <<>> ELSE blob[c]

(* sort_range_entries, a stable sort: an entry comes n-th when n - 1 of    *)
(* the others belong before it.                                            *)
Before(a, b) == \/ Rank[a[1]] < Rank[b[1]]
                \/ Rank[a[1]] = Rank[b[1]] /\ a[2] < b[2]
Earlier(es, m, n) == Before(es[m], es[n]) \/ (~Before(es[n], es[m]) /\ m < n)
Place(es, n) == Cardinality({m \in 1..Len(es) : Earlier(es, m, n)}) + 1
SortEntries(es) ==
  [k \in 1..Len(es) |-> es[CHOOSE n \in 1..Len(es) : Place(es, n) = k]]

(* The members of a set of numbers, from the smallest to the largest.      *)
InOrder(S) ==
  [k \in 1..Cardinality(S) |-> CHOOSE i \in S : Cardinality({j \in S : j < i}) + 1 = k]

(* The entries one column's cells contribute, in row order; NULLs have none.*)
Entries(table, c) ==
  LET ids == InOrder({i \in DOMAIN table : table[i][c] # Null})
  IN  [n \in 1..Len(ids) |-> <<table[ids[n]][c], ids[n]>>]

IndexOf(table, cols) ==
  UNION {{<<c, table[i][c], i>> : i \in {j \in DOMAIN table : table[j][c] # Null}} :
           c \in cols}

-----------------------------------------------------------------------------
(* candidate_rows: an index lookup, a walk of the range blob, or a scan.   *)
CandidateRows(p) ==
  LET path == Path(p, schema)
      Lookup(c) == IndexRowids(c, Pinned(p, c, {"="}).lit) \cap DOMAIN rows
      Walk(c) == LET a == Pinned(p, c, RangeOps)
                     hits == {n \in 1..Len(LoadRange(c)) :
                                Holds(a.op, LoadRange(c)[n][1], a.lit)}
                 IN  {LoadRange(c)[n][2] : n \in hits} \cap DOMAIN rows
  IN  CASE path.kind \in {"key", "index"} -> Lookup(path.col)
        [] path.kind = "range" -> Walk(path.col)
        [] path.kind = "scan" -> DOMAIN rows

(* The rows a statement acts on: the clause is applied to every candidate, *)
(* and a type error on one of them is the end of the statement.            *)
Selected(p) == {i \in CandidateRows(p) : Matches(p, rows[i])}
TypeError(p) == \E i \in CandidateRows(p) : Errs(p, rows[i])

-----------------------------------------------------------------------------
Init ==
  /\ schema = NoTable
  /\ rows = <<>>
  /\ seq = 0
  /\ index = {}
  /\ blob = [c \in Cols |-> NoBlob]

CreateTable(pk) ==
  /\ schema = NoTable
  /\ schema' = [pk |-> pk, indexed |-> {}, ranged |-> {}]
  /\ UNCHANGED <<rows, seq, index, blob>>

DropTable ==
  /\ schema # NoTable
  /\ schema' = NoTable
  /\ rows' = <<>>
  /\ seq' = 0
  /\ index' = {}
  /\ blob' = [c \in Cols |-> NoBlob]

(* CREATE INDEX backfills the existing rows with the catalog flag.         *)
CreateIndex(c) ==
  /\ schema # NoTable
  /\ c # schema.pk /\ c \notin schema.indexed
  /\ index' = index \cup IndexOf(rows, {c})
  /\ schema' = [schema EXCEPT !.indexed = @ \cup {c}]
  /\ UNCHANGED <<rows, seq, blob>>

DropIndex(c) ==
  /\ schema # NoTable
  /\ c \in schema.indexed
  /\ index' = {e \in index : e[1] # c}
  /\ schema' = [schema EXCEPT !.indexed = @ \ {c}]
  /\ UNCHANGED <<rows, seq, blob>>

CreateRangeIndex(c) ==
  /\ schema # NoTable
  /\ c \notin schema.ranged
  /\ blob' = [blob EXCEPT ![c] = SortEntries(Entries(rows, c))]
  /\ schema' = [schema EXCEPT !.ranged = @ \cup {c}]
  /\ UNCHANGED <<rows, seq, index>>

DropRangeIndex(c) ==
  /\ schema # NoTable
  /\ c \in schema.ranged
  /\ blob' = [blob EXCEPT ![c] = NoBlob]
  /\ schema' = [schema EXCEPT !.ranged = @ \ {c}]
  /\ UNCHANGED <<rows, seq, index>>

-----------------------------------------------------------------------------
(* INSERT's validation of the primary key: no NULL, no two rows of the     *)
(* statement with one key, no stored row with it.                          *)
Stored(rs) == [j \in 1..Len(rs) |-> [c \in Cols |-> Store(rs[j][c])]]

BugChecksStoredOnly(news) ==
  schema.pk # 0 =>
    \A j \in 1..Len(news) : /\ news[j][schema.pk] # Null
                            /\ IndexRowids(schema.pk, news[j][schema.pk]) = {}

InsertAccepts(news) ==
  schema.pk # 0 =>
    /\ \A j \in 1..Len(news) : /\ news[j][schema.pk] # Null
                               /\ IndexRowids(schema.pk, news[j][schema.pk]) = {}
    /\ \A j, k \in 1..Len(news) :
         news[j][schema.pk] = news[k][schema.pk] => j = k

Insert(rs) ==
  /\ schema # NoTable
  /\ seq + Len(rs) <= MaxInserts
  /\ InsertAccepts(Stored(rs))
  /\ LET added == [i \in seq..(seq + Len(rs) - 1) |-> Stored(rs)[i - seq + 1]]
     IN  /\ rows' = [i \in DOMAIN rows \cup DOMAIN added |->
                       IF i \in DOMAIN added THEN added[i] ELSE rows[i]]
         /\ index' = index \cup IndexOf(added, Maintained)
         /\ blob' = [c \in Cols |->
                       IF c \in schema.ranged
                       THEN SortEntries(LoadRange(c) \o Entries(added, c))
                       ELSE blob[c]]
  /\ seq' = seq + Len(rs)
  /\ UNCHANGED schema

(* UPDATE's validation of a primary-key assignment.                        *)
BugHoldersIgnored(set, changed) ==
  schema.pk \in DOMAIN set =>
    /\ Store(set[schema.pk]) # Null
    /\ Cardinality(changed) <= 1

UpdateAccepts(set, changed) ==
  schema.pk \in DOMAIN set =>
    LET v == Store(set[schema.pk])
    IN  /\ v # Null
        /\ Cardinality(changed) <= 1
        /\ \A i \in changed : IndexRowids(schema.pk, v) \subseteq {i}

(* The cells of column c an assignment changes, by PartialEq.              *)
Assigned(set, row) == [c \in Cols |-> IF c \in DOMAIN set THEN Store(set[c]) ELSE row[c]]
Differs(set, c, changed) == {i \in changed : ~ Same(rows[i][c], Assigned(set, rows[i])[c])}
News(set, c, changed) == [i \in Differs(set, c, changed) |-> Assigned(set, rows[i])]
Olds(set, c, changed) == [i \in Differs(set, c, changed) |-> rows[i]]

BugUpdateKeepsOldEntries(set, changed) ==
  index \cup UNION {IndexOf(News(set, c, changed), {c}) : c \in Maintained}

UpdatedIndex(set, changed) ==
  (index \ UNION {IndexOf(Olds(set, c, changed), {c}) : c \in Maintained})
    \cup UNION {IndexOf(News(set, c, changed), {c}) : c \in Maintained}

Retained(c, gone) ==
  LET old == LoadRange(c)
      Goes(e) == e[2] \in DOMAIN gone /\ Same(e[1], gone[e[2]][c])
      kept == InOrder({n \in 1..Len(old) : ~Goes(old[n])})
  IN  [n \in 1..Len(kept) |-> old[kept[n]]]

Update(set, p) ==
  /\ schema # NoTable
  /\ ~TypeError(p)
  /\ Selected(p) # {}
  /\ UpdateAccepts(set, Selected(p))
  /\ LET changed == Selected(p)
     IN  /\ rows' = [i \in DOMAIN rows |->
                       IF i \in changed THEN Assigned(set, rows[i]) ELSE rows[i]]
         /\ index' = UpdatedIndex(set, changed)
         /\ blob' = [c \in Cols |->
              IF c \in schema.ranged /\ Differs(set, c, changed) # {}
              THEN SortEntries(Retained(c, Olds(set, c, changed))
                                 \o Entries(News(set, c, changed), c))
              ELSE blob[c]]
  /\ UNCHANGED <<schema, seq>>

Delete(p) ==
  /\ schema # NoTable
  /\ ~TypeError(p)
  /\ Selected(p) # {}
  /\ LET doomed == [i \in Selected(p) |-> rows[i]]
     IN  /\ rows' = [i \in DOMAIN rows \ DOMAIN doomed |-> rows[i]]
         /\ index' = index \ IndexOf(doomed, Maintained)
         /\ blob' = [c \in Cols |->
                       IF c \in schema.ranged /\ Entries(doomed, c) # <<>>
                       THEN Retained(c, doomed) ELSE blob[c]]
  /\ UNCHANGED <<schema, seq>>

Next ==
  \/ \E pk \in KeyChoices : CreateTable(pk)
  \/ DropTable
  \/ \E c \in Cols : CreateIndex(c) \/ DropIndex(c)
  \/ \E c \in Cols : CreateRangeIndex(c) \/ DropRangeIndex(c)
  \/ \E rs \in Inserts : Insert(rs)
  \/ \E set \in Assignments, p \in Clauses : Update(set, p)
  \/ \E p \in Clauses : Delete(p)

Spec == Init /\ [][Next]_vars

-----------------------------------------------------------------------------
(* Type invariant: ids below the sequence, every cell of its column's type,*)
(* and nothing stored for a table that does not exist.                     *)
TypeOK ==
  /\ \/ schema = NoTable /\ rows = <<>> /\ seq = 0
     \/ schema \in Schemas
  /\ seq \in 0..MaxInserts
  /\ \A i \in DOMAIN rows : i \in 0..(seq - 1) /\ rows[i] \in RowsOf
  /\ \A e \in index : e \in Cols \X Cells \X (0..(seq - 1))
  /\ \A c \in Cols : blob[c] = NoBlob
       \/ \A n \in 1..Len(blob[c]) : blob[c][n] \in Cells \X (0..(seq - 1))

(* The primary key is unique and never NULL among the stored rows, however *)
(* they were inserted, updated, deleted and inserted again.                *)
PrimaryKeyHolds ==
  schema # NoTable /\ schema.pk # 0 =>
    /\ \A i \in DOMAIN rows : rows[i][schema.pk] # Null
    /\ \A i, j \in DOMAIN rows : i # j =>
         Rank[rows[i][schema.pk]] # Rank[rows[j][schema.pk]]

(* The entries of a column, and: s lists those of S in order, each once.   *)
EntrySet(table, c) == {<<table[i][c], i>> : i \in {j \in DOMAIN table : table[j][c] # Null}}
Lists(s, S) ==
  /\ s # NoBlob
  /\ {s[n] : n \in 1..Len(s)} = S
  /\ \A m, n \in 1..Len(s) : m < n => Before(s[m], s[n])

(* Both kinds of index hold exactly the rows, through backfill, updates to *)
(* and from NULL, deletes, and DROP TABLE followed by CREATE TABLE: no     *)
(* dangling entry, no missing one, no blob out of order or with doubles.   *)
IndexesAreExact ==
  /\ index = IF schema = NoTable THEN {} ELSE IndexOf(rows, Maintained)
  /\ \A c \in Cols :
       IF schema = NoTable \/ c \notin schema.ranged THEN blob[c] = NoBlob
       ELSE Lists(blob[c], EntrySet(rows, c))

(* An equality lookup of a literal the column cannot hold: the tag is made *)
(* from the literal as written, 2.0 or 'a' on an INT column.               *)
LooksForNothing(p) ==
  LET path == Path(p, schema)
  IN  path.kind \in {"key", "index"} /\ Pinned(p, path.col, {"="}).lit \notin Cells

(* "Results identical via fallback scan": whatever access path a WHERE     *)
(* clause takes, a statement acts on the rows a full scan would find, with *)
(* one exception: an equality index finds nothing for a literal of another *)
(* type, though INT = REAL may hold of a row. A type error an access path  *)
(* meets, a scan would meet too; the converse is not so.                   *)
PathsAgree ==
  schema # NoTable =>
    \A p \in Questions :
      /\ Selected(p) = IF LooksForNothing(p) THEN {}
                       ELSE {i \in DOMAIN rows : Matches(p, rows[i])}
      /\ TypeError(p) => \E i \in DOMAIN rows : Errs(p, rows[i])

(* Type errors aside, INSERT and UPDATE reject a statement exactly when it *)
(* would break the key, no matter which entries the index holds.           *)
Rel == INSTANCE RelationalTable
  WITH key <- IF schema = NoTable THEN NoTable ELSE schema.pk,
       content <- rows

RejectsOnlyConflicts ==
  schema # NoTable =>
    /\ \A rs \in Inserts :
         InsertAccepts(Stored(rs)) <=>
           Rel!KeyHolds(schema.pk, [i \in DOMAIN rows \cup seq..(seq + Len(rs) - 1) |->
                                     IF i < seq THEN rows[i] ELSE Stored(rs)[i - seq + 1]])
    /\ \A set \in Assignments, p \in Clauses :
         Selected(p) # {} =>
           (UpdateAccepts(set, Selected(p)) <=>
              Rel!KeyHolds(schema.pk, [i \in DOMAIN rows |->
                IF Matches(p, rows[i]) THEN Assigned(set, rows[i]) ELSE rows[i]]))

(* The indexed table implements the table without indexes: every statement *)
(* changes the rows its clause selects on every row, and nothing else.     *)
ImplementsRelationalTable == Rel!RelSpec

(* Together: the five key spaces of a table are those of its rows.         *)
StoreIsExact == TypeOK /\ PrimaryKeyHolds /\ IndexesAreExact
=============================================================================
