--------------------------- MODULE RelationalTable --------------------------
(***************************************************************************)
(* What a table promises: a set of identified rows that every statement    *)
(* changes all at once, as its WHERE clause reads on every row. There is   *)
(* no index here.                                                          *)
(***************************************************************************)
EXTENDS Predicates

CONSTANTS NoTable,     \* the table does not exist
          KeyChoices,  \* the primary keys a table may be created with
          Inserts,     \* the row lists INSERT statements carry
          Clauses,     \* the WHERE clauses of UPDATE and DELETE
          Assignments, \* the SET lists of UPDATE: partial rows of literals
          MaxInserts   \* bound: row ids handed out per table

VARIABLES key,         \* the primary-key column, 0 for none, or NoTable
          content      \* row id -> row

relVars == <<key, content>>

KeyHolds(k, rows) ==
  k # 0 => /\ \A i \in DOMAIN rows : rows[i][k] # Null
           /\ \A i, j \in DOMAIN rows :
                rows[i][k] # Null /\ rows[j][k] # Null
                  /\ Rank[rows[i][k]] = Rank[rows[j][k]] => i = j

RelCreate == /\ key = NoTable
             /\ key' \in KeyChoices
             /\ content' = <<>>

RelDrop == /\ key # NoTable
           /\ key' = NoTable
           /\ content' = <<>>

(* INSERT adds rows under new ids, in order.                               *)
RelInsert(rs) ==
  /\ key # NoTable
  /\ \E n \in 0..MaxInserts :
       /\ \A i \in DOMAIN content : i < n
       /\ DOMAIN content' = DOMAIN content \cup n..(n + Len(rs) - 1)
       /\ \A i \in DOMAIN content : content'[i] = content[i]
       /\ \A j \in 1..Len(rs) : \A c \in Cols :
            content'[n + j - 1][c] = Store(rs[j][c])
  /\ KeyHolds(key, content')
  /\ UNCHANGED key

RelUpdate(set, p) ==
  /\ key # NoTable
  /\ DOMAIN content' = DOMAIN content
  /\ content' = [i \in DOMAIN content |->
       IF Matches(p, content[i])
       THEN [c \in Cols |-> IF c \in DOMAIN set THEN Store(set[c])
                            ELSE content[i][c]]
       ELSE content[i]]
  /\ KeyHolds(key, content')
  /\ UNCHANGED key

RelDelete(p) ==
  /\ key # NoTable
  /\ content' = [i \in {j \in DOMAIN content : ~ Matches(p, content[j])} |-> content[i]]
  /\ UNCHANGED key

RelInit == key = NoTable /\ content = <<>>
RelNext ==
  \/ RelCreate
  \/ RelDrop
  \/ \E rs \in Inserts : RelInsert(rs)
  \/ \E set \in Assignments, p \in Clauses : RelUpdate(set, p)
  \/ \E p \in Clauses : RelDelete(p)

RelSpec == RelInit /\ [][RelNext]_relVars
=============================================================================
