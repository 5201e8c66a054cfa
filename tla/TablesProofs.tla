---------------------------- MODULE TablesProofs ----------------------------
(***************************************************************************)
(* Proofs about Tables: what the sorting and the filtering of a range blob *)
(* list, the exactness of every index through each statement, the          *)
(* agreement of all access paths with the full scan, and the refinement of *)
(* RelationalTable. They hold for every set of columns, literals, rows,    *)
(* clauses and assignments that satisfies the assumptions of Tables.       *)
(***************************************************************************)
EXTENDS Tables, FiniteSetTheorems, SequenceTheorems, TLAPS

(* The pairs a range blob holds: a value and a row id.                     *)
Pairs == Values \X Nat

(* A strict total order on S, as a set of pairs.                           *)
Orders(R, S) ==
  /\ \A x \in S : <<x, x>> \notin R
  /\ \A x, y, z \in S : <<x, y>> \in R /\ <<y, z>> \in R => <<x, z>> \in R
  /\ \A x, y \in S : x # y => <<x, y>> \in R \/ <<y, x>> \in R

(* The place each member of S has in that order.                           *)
Places(R, S) == [x \in S |-> Cardinality({y \in S : <<y, x>> \in R}) + 1]

(* r numbers the members of S from 1 on, in the order R.                   *)
Numbers(r, R, S) ==
  /\ \A x \in S : r[x] \in 1..Cardinality(S)
  /\ \A x, y \in S : <<x, y>> \in R => r[x] < r[y]
  /\ \A x, y \in S : r[x] = r[y] => x = y
  /\ \A k \in 1..Cardinality(S) : \E x \in S : r[x] = k

-----------------------------------------------------------------------------
(* Sorting by counting, on which sort_range_entries' model rests: in a     *)
(* finite ordered set the places grow with the order and take every value  *)
(* from 1 to the size of the set.                                          *)
LEMMA PlacesCount ==
  ASSUME NEW S, IsFiniteSet(S), NEW R, Orders(R, S)
  PROVE  Numbers(Places(R, S), R, S)
<1> DEFINE Low(x) == {y \in S : <<y, x>> \in R}
<1> DEFINE r == Places(R, S)
<1>1. \A x \in S : r[x] = Cardinality(Low(x)) + 1
  BY DEF Places
<1>2. \A x \in S : IsFiniteSet(Low(x)) /\ Cardinality(Low(x)) \in Nat
  <2>1. \A x \in S : Low(x) \subseteq S
    OBVIOUS
  <2> QED
    BY <2>1, FS_Subset, FS_CardinalityType
<1>3. Cardinality(S) \in Nat
  BY FS_CardinalityType
<1>4. ASSUME NEW x \in S PROVE r[x] \in 1..Cardinality(S)
  <2>1. Low(x) \subseteq S /\ Low(x) # S
    BY DEF Orders
  <2> HIDE DEF Low
  <2>2. Cardinality(Low(x)) < Cardinality(S)
    BY <2>1, <1>2, <1>3, FS_Subset
  <2> QED
    BY <1>1, <1>2, <1>3, <2>2
<1>5. ASSUME NEW x \in S, NEW y \in S, <<x, y>> \in R PROVE r[x] < r[y]
  <2>1. Low(x) \subseteq Low(y)
    BY <1>5 DEF Orders
  <2>2. x \in Low(y) /\ x \notin Low(x)
    BY <1>5 DEF Orders
  <2> HIDE DEF Low
  <2>3. Cardinality(Low(x)) < Cardinality(Low(y))
    BY <1>2, <2>1, <2>2, FS_Subset
  <2> QED
    BY <1>1, <1>2, <2>3
<1>6. ASSUME NEW x \in S, NEW y \in S, r[x] = r[y] PROVE x = y
  <2>1. r[x] \in Nat /\ r[y] \in Nat
    BY <1>3, <1>4
  <2> HIDE DEF r
  <2>2. ~(r[x] < r[y]) /\ ~(r[y] < r[x])
    BY <1>6, <2>1
  <2> QED
    BY <1>5, <2>2 DEF Orders
<1>7. \A k \in 1..Cardinality(S) : \E x \in S : r[x] = k
  <2>1. r \in Injection(S, 1..Cardinality(S))
    <3>1. r \in [S -> 1..Cardinality(S)]
      BY <1>4 DEF Places
    <3>2. \A x, y \in S : r[x] = r[y] => x = y
      BY <1>6
    <3> HIDE DEF r
    <3> QED
      BY <3>1, <3>2 DEF Injection, IsInjective
  <2>2. IsFiniteSet(1..Cardinality(S)) /\ Cardinality(1..Cardinality(S)) = Cardinality(S)
    <3>1. PICK n \in Nat : n = Cardinality(S)
      BY <1>3
    <3>2. IsFiniteSet(1..n) /\ Cardinality(1..n) = IF 1 > n THEN 0 ELSE n - 1 + 1
      BY FS_Interval, 1 \in Int, n \in Int
    <3>3. Cardinality(1..n) = n
      BY <3>2
    <3> QED
      BY <3>1, <3>2, <3>3
  <2> HIDE DEF r
  <2>3. r \in Surjection(S, 1..Cardinality(S))
    BY <2>1, <2>2, FS_Surjection, FS_Injection
  <2> QED
    BY <2>3 DEF Surjection
<1> QED
  BY <1>4, <1>5, <1>6, <1>7 DEF Numbers

(* The members of a finite set of numbers, listed by InOrder: each once,   *)
(* from the smallest to the largest.                                       *)
LEMMA InOrderLists ==
  ASSUME NEW S \in SUBSET Nat, IsFiniteSet(S)
  PROVE  /\ Cardinality(S) \in Nat
         /\ InOrder(S) \in [1..Cardinality(S) -> S]
         /\ InOrder(S) \in Seq(S)
         /\ Len(InOrder(S)) = Cardinality(S)
         /\ \A k, l \in 1..Len(InOrder(S)) : k < l => InOrder(S)[k] < InOrder(S)[l]
         /\ \A i \in S : \E k \in 1..Len(InOrder(S)) : InOrder(S)[k] = i
<1>1. PICK R : R = {p \in S \X S : p[1] < p[2]}
  OBVIOUS
<1>2. \A i, j \in S : <<i, j>> \in R <=> i < j
  BY <1>1
<1>3. Orders(R, S)
  <2>1. \A i \in S : i \in Nat
    OBVIOUS
  <2> QED
    BY <1>2, <2>1 DEF Orders
<1>4. PICK r : r = Places(R, S)
  OBVIOUS
<1>5. \A i \in S : r[i] = Cardinality({j \in S : j < i}) + 1
  <2> SUFFICES ASSUME NEW i \in S PROVE r[i] = Cardinality({j \in S : j < i}) + 1
    OBVIOUS
  <2>1. {j \in S : <<j, i>> \in R} = {j \in S : j < i}
    BY <1>2
  <2> QED
    BY <1>4, <2>1 DEF Places
<1>6. /\ \A i \in S : r[i] \in 1..Cardinality(S)
      /\ \A i, j \in S : <<i, j>> \in R => r[i] < r[j]
      /\ \A i, j \in S : r[i] = r[j] => i = j
      /\ \A k \in 1..Cardinality(S) : \E i \in S : r[i] = k
  <2>1. Numbers(Places(R, S), R, S)
    BY <1>3, PlacesCount
  <2> QED
    BY <1>4, <2>1 DEF Numbers
<1>7. PICK n \in Nat : n = Cardinality(S)
  BY FS_CardinalityType
<1>8. PICK s : s = InOrder(S)
  OBVIOUS
<1>9. s = [k \in 1..n |-> CHOOSE i \in S : Cardinality({j \in S : j < i}) + 1 = k]
  BY <1>7, <1>8 DEF InOrder
<1>10. \A k \in 1..n : s[k] \in S /\ r[s[k]] = k
  <2> SUFFICES ASSUME NEW k \in 1..n PROVE s[k] \in S /\ r[s[k]] = k
    OBVIOUS
  <2>1. \E i \in S : Cardinality({j \in S : j < i}) + 1 = k
    BY <1>5, <1>6, <1>7
  <2>2. s[k] \in S /\ Cardinality({j \in S : j < s[k]}) + 1 = k
    BY <1>9, <2>1
  <2> QED
    BY <1>5, <2>2
<1>11. s \in [1..n -> S]
  BY <1>9, <1>10
<1>12. s \in Seq(S) /\ Len(s) = n
  BY <1>7, <1>11, SeqDef
<1>13. \A k, l \in 1..n : k < l => s[k] < s[l]
  <2> SUFFICES ASSUME NEW k \in 1..n, NEW l \in 1..n, k < l PROVE s[k] < s[l]
    OBVIOUS
  <2>1. PICK i \in S : i = s[k] /\ r[i] = k
    BY <1>10
  <2>2. PICK j \in S : j = s[l] /\ r[j] = l
    BY <1>10
  <2>3. i # j
    BY <2>1, <2>2
  <2>4. ~(j < i)
    <3> SUFFICES ASSUME j < i PROVE FALSE
      OBVIOUS
    <3>1. r[j] < r[i]
      BY <1>2, <1>6
    <3> QED
      BY <2>1, <2>2, <3>1
  <2> QED
    BY <2>1, <2>2, <2>3, <2>4
<1>14. \A i \in S : \E k \in 1..n : s[k] = i
  <2> SUFFICES ASSUME NEW i \in S PROVE s[r[i]] = i /\ r[i] \in 1..n
    OBVIOUS
  <2>1. r[i] \in 1..n
    BY <1>6, <1>7
  <2> QED
    BY <2>1, <1>6, <1>10
<1> QED
  BY <1>7, <1>8, <1>11, <1>12, <1>13, <1>14

-----------------------------------------------------------------------------
(* What a column stores are literals, and not NULL.                        *)
LEMMA ValuesAreLiterals ==
  Values \subseteq Lits /\ Null \notin Values
BY CoerceIsTyped, NullIsNoLiteral DEF Values

(* The order of a range blob, on the values one column stores, which       *)
(* compare_values tells apart: a strict total order on pairs.              *)
LEMMA BeforeOrders ==
  /\ \A a \in Pairs : ~Before(a, a)
  /\ \A a, b, c \in Pairs : Before(a, b) /\ Before(b, c) => Before(a, c)
  /\ \A a, b \in Pairs : a # b => Before(a, b) \/ Before(b, a)
<1>1. \A a \in Pairs : a[1] \in Values /\ Rank[a[1]] \in Int /\ a[2] \in Nat
  BY RankIsTotal, ValuesAreLiterals DEF Pairs
<1>2. \A a, b \in Pairs : Rank[a[1]] = Rank[b[1]] /\ a[2] = b[2] => a = b
  <2> SUFFICES ASSUME NEW a \in Pairs, NEW b \in Pairs,
                      Rank[a[1]] = Rank[b[1]], a[2] = b[2]
               PROVE  a = b
    OBVIOUS
  <2>1. a[1] = b[1]
    BY <1>1, ValuesAreExact
  <2> QED
    BY <2>1 DEF Pairs
<1>3. \A a \in Pairs : ~Before(a, a)
  BY <1>1 DEF Before
<1>4. \A a, b, c \in Pairs : Before(a, b) /\ Before(b, c) => Before(a, c)
  BY <1>1 DEF Before
<1>5. \A a, b \in Pairs : a # b => Before(a, b) \/ Before(b, a)
  BY <1>1, <1>2 DEF Before
<1> QED
  BY <1>3, <1>4, <1>5

(* A sequence of pairs that holds each member of S once, in some order.    *)
Enumerates(s, S) ==
  /\ s \in Seq(Pairs)
  /\ {s[n] : n \in 1..Len(s)} = S
  /\ \A m, n \in 1..Len(s) : s[m] = s[n] => m = n

(* A range blob in order is one of them.                                   *)
LEMMA ListsEnumerate ==
  ASSUME NEW s \in Seq(Pairs), NEW S, Lists(s, S)
  PROVE  Enumerates(s, S)
<1>1. \A m, n \in 1..Len(s) : m < n => Before(s[m], s[n])
  BY DEF Lists
<1>2. \A n \in 1..Len(s) : s[n] \in Pairs
  BY ElementOfSeq
<1>3. \A m, n \in 1..Len(s) : s[m] = s[n] => m = n
  <2> SUFFICES ASSUME NEW m \in 1..Len(s), NEW n \in 1..Len(s), s[m] = s[n], m # n
               PROVE  FALSE
    OBVIOUS
  <2>1. m < n \/ n < m
    OBVIOUS
  <2> QED
    BY <1>1, <1>2, <2>1, BeforeOrders
<1> QED
  BY <1>3 DEF Lists, Enumerates

(* Two enumerations without a common member, one after the other.          *)
LEMMA JoinedEnumerate ==
  ASSUME NEW s, NEW t, NEW S, NEW T, Enumerates(s, S), Enumerates(t, T), S \cap T = {}
  PROVE  Enumerates(s \o t, S \cup T)
<1>1. s \in Seq(Pairs) /\ t \in Seq(Pairs)
  BY DEF Enumerates
<1>2. PICK a \in Nat : a = Len(s)
  BY <1>1, LenProperties
<1>3. PICK b \in Nat : b = Len(t)
  BY <1>1, LenProperties
<1>4. PICK u : u = s \o t
  OBVIOUS
<1>5. u \in Seq(Pairs) /\ Len(u) = a + b
  BY <1>1, <1>2, <1>3, <1>4, ConcatProperties
<1>6. \A n \in 1..(a + b) : u[n] = IF n <= a THEN s[n] ELSE t[n - a]
  BY <1>1, <1>2, <1>3, <1>4, ConcatProperties
<1>7. \A n \in 1..a : s[n] \in S
  BY <1>2 DEF Enumerates
<1>8. \A n \in 1..b : t[n] \in T
  BY <1>3 DEF Enumerates
<1>9. \A x \in S : \E n \in 1..a : s[n] = x
  BY <1>2 DEF Enumerates
<1>10. \A x \in T : \E n \in 1..b : t[n] = x
  BY <1>3 DEF Enumerates
<1>11. \A n \in 1..(a + b) : (n <= a /\ n \in 1..a) \/ (~(n <= a) /\ n - a \in 1..b)
  BY <1>2, <1>3
<1>12. \A n \in 1..(a + b) : u[n] \in S \cup T
  BY <1>6, <1>7, <1>8, <1>11
<1>13. \A x \in S \cup T : \E n \in 1..(a + b) : u[n] = x
  <2> SUFFICES ASSUME NEW x \in S \cup T PROVE \E n \in 1..(a + b) : u[n] = x
    OBVIOUS
  <2>1. CASE x \in S
    <3>1. PICK n \in 1..a : s[n] = x
      BY <1>9, <2>1
    <3>2. n \in 1..(a + b) /\ n <= a
      BY <1>2, <1>3
    <3> QED
      BY <1>6, <3>1, <3>2
  <2>2. CASE x \in T
    <3>1. PICK n \in 1..b : t[n] = x
      BY <1>10, <2>2
    <3>2. PICK m \in Nat : m = n + a
      BY <1>2
    <3>3. m \in 1..(a + b) /\ ~(m <= a) /\ m - a = n
      BY <1>2, <1>3, <3>2
    <3> QED
      BY <1>6, <3>1, <3>3
  <2> QED
    BY <2>1, <2>2
<1>14. ASSUME NEW m \in 1..(a + b), NEW n \in 1..(a + b), u[m] = u[n] PROVE m = n
  <2>1. CASE m <= a /\ n <= a
    <3>1. m \in 1..a /\ n \in 1..a /\ s[m] = s[n]
      BY <1>6, <1>11, <1>14, <2>1
    <3> QED
      BY <1>2, <3>1 DEF Enumerates
  <2>2. CASE ~(m <= a) /\ ~(n <= a)
    <3>1. m - a \in 1..b /\ n - a \in 1..b /\ t[m - a] = t[n - a]
      BY <1>6, <1>11, <1>14, <2>2
    <3>2. m - a = n - a
      BY <1>3, <3>1 DEF Enumerates
    <3> QED
      BY <1>2, <1>3, <3>2
  <2>3. CASE m <= a /\ ~(n <= a)
    <3>1. u[m] \in S /\ u[n] \in T
      BY <1>6, <1>7, <1>8, <1>11, <2>3
    <3> QED
      BY <1>14, <3>1
  <2>4. CASE ~(m <= a) /\ n <= a
    <3>1. u[n] \in S /\ u[m] \in T
      BY <1>6, <1>7, <1>8, <1>11, <2>4
    <3> QED
      BY <1>14, <3>1
  <2> QED
    BY <2>1, <2>2, <2>3, <2>4
<1>15. {u[n] : n \in 1..Len(u)} = S \cup T
  BY <1>5, <1>12, <1>13
<1>16. \A m, n \in 1..Len(u) : u[m] = u[n] => m = n
  BY <1>5, <1>14
<1>17. Enumerates(u, S \cup T)
  BY <1>5, <1>15, <1>16, Zenon DEF Enumerates
<1> QED
  BY <1>4, <1>17, Zenon

(* sort_range_entries on entries that are all different: the sorted blob   *)
(* lists exactly these, in order.                                          *)
LEMMA SortedLists ==
  ASSUME NEW es, NEW S, Enumerates(es, S)
  PROVE  SortEntries(es) \in Seq(Pairs) /\ Lists(SortEntries(es), S)
<1>1. es \in Seq(Pairs)
  BY DEF Enumerates
<1>2. PICK n \in Nat : n = Len(es)
  BY <1>1, LenProperties
<1>3. \A k \in 1..n : es[k] \in Pairs
  BY <1>1, <1>2, ElementOfSeq
<1>4. \A k, l \in 1..n : es[k] = es[l] => k = l
  BY <1>2 DEF Enumerates
<1>5. PICK P : P = 1..n
  OBVIOUS
<1>6. IsFiniteSet(P) /\ Cardinality(P) = n
  <2>1. IsFiniteSet(1..n) /\ Cardinality(1..n) = IF 1 > n THEN 0 ELSE n - 1 + 1
    BY FS_Interval, 1 \in Int, n \in Int
  <2> QED
    BY <1>5, <2>1
<1>7. PICK R : R = {p \in P \X P : Earlier(es, p[1], p[2])}
  OBVIOUS
<1>8. \A k, l \in P : <<k, l>> \in R <=> Earlier(es, k, l)
  BY <1>7
<1>9. \A k, l \in P : Earlier(es, k, l) <=> Before(es[k], es[l])
  BY <1>3, <1>4, <1>5, BeforeOrders DEF Earlier
<1>10. Orders(R, P)
  <2>1. \A k \in P : es[k] \in Pairs
    BY <1>3, <1>5
  <2>2. \A k \in P : ~Before(es[k], es[k])
    BY <2>1, BeforeOrders
  <2>3. \A k, l, m \in P : Before(es[k], es[l]) /\ Before(es[l], es[m]) => Before(es[k], es[m])
    BY <2>1, BeforeOrders
  <2>4. \A k, l \in P : k # l => Before(es[k], es[l]) \/ Before(es[l], es[k])
    BY <2>1, <1>4, <1>5, BeforeOrders
  <2> QED
    BY <1>8, <1>9, <2>2, <2>3, <2>4 DEF Orders
<1>11. PICK r : r = Places(R, P)
  OBVIOUS
<1>12. Numbers(r, R, P)
  BY <1>6, <1>10, <1>11, PlacesCount
<1>13. \A k \in P : r[k] = Place(es, k)
  <2> SUFFICES ASSUME NEW k \in P PROVE r[k] = Place(es, k)
    OBVIOUS
  <2>1. {m \in P : <<m, k>> \in R} = {m \in 1..Len(es) : Earlier(es, m, k)}
    BY <1>2, <1>5, <1>8
  <2> QED
    BY <1>11, <2>1 DEF Places, Place
<1>14. PICK t : t = SortEntries(es)
  OBVIOUS
<1>15. PICK f : f = [k \in P |-> CHOOSE m \in P : Place(es, m) = k]
  OBVIOUS
<1>16. \A k \in P : f[k] \in P /\ r[f[k]] = k
  <2> SUFFICES ASSUME NEW k \in P PROVE f[k] \in P /\ r[f[k]] = k
    OBVIOUS
  <2>1. \E m \in P : Place(es, m) = k
    BY <1>5, <1>6, <1>12, <1>13 DEF Numbers
  <2>2. f[k] \in P /\ Place(es, f[k]) = k
    BY <1>15, <2>1
  <2> QED
    BY <1>13, <2>2
<1>17. t = [k \in P |-> es[f[k]]]
  BY <1>2, <1>5, <1>14, <1>15 DEF SortEntries
<1>18. t \in [1..n -> Pairs]
  BY <1>3, <1>5, <1>16, <1>17
<1>19. t \in Seq(Pairs) /\ Len(t) = n
  BY <1>18, SeqDef
<1>20. \A k \in P : f[r[k]] = k /\ r[k] \in P
  <2> SUFFICES ASSUME NEW k \in P PROVE f[r[k]] = k /\ r[k] \in P
    OBVIOUS
  <2>1. r[k] \in P
    BY <1>5, <1>6, <1>12 DEF Numbers
  <2>2. f[r[k]] \in P /\ r[f[r[k]]] = r[k]
    BY <1>16, <2>1
  <2> QED
    BY <1>12, <2>1, <2>2 DEF Numbers
<1>21. {t[k] : k \in 1..Len(t)} = S
  <2>1. {es[k] : k \in P} = S
    BY <1>2, <1>5 DEF Enumerates
  <2>2. \A k \in P : t[k] \in S
    BY <1>16, <1>17, <2>1
  <2>3. \A x \in S : \E k \in P : t[k] = x
    <3> SUFFICES ASSUME NEW x \in S PROVE \E k \in P : t[k] = x
      OBVIOUS
    <3>1. PICK k \in P : es[k] = x
      BY <2>1
    <3>2. t[r[k]] = x
      BY <1>17, <1>20, <3>1
    <3> QED
      BY <1>20, <3>2
  <2> QED
    BY <1>5, <1>19, <2>2, <2>3
<1>22. ASSUME NEW k \in P, NEW l \in P, k < l PROVE Before(t[k], t[l])
  <2>1. PICK a \in P : a = f[k] /\ r[a] = k
    BY <1>16
  <2>2. PICK b \in P : b = f[l] /\ r[b] = l
    BY <1>16
  <2>3. k \in Nat /\ l \in Nat
    BY <1>5
  <2>4. a # b
    BY <2>1, <2>2, <2>3, <1>22
  <2>5. <<b, a>> \notin R
    <3> SUFFICES ASSUME <<b, a>> \in R PROVE FALSE
      OBVIOUS
    <3>1. r[b] < r[a]
      BY <1>12 DEF Numbers
    <3> QED
      BY <2>1, <2>2, <2>3, <3>1, <1>22
  <2>6. <<a, b>> \in R
    BY <2>4, <2>5, <1>10 DEF Orders
  <2>7. Before(es[a], es[b])
    BY <1>8, <1>9, <2>6
  <2> QED
    BY <1>17, <2>1, <2>2, <2>7
<1>23. t # NoBlob
  BY <1>19, NoBlobIsNoList DEF Pairs
<1>24. \A k, l \in 1..Len(t) : k < l => Before(t[k], t[l])
  BY <1>5, <1>19, <1>22
<1> QED
  BY <1>14, <1>19, <1>21, <1>23, <1>24 DEF Lists

-----------------------------------------------------------------------------
(* A table: finitely many rows under natural ids, whose cells are values   *)
(* of their column's type or NULL.                                         *)
IsTable(table) ==
  /\ DOMAIN table \subseteq Nat
  /\ IsFiniteSet(DOMAIN table)
  /\ \A i \in DOMAIN table : \A c \in Cols : table[i][c] \in Cells

(* The entries a column contributes, each once: what backfill and the      *)
(* statements append to a range blob.                                      *)
LEMMA EntriesEnumerate ==
  ASSUME NEW table, IsTable(table), NEW c \in Cols
  PROVE  Enumerates(Entries(table, c), EntrySet(table, c))
<1>1. PICK S : S = {i \in DOMAIN table : table[i][c] # Null}
  OBVIOUS
<1>2. S \in SUBSET Nat /\ IsFiniteSet(S)
  BY <1>1, FS_Subset DEF IsTable
<1>3. PICK ids : ids = InOrder(S)
  OBVIOUS
<1>4. /\ ids \in Seq(S)
      /\ \A k, l \in 1..Len(ids) : k < l => ids[k] < ids[l]
      /\ \A i \in S : \E k \in 1..Len(ids) : ids[k] = i
  BY <1>2, <1>3, InOrderLists
<1>5. PICK n \in Nat : n = Len(ids)
  BY <1>4, LenProperties
<1>6. \A k \in 1..n : ids[k] \in S
  BY <1>4, <1>5, ElementOfSeq
<1>7. PICK es : es = Entries(table, c)
  OBVIOUS
<1>8. es = [k \in 1..n |-> <<table[ids[k]][c], ids[k]>>]
  BY <1>1, <1>3, <1>5, <1>7 DEF Entries
<1>9. \A i \in S : table[i][c] \in Values /\ i \in Nat
  BY <1>1 DEF IsTable, Cells
<1>10. \A k \in 1..n : es[k] \in Pairs
  BY <1>6, <1>8, <1>9 DEF Pairs
<1>11. es \in Seq(Pairs) /\ Len(es) = n
  <2>1. es \in [1..n -> Pairs]
    BY <1>8, <1>10
  <2> QED
    BY <2>1, SeqDef
<1>12. {es[k] : k \in 1..Len(es)} = EntrySet(table, c)
  <2>1. EntrySet(table, c) = {<<table[i][c], i>> : i \in S}
    BY <1>1 DEF EntrySet
  <2>2. \A k \in 1..n : es[k] \in EntrySet(table, c)
    BY <1>6, <1>8, <2>1
  <2>3. \A x \in EntrySet(table, c) : \E k \in 1..n : es[k] = x
    <3> SUFFICES ASSUME NEW i \in S PROVE \E k \in 1..n : es[k] = <<table[i][c], i>>
      BY <2>1
    <3>1. PICK k \in 1..n : ids[k] = i
      BY <1>4, <1>5
    <3> QED
      BY <1>8, <3>1
  <2> QED
    BY <1>11, <2>2, <2>3
<1>13. \A k, l \in 1..Len(es) : es[k] = es[l] => k = l
  <2> SUFFICES ASSUME NEW k \in 1..n, NEW l \in 1..n, es[k] = es[l], k # l PROVE FALSE
    BY <1>11
  <2>1. ids[k] = ids[l]
    BY <1>8
  <2>2. k < l \/ l < k
    OBVIOUS
  <2>3. ids[k] \in Nat
    BY <1>2, <1>6
  <2> QED
    BY <1>4, <1>5, <2>1, <2>2, <2>3
<1>14. Enumerates(es, EntrySet(table, c))
  BY <1>11, <1>12, <1>13, Zenon DEF Enumerates
<1> QED
  BY <1>7, <1>14, Zenon

(* The members of a range blob at an increasing choice of positions.       *)
LEMMA ChosenLists ==
  ASSUME NEW old \in Seq(Pairs), NEW S, Lists(old, S),
         NEW T \in SUBSET (1..Len(old)), NEW t,
         t = [n \in 1..Len(InOrder(T)) |-> old[InOrder(T)[n]]]
  PROVE  t \in Seq(Pairs) /\ Lists(t, {old[n] : n \in T})
<1>1. PICK n \in Nat : n = Len(old)
  BY LenProperties
<1>2. T \in SUBSET Nat /\ IsFiniteSet(T)
  <2>1. IsFiniteSet(1..n)
    BY FS_Interval, 1 \in Int, n \in Int
  <2>2. T \in SUBSET (1..n)
    BY <1>1
  <2>3. IsFiniteSet(T)
    BY <2>1, <2>2, FS_Subset
  <2> QED
    BY <2>2, <2>3
<1>3. PICK kept : kept = InOrder(T)
  OBVIOUS
<1>4. /\ kept \in Seq(T)
      /\ \A k, l \in 1..Len(kept) : k < l => kept[k] < kept[l]
      /\ \A i \in T : \E k \in 1..Len(kept) : kept[k] = i
  BY <1>2, <1>3, InOrderLists
<1>5. PICK m \in Nat : m = Len(kept)
  BY <1>4, LenProperties
<1>6. \A k \in 1..m : kept[k] \in T
  BY <1>4, <1>5, ElementOfSeq
<1>7. t = [k \in 1..m |-> old[kept[k]]]
  BY <1>3, <1>5
<1>8. \A k \in 1..n : old[k] \in Pairs
  BY <1>1, ElementOfSeq
<1>9. t \in Seq(Pairs) /\ Len(t) = m
  <2>1. t \in [1..m -> Pairs]
    BY <1>1, <1>6, <1>7, <1>8
  <2> QED
    BY <2>1, SeqDef
<1>10. {t[k] : k \in 1..Len(t)} = {old[k] : k \in T}
  <2>1. \A k \in 1..m : t[k] \in {old[l] : l \in T}
    BY <1>6, <1>7
  <2>2. ASSUME NEW l \in T PROVE old[l] \in {t[k] : k \in 1..m}
    <3>1. PICK k \in 1..m : kept[k] = l
      BY <1>4, <1>5
    <3>2. t[k] = old[l]
      BY <1>7, <3>1
    <3> QED
      BY <3>2
  <2>3. {t[k] : k \in 1..m} = {old[k] : k \in T}
    BY <2>1, <2>2
  <2> QED
    BY <1>9, <2>3
<1>11. \A k, l \in 1..Len(t) : k < l => Before(t[k], t[l])
  <2> SUFFICES ASSUME NEW k \in 1..m, NEW l \in 1..m, k < l PROVE Before(t[k], t[l])
    BY <1>9
  <2>1. kept[k] \in 1..n /\ kept[l] \in 1..n /\ kept[k] < kept[l]
    BY <1>1, <1>4, <1>5, <1>6
  <2>2. Before(old[kept[k]], old[kept[l]])
    BY <1>1, <2>1 DEF Lists
  <2> QED
    BY <1>7, <2>2
<1>12. t # NoBlob
  BY <1>9, NoBlobIsNoList DEF Pairs
<1> QED
  BY <1>9, <1>10, <1>11, <1>12, Zenon DEF Lists

(* The entry of a blob that an UPDATE or a DELETE removes: its row is gone *)
(* and its cell is the old one.                                            *)
Gone(e, c, gone) == e[2] \in DOMAIN gone /\ Same(e[1], gone[e[2]][c])

(* What UPDATE and DELETE keep of a range blob: the entries that are not   *)
(* removed, still in order.                                                *)
LEMMA RetainedLists ==
  ASSUME NEW c, NEW gone, NEW S, LoadRange(c) \in Seq(Pairs), Lists(LoadRange(c), S)
  PROVE  /\ Retained(c, gone) \in Seq(Pairs)
         /\ Lists(Retained(c, gone), {e \in S : ~Gone(e, c, gone)})
<1>1. PICK old \in Seq(Pairs) : old = LoadRange(c)
  OBVIOUS
<1>2. Lists(old, S)
  BY <1>1
<1>3. PICK T : T = {n \in 1..Len(old) : ~Gone(old[n], c, gone)}
  OBVIOUS
<1>4. PICK t : t = Retained(c, gone)
  OBVIOUS
<1>5. t = [n \in 1..Len(InOrder(T)) |-> old[InOrder(T)[n]]]
  BY <1>1, <1>3, <1>4 DEF Retained, Gone
<1>6. T \in SUBSET (1..Len(old))
  BY <1>3
<1>7. t \in Seq(Pairs) /\ Lists(t, {old[n] : n \in T})
  BY <1>2, <1>5, <1>6, ChosenLists
<1>8. {old[n] : n \in T} = {e \in S : ~Gone(e, c, gone)}
  <2>1. S = {old[n] : n \in 1..Len(old)}
    BY <1>2 DEF Lists
  <2> QED
    BY <1>3, <2>1
<1> QED
  BY <1>4, <1>7, <1>8

-----------------------------------------------------------------------------
(* The inductive invariant, part by part: the key, the two kinds of index, *)
(* and a table whose five key spaces agree. Without the exact equality     *)
(* index no statement keeps the key unique, since INSERT and UPDATE look   *)
(* only there; were the key column also in the set of indexed ones, DROP   *)
(* INDEX would take its entries away.                                      *)
Keyed(k, table) ==
  k # 0 => /\ \A i \in DOMAIN table : table[i][k] # Null
           /\ \A i, j \in DOMAIN table : table[i][k] = table[j][k] => i = j

KeptBy(s) == s.indexed \cup {c \in Cols : c = s.pk}

BlobsOf(s, table, b) ==
  /\ b \in [Cols -> Seq(Pairs) \cup {NoBlob}]
  /\ \A c \in Cols :
       /\ c \in s.ranged => b[c] \in Seq(Pairs) /\ Lists(b[c], EntrySet(table, c))
       /\ c \notin s.ranged => b[c] = NoBlob

RowsUpTo(table, n) ==
  /\ DOMAIN table \subseteq 0..(n - 1)
  /\ table \in [DOMAIN table -> RowsOf]

Exact(s, table, n, x, b) ==
  /\ s \in Schemas /\ s.pk \notin s.indexed
  /\ n \in 0..MaxInserts
  /\ RowsUpTo(table, n)
  /\ Keyed(s.pk, table)
  /\ x = IndexOf(table, KeptBy(s))
  /\ BlobsOf(s, table, b)

Absent(s, table, n, x, b) ==
  s = NoTable /\ table = <<>> /\ n = 0 /\ x = {} /\ b = [c \in Cols |-> NoBlob]

IInv == \/ Absent(schema, rows, seq, index, blob)
        \/ Exact(schema, rows, seq, index, blob)

-----------------------------------------------------------------------------
(* A non-empty set of positions has a first one.                           *)
LEMMA FirstIn ==
  ASSUME NEW S \in SUBSET Nat, S # {}
  PROVE  First(S) \in S
<1>1. PICK u \in S : \A v \in S : ~(<<v, u>> \in OpToRel(<, Nat))
  BY WFMin, NatLessThanWellFounded
<1>2. \A v \in S : v < u => <<v, u>> \in OpToRel(<, Nat)
  BY DEF OpToRel
<1>3. \A v \in S : u <= v
  <2>1. \A v \in S : v \in Nat /\ u \in Nat /\ ~(v < u)
    BY <1>1, <1>2
  <2> QED
    BY <2>1
<1>4. \E v \in S : \A w \in S : v <= w
  BY <1>3
<1> QED
  BY <1>4 DEF First

(* The stored cells: what coerce returns for a literal, or NULL.           *)
LEMMA CellsAre ==
  /\ Cells \subseteq Operands
  /\ \A v \in Storable : Store(v) \in Cells
  /\ \A v \in Storable : Store(v) = Null <=> v = Null
BY CoerceIsTyped, NullIsNoLiteral DEF Cells, Values, Operands, Storable, Store

(* The rows below a sequence number are a table.                           *)
LEMMA RowsAreATable ==
  ASSUME NEW table, NEW n \in Nat, RowsUpTo(table, n)
  PROVE  IsTable(table)
<1>1. IsFiniteSet(0..(n - 1))
  BY FS_Interval, 0 \in Int, n - 1 \in Int
<1>2. DOMAIN table \subseteq 0..(n - 1)
  BY DEF RowsUpTo
<1>3. IsFiniteSet(DOMAIN table)
  BY <1>1, <1>2, FS_Subset
<1>4. \A i \in DOMAIN table : \A c \in Cols : table[i][c] \in Cells
  BY DEF RowsUpTo, RowsOf
<1> QED
  BY <1>2, <1>3, <1>4 DEF IsTable

(* On the cells of a column PartialEq is equality.                         *)
LEMMA SameIsEqual ==
  ASSUME NEW v \in Cells, NEW w \in Cells
  PROVE  Same(v, w) <=> v = w
BY ValuesAreExact, ValuesAreLiterals DEF Same, Cells

(* ... and so is the comparison of their ranks.                            *)
LEMMA RankIsOne ==
  ASSUME NEW v \in Values, NEW w \in Values
  PROVE  Rank[v] = Rank[w] <=> v = w
BY ValuesAreExact

(* The key as RelationalTable states it.                                   *)
LEMMA KeyedIsKeyHolds ==
  ASSUME NEW table, IsTable(table), NEW k \in Cols \cup {0}
  PROVE  Keyed(k, table) <=> Rel!KeyHolds(k, table)
<1>1. CASE k = 0
  BY <1>1 DEF Keyed, Rel!KeyHolds
<1>2. CASE k # 0
  <2>1. \A i \in DOMAIN table : table[i][k] # Null => table[i][k] \in Values
    BY <1>2 DEF IsTable, Cells
  <2>2. \A i, j \in DOMAIN table : table[i][k] # Null /\ table[j][k] # Null =>
          (Rank[table[i][k]] = Rank[table[j][k]] <=> table[i][k] = table[j][k])
    BY <2>1, RankIsOne
  <2> QED
    BY <1>2, <2>2 DEF Keyed, Rel!KeyHolds
<1> QED
  BY <1>1, <1>2

(* An entry of the equality index, and the rows a lookup finds.            *)
LEMMA IndexOfHas ==
  ASSUME NEW table, NEW cols, NEW e
  PROVE  e \in IndexOf(table, cols) <=>
           \E c \in cols : \E i \in DOMAIN table :
             table[i][c] # Null /\ e = <<c, table[i][c], i>>
BY DEF IndexOf

(* index_rowids finds exactly the rows with the value.                     *)
LEMMA LookupFinds ==
  ASSUME NEW cols, index = IndexOf(rows, cols), NEW c \in cols, NEW v, v # Null
  PROVE  IndexRowids(c, v) = {i \in DOMAIN rows : rows[i][c] = v}
<1>1. ASSUME NEW i \in IndexRowids(c, v) PROVE i \in DOMAIN rows /\ rows[i][c] = v
  <2>1. PICK e \in index : e[1] = c /\ e[2] = v /\ e[3] = i
    BY DEF IndexRowids
  <2>2. PICK d \in cols : \E j \in DOMAIN rows : rows[j][d] # Null /\ e = <<d, rows[j][d], j>>
    BY <2>1, IndexOfHas
  <2> QED
    BY <2>1, <2>2
<1>2. ASSUME NEW i \in DOMAIN rows, rows[i][c] = v PROVE i \in IndexRowids(c, v)
  <2>1. <<c, v, i>> \in index
    BY <1>2, IndexOfHas
  <2> QED
    BY <2>1 DEF IndexRowids
<1> QED
  BY <1>1, <1>2

-----------------------------------------------------------------------------
(* The conjunct that pins a column, which every row the clause selects     *)
(* satisfies: OR and NOT pin nothing, so it can be looked up by itself.    *)
LEMMA PinnedHolds ==
  ASSUME NEW p, IsClause(p), NEW c \in Cols, NEW ops \in SUBSET RangeOps,
         Pins(p, c, ops) # {}
  PROVE  /\ Pinned(p, c, ops).op \in ops
         /\ Pinned(p, c, ops).lit \in Lits
         /\ \A row \in RowsOf :
              Matches(p, row) => /\ row[c] # Null
                                 /\ Holds(Pinned(p, c, ops).op, row[c], Pinned(p, c, ops).lit)
<1>1. PICK pins : pins = Pins(p, c, ops)
  OBVIOUS
<1>2. p.kind \in {"atom", "and"}
  BY DEF Pins
<1>3. \/ \E a \in Comparisons : p = [kind |-> "atom", atoms |-> <<a>>]
      \/ \E a, b \in Comparisons : p = [kind |-> "and", atoms |-> <<a, b>>]
  BY <1>2 DEF IsClause, Everything, Atom, Not, And, Or
<1>4. /\ DOMAIN p.atoms = 1..1 \/ DOMAIN p.atoms = 1..2
      /\ \A i \in DOMAIN p.atoms : p.atoms[i] \in Comparisons
  BY <1>3
<1>5. pins = {i \in DOMAIN p.atoms :
                p.atoms[i].col = c /\ p.atoms[i].op \in ops /\ p.atoms[i].lit # Null}
  BY <1>1, <1>2 DEF Pins
<1>6. pins \in SUBSET Nat /\ pins # {}
  BY <1>1, <1>4, <1>5
<1>7. PICK i \in pins : i = First(pins)
  BY <1>6, FirstIn
<1>8. PICK a \in Comparisons : a = p.atoms[i]
  BY <1>4, <1>5, <1>7
<1>9. Pinned(p, c, ops) = a
  BY <1>1, <1>7, <1>8 DEF Pinned
<1>10. a.col = c /\ a.op \in ops /\ a.lit \in Lits
  BY <1>5, <1>7, <1>8 DEF Comparisons, Operands
<1>11. ASSUME NEW row \in RowsOf, Matches(p, row) PROVE EvalAtom(a, row) = "true"
  <2>1. PICK val : val = [j \in DOMAIN p.atoms |-> EvalAtom(p.atoms[j], row)]
    OBVIOUS
  <2>2. DefinitelyTrue(p.kind, val)
    BY <1>11, <2>1 DEF Matches
  <2>3. val[i] = "true"
    <3>1. CASE p.kind = "atom"
      <4>1. i = 1
        BY <1>3, <1>5, <1>7, <3>1
      <4> QED
        BY <2>2, <3>1, <4>1 DEF DefinitelyTrue
    <3>2. CASE p.kind = "and"
      <4>1. i = 1 \/ i = 2
        BY <1>4, <1>5, <1>7
      <4> QED
        BY <2>2, <3>2, <4>1 DEF DefinitelyTrue
    <3> QED
      BY <1>2, <3>1, <3>2
  <2> QED
    BY <1>5, <1>7, <1>8, <2>1, <2>3
<1>12. ASSUME NEW row \in RowsOf, Matches(p, row)
       PROVE  row[c] # Null /\ Holds(a.op, row[c], a.lit)
  <2>1. EvalAtom(a, row) = "true"
    BY <1>11, <1>12
  <2>2. a.op # "is null" /\ a.op # "is not null" /\ a.lit # Null
    BY <1>10, NullIsNoLiteral DEF RangeOps
  <2>3. EvalAtom(a, row) = IF row[a.col] = Null \/ a.lit = Null THEN "unknown"
                           ELSE IF ~Comparable(row[a.col], a.lit) THEN "error"
                           ELSE Truth(Holds(a.op, row[a.col], a.lit))
    BY <2>2 DEF EvalAtom
  <2>4. row[c] # Null
    BY <1>10, <2>1, <2>3
  <2>5. Truth(Holds(a.op, row[c], a.lit)) = "true"
    BY <1>10, <2>1, <2>2, <2>3, <2>4
  <2> QED
    BY <2>4, <2>5 DEF Truth
<1> QED
  BY <1>9, <1>10, <1>12

(* Through whichever index a clause is answered, SELECT, UPDATE and DELETE *)
(* act on the rows that a full scan with the same clause would find, unless*)
(* an equality index is asked for a literal its column cannot hold: it     *)
(* finds no row then.                                                      *)
LEMMA SelectedByPath ==
  ASSUME Exact(schema, rows, seq, index, blob), NEW p, IsClause(p)
  PROVE  /\ CandidateRows(p) \subseteq DOMAIN rows
         /\ Selected(p) = IF LooksForNothing(p) THEN {}
                          ELSE {i \in DOMAIN rows : Matches(p, rows[i])}
<1>1. \A i \in DOMAIN rows : rows[i] \in RowsOf
  BY DEF Exact, RowsUpTo
<1>2. schema.indexed \subseteq Cols /\ schema.ranged \subseteq Cols /\ schema.pk \in Cols \cup {0}
  BY DEF Exact, Schemas
<1>3. index = IndexOf(rows, KeptBy(schema))
  BY DEF Exact
<1> DEFINE Found(C) == /\ C \subseteq DOMAIN rows
                       /\ \A i \in DOMAIN rows : Matches(p, rows[i]) => i \in C
<1>4. ASSUME NEW c \in KeptBy(schema), c \in Cols, Pins(p, c, {"="}) # {}
      PROVE  IF Pinned(p, c, {"="}).lit \notin Cells
             THEN IndexRowids(c, Pinned(p, c, {"="}).lit) \cap DOMAIN rows = {}
             ELSE Found(IndexRowids(c, Pinned(p, c, {"="}).lit) \cap DOMAIN rows)
  <2>1. PICK a : a = Pinned(p, c, {"="})
    OBVIOUS
  <2>2. /\ a.op = "=" /\ a.lit \in Lits
        /\ \A row \in RowsOf : Matches(p, row) => row[c] # Null /\ Holds(a.op, row[c], a.lit)
    BY <1>4, <2>1, PinnedHolds DEF RangeOps
  <2>3. IndexRowids(c, a.lit) = {i \in DOMAIN rows : rows[i][c] = a.lit}
    BY <1>3, <2>2, LookupFinds, NullIsNoLiteral
  <2>4. CASE a.lit \notin Cells
    <3>1. \A i \in DOMAIN rows : rows[i][c] \in Cells
      BY <1>1, <1>4 DEF RowsOf
    <3> QED
      BY <2>1, <2>3, <2>4, <3>1
  <2>5. CASE a.lit \in Cells
    <3>1. a.lit \in Values
      BY <2>2, <2>5, NullIsNoLiteral DEF Cells
    <3>2. ASSUME NEW i \in DOMAIN rows, Matches(p, rows[i]) PROVE rows[i][c] = a.lit
      <4>1. rows[i][c] # Null /\ Holds("=", rows[i][c], a.lit)
        BY <1>1, <2>2, <3>2
      <4>2. rows[i][c] \in Values
        BY <1>1, <1>4, <4>1 DEF RowsOf, Cells
      <4> QED
        BY <3>1, <4>1, <4>2, RankIsOne DEF Holds, Compared
    <3> QED
      BY <2>1, <2>3, <2>5, <3>2
  <2> QED
    BY <2>4, <2>5
<1>5. ASSUME NEW c \in schema.ranged, Pins(p, c, RangeOps) # {}
      PROVE  LET a == Pinned(p, c, RangeOps)
                 hits == {n \in 1..Len(LoadRange(c)) : Holds(a.op, LoadRange(c)[n][1], a.lit)}
             IN  Found({LoadRange(c)[n][2] : n \in hits} \cap DOMAIN rows)
  <2>1. PICK a : a = Pinned(p, c, RangeOps)
    OBVIOUS
  <2>2. c \in Cols /\ c \in schema.ranged
    BY <1>2
  <2>3. \A row \in RowsOf : Matches(p, row) => row[c] # Null /\ Holds(a.op, row[c], a.lit)
    BY <1>5, <2>1, <2>2, PinnedHolds
  <2>4. blob[c] \in Seq(Pairs) /\ Lists(blob[c], EntrySet(rows, c))
    BY <2>2 DEF Exact, BlobsOf
  <2>5. PICK s : s = LoadRange(c)
    OBVIOUS
  <2>6. {s[n] : n \in 1..Len(s)} = EntrySet(rows, c)
    BY <2>4, <2>5 DEF Lists, LoadRange
  <2>7. PICK hits : hits = {n \in 1..Len(s) : Holds(a.op, s[n][1], a.lit)}
    OBVIOUS
  <2>8. ASSUME NEW i \in DOMAIN rows, Matches(p, rows[i]) PROVE i \in {s[n][2] : n \in hits}
    <3>1. rows[i][c] # Null /\ Holds(a.op, rows[i][c], a.lit)
      BY <1>1, <2>3, <2>8
    <3>2. <<rows[i][c], i>> \in EntrySet(rows, c)
      BY <3>1 DEF EntrySet
    <3>3. PICK n \in 1..Len(s) : s[n] = <<rows[i][c], i>>
      BY <2>6, <3>2
    <3>4. n \in hits /\ s[n][2] = i
      BY <2>7, <3>1, <3>3
    <3> QED
      BY <3>4
  <2>9. Found({s[n][2] : n \in hits} \cap DOMAIN rows)
    BY <2>8
  <2> QED
    BY <2>1, <2>5, <2>7, <2>9
<1>6. Found(DOMAIN rows)
  OBVIOUS
<1>7. IF LooksForNothing(p) THEN CandidateRows(p) = {} ELSE Found(CandidateRows(p))
  <2> DEFINE path == Path(p, schema)
  <2>1. CASE schema.pk # 0 /\ Pins(p, schema.pk, {"="}) # {}
    <3>1. path = [kind |-> "key", col |-> schema.pk]
      BY <2>1 DEF Path
    <3>2. CandidateRows(p) =
            IndexRowids(schema.pk, Pinned(p, schema.pk, {"="}).lit) \cap DOMAIN rows
      BY <3>1 DEF CandidateRows
    <3>3. schema.pk \in KeptBy(schema) /\ schema.pk \in Cols
      BY <1>2, <2>1 DEF KeptBy
    <3>4. LooksForNothing(p) <=> Pinned(p, schema.pk, {"="}).lit \notin Cells
      BY <3>1 DEF LooksForNothing
    <3> QED
      BY <1>4, <2>1, <3>2, <3>3, <3>4
  <2>2. CASE ~(schema.pk # 0 /\ Pins(p, schema.pk, {"="}) # {}) /\ EqCols(p, schema) # {}
    <3>1. PICK c : c = First(EqCols(p, schema))
      OBVIOUS
    <3>2. path = [kind |-> "index", col |-> c]
      BY <2>2, <3>1 DEF Path
    <3>3. EqCols(p, schema) \in SUBSET Nat
      BY <1>2, ColsArePositions DEF EqCols
    <3>4. c \in EqCols(p, schema)
      BY <2>2, <3>1, <3>3, FirstIn
    <3>5. c \in KeptBy(schema) /\ c \in Cols /\ Pins(p, c, {"="}) # {}
      BY <1>2, <3>4 DEF EqCols, KeptBy
    <3>6. CandidateRows(p) = IndexRowids(c, Pinned(p, c, {"="}).lit) \cap DOMAIN rows
      BY <3>2 DEF CandidateRows
    <3>7. LooksForNothing(p) <=> Pinned(p, c, {"="}).lit \notin Cells
      BY <3>2 DEF LooksForNothing
    <3> QED
      BY <1>4, <3>5, <3>6, <3>7
  <2>3. CASE /\ ~(schema.pk # 0 /\ Pins(p, schema.pk, {"="}) # {})
             /\ EqCols(p, schema) = {} /\ RangeCols(p, schema) # {}
    <3>1. PICK c : c = First(RangeCols(p, schema))
      OBVIOUS
    <3>2. path = [kind |-> "range", col |-> c]
      BY <2>3, <3>1 DEF Path
    <3>3. RangeCols(p, schema) \in SUBSET Nat
      BY <1>2, ColsArePositions DEF RangeCols
    <3>4. c \in RangeCols(p, schema)
      BY <2>3, <3>1, <3>3, FirstIn
    <3>5. c \in schema.ranged /\ Pins(p, c, RangeOps) # {}
      BY <3>4 DEF RangeCols
    <3>6. CandidateRows(p) =
            {LoadRange(c)[n][2] :
               n \in {m \in 1..Len(LoadRange(c)) :
                        Holds(Pinned(p, c, RangeOps).op, LoadRange(c)[m][1],
                              Pinned(p, c, RangeOps).lit)}} \cap DOMAIN rows
      BY <3>2 DEF CandidateRows
    <3>7. ~LooksForNothing(p)
      BY <3>2 DEF LooksForNothing
    <3> QED
      BY <1>5, <3>5, <3>6, <3>7
  <2>4. CASE /\ ~(schema.pk # 0 /\ Pins(p, schema.pk, {"="}) # {})
             /\ EqCols(p, schema) = {} /\ RangeCols(p, schema) = {}
    <3>1. path = [kind |-> "scan", col |-> 0]
      BY <2>4 DEF Path
    <3>2. CandidateRows(p) = DOMAIN rows
      BY <3>1 DEF CandidateRows
    <3>3. ~LooksForNothing(p)
      BY <3>1 DEF LooksForNothing
    <3> QED
      BY <1>6, <3>2, <3>3
  <2> QED
    BY <2>1, <2>2, <2>3, <2>4
<1> QED
  BY <1>7 DEF Selected

(* A statement that changes a row changes the ones a full scan would find. *)
LEMMA SelectedIsScan ==
  ASSUME Exact(schema, rows, seq, index, blob), NEW p, IsClause(p), Selected(p) # {}
  PROVE  Selected(p) = {i \in DOMAIN rows : Matches(p, rows[i])}
BY SelectedByPath

-----------------------------------------------------------------------------
(* A table that exists is in the second case of the invariant.             *)
LEMMA TableIsExact ==
  ASSUME IInv, schema # NoTable
  PROVE  Exact(schema, rows, seq, index, blob)
BY DEF IInv, Absent

(* CREATE TABLE: empty key spaces, whatever a predecessor of that name     *)
(* stored.                                                                 *)
LEMMA CreateTableKeeps ==
  ASSUME IInv, NEW pk \in KeyChoices, CreateTable(pk)
  PROVE  IInv'
<1>1. Absent(schema, rows, seq, index, blob)
  BY NoTableIsNoSchema DEF IInv, Exact, CreateTable
<1>2. PICK s : s = [pk |-> pk, indexed |-> {}, ranged |-> {}]
  OBVIOUS
<1>3. /\ schema' = s /\ rows' = <<>> /\ seq' = 0 /\ index' = {}
      /\ blob' = [c \in Cols |-> NoBlob]
  BY <1>1, <1>2 DEF CreateTable, Absent
<1>4. s \in Schemas /\ s.pk \notin s.indexed
  BY <1>2, KeyChoicesAreCols DEF Schemas
<1>5. 0 \in 0..MaxInserts
  BY MaxInsertsIsNat
<1>6. DOMAIN <<>> = {}
  OBVIOUS
<1>7. RowsUpTo(<<>>, 0)
  BY <1>6 DEF RowsUpTo
<1>8. Keyed(s.pk, <<>>)
  BY <1>6 DEF Keyed
<1>9. {} = IndexOf(<<>>, KeptBy(s))
  BY <1>6 DEF IndexOf
<1>10. BlobsOf(s, <<>>, [c \in Cols |-> NoBlob])
  BY <1>2 DEF BlobsOf
<1>11. Exact(s, <<>>, 0, {}, [c \in Cols |-> NoBlob])
  BY <1>4, <1>5, <1>7, <1>8, <1>9, <1>10 DEF Exact
<1> QED
  BY <1>3, <1>11 DEF IInv

(* DROP TABLE: nothing stays behind.                                       *)
LEMMA DropTableKeeps ==
  ASSUME DropTable
  PROVE  IInv'
BY DEF DropTable, IInv, Absent

(* The index statements: the rows stay, the schema changes.                *)
LEMMA SchemaStep ==
  ASSUME Exact(schema, rows, seq, index, blob), UNCHANGED <<rows, seq>>,
         schema' \in Schemas, schema'.pk = schema.pk, schema'.pk \notin schema'.indexed,
         index' = IndexOf(rows, KeptBy(schema')), BlobsOf(schema', rows, blob')
  PROVE  IInv'
<1>1. PICK s, x, b : s = schema' /\ x = index' /\ b = blob'
  OBVIOUS
<1>2. Exact(s, rows, seq, x, b)
  BY <1>1 DEF Exact
<1>3. Exact(schema', rows', seq', index', blob')
  BY <1>1, <1>2
<1> QED
  BY <1>3 DEF IInv

(* CREATE INDEX: the backfill brings every row under the new index.        *)
LEMMA CreateIndexKeeps ==
  ASSUME IInv, NEW c \in Cols, CreateIndex(c)
  PROVE  IInv'
<1>1. Exact(schema, rows, seq, index, blob)
  BY TableIsExact DEF CreateIndex
<1>2. schema \in Schemas /\ schema.pk \notin schema.indexed
  BY <1>1 DEF Exact
<1>3. schema' = [pk |-> schema.pk, indexed |-> schema.indexed \cup {c}, ranged |-> schema.ranged]
  BY <1>2 DEF CreateIndex, Schemas
<1>4. /\ schema' \in Schemas /\ schema'.pk = schema.pk /\ schema'.ranged = schema.ranged
      /\ schema'.pk \notin schema'.indexed
  BY <1>2, <1>3 DEF CreateIndex, Schemas
<1>5. KeptBy(schema') = KeptBy(schema) \cup {c}
  BY <1>3 DEF KeptBy
<1>6. IndexOf(rows, KeptBy(schema) \cup {c}) = IndexOf(rows, KeptBy(schema)) \cup IndexOf(rows, {c})
  BY IndexOfHas
<1>7. index' = IndexOf(rows, KeptBy(schema'))
  BY <1>1, <1>5, <1>6 DEF CreateIndex, Exact
<1>8. BlobsOf(schema', rows, blob')
  BY <1>1, <1>4 DEF CreateIndex, Exact, BlobsOf
<1>9. UNCHANGED <<rows, seq>>
  BY DEF CreateIndex
<1> QED
  BY <1>1, <1>4, <1>7, <1>8, <1>9, SchemaStep

(* DROP INDEX: the entries of the column, and no others.                   *)
LEMMA DropIndexKeeps ==
  ASSUME IInv, NEW c \in Cols, DropIndex(c)
  PROVE  IInv'
<1>1. Exact(schema, rows, seq, index, blob)
  BY TableIsExact DEF DropIndex
<1>2. schema \in Schemas /\ schema.pk \notin schema.indexed
  BY <1>1 DEF Exact
<1>3. schema' = [pk |-> schema.pk, indexed |-> schema.indexed \ {c}, ranged |-> schema.ranged]
  BY <1>2 DEF DropIndex, Schemas
<1>4. /\ schema' \in Schemas /\ schema'.pk = schema.pk /\ schema'.ranged = schema.ranged
      /\ schema'.pk \notin schema'.indexed
  BY <1>2, <1>3 DEF Schemas
<1>5. KeptBy(schema') = KeptBy(schema) \ {c}
  BY <1>2, <1>3 DEF KeptBy, DropIndex
<1>6. {e \in IndexOf(rows, KeptBy(schema)) : e[1] # c} = IndexOf(rows, KeptBy(schema) \ {c})
  BY IndexOfHas
<1>7. index' = IndexOf(rows, KeptBy(schema'))
  BY <1>1, <1>5, <1>6 DEF DropIndex, Exact
<1>8. BlobsOf(schema', rows, blob')
  BY <1>1, <1>4 DEF DropIndex, Exact, BlobsOf
<1>9. UNCHANGED <<rows, seq>>
  BY DEF DropIndex
<1> QED
  BY <1>1, <1>4, <1>7, <1>8, <1>9, SchemaStep

(* The rows of the invariant are a table.                                  *)
LEMMA StoredIsTable ==
  ASSUME Exact(schema, rows, seq, index, blob)
  PROVE  /\ IsTable(rows) /\ seq \in Nat /\ seq <= MaxInserts
         /\ \A i \in DOMAIN rows : i \in Nat /\ i < seq
         /\ \A i \in DOMAIN rows : rows[i] \in RowsOf
         /\ schema.indexed \subseteq Cols /\ schema.ranged \subseteq Cols
         /\ schema.pk \in Cols \cup {0} /\ schema.pk \notin schema.indexed
         /\ KeptBy(schema) \subseteq Cols /\ Maintained = KeptBy(schema)
<1>1. seq \in Nat /\ seq <= MaxInserts
  BY MaxInsertsIsNat DEF Exact
<1>2. RowsUpTo(rows, seq) /\ schema \in Schemas /\ schema.pk \notin schema.indexed
  BY DEF Exact
<1>3. \A i \in DOMAIN rows : i \in Nat /\ i < seq
  BY <1>1, <1>2 DEF RowsUpTo
<1>4. \A i \in DOMAIN rows : rows[i] \in RowsOf
  BY <1>2 DEF RowsUpTo
<1> QED
  BY <1>1, <1>2, <1>3, <1>4, RowsAreATable DEF Schemas, KeptBy, Maintained

(* CREATE RANGE INDEX: the backfilled blob lists the rows in order.        *)
LEMMA CreateRangeIndexKeeps ==
  ASSUME IInv, NEW c \in Cols, CreateRangeIndex(c)
  PROVE  IInv'
<1>1. Exact(schema, rows, seq, index, blob)
  BY TableIsExact DEF CreateRangeIndex
<1>2. schema \in Schemas /\ schema.pk \notin schema.indexed
  BY <1>1 DEF Exact
<1>3. schema' = [pk |-> schema.pk, indexed |-> schema.indexed, ranged |-> schema.ranged \cup {c}]
  BY <1>2 DEF CreateRangeIndex, Schemas
<1>4. /\ schema' \in Schemas /\ schema'.pk = schema.pk /\ KeptBy(schema') = KeptBy(schema)
      /\ schema'.pk \notin schema'.indexed
  BY <1>2, <1>3 DEF Schemas, KeptBy
<1>5. index' = IndexOf(rows, KeptBy(schema'))
  BY <1>1, <1>4 DEF CreateRangeIndex, Exact
<1>6. PICK t : t = SortEntries(Entries(rows, c))
  OBVIOUS
<1>7. t \in Seq(Pairs) /\ Lists(t, EntrySet(rows, c))
  BY <1>1, <1>6, StoredIsTable, EntriesEnumerate, SortedLists
<1>8. BlobsOf(schema, rows, blob)
  BY <1>1 DEF Exact
<1>9. blob' = [blob EXCEPT ![c] = t]
  BY <1>6 DEF CreateRangeIndex
<1>10. BlobsOf(schema', rows, blob')
  BY <1>3, <1>7, <1>8, <1>9 DEF BlobsOf
<1>11. UNCHANGED <<rows, seq>>
  BY DEF CreateRangeIndex
<1> QED
  BY <1>1, <1>4, <1>5, <1>10, <1>11, SchemaStep

(* DROP RANGE INDEX.                                                       *)
LEMMA DropRangeIndexKeeps ==
  ASSUME IInv, NEW c \in Cols, DropRangeIndex(c)
  PROVE  IInv'
<1>1. Exact(schema, rows, seq, index, blob)
  BY TableIsExact DEF DropRangeIndex
<1>2. schema \in Schemas /\ schema.pk \notin schema.indexed
  BY <1>1 DEF Exact
<1>3. schema' = [pk |-> schema.pk, indexed |-> schema.indexed, ranged |-> schema.ranged \ {c}]
  BY <1>2 DEF DropRangeIndex, Schemas
<1>4. /\ schema' \in Schemas /\ schema'.pk = schema.pk /\ KeptBy(schema') = KeptBy(schema)
      /\ schema'.pk \notin schema'.indexed
  BY <1>2, <1>3 DEF Schemas, KeptBy
<1>5. index' = IndexOf(rows, KeptBy(schema'))
  BY <1>1, <1>4 DEF DropRangeIndex, Exact
<1>6. BlobsOf(schema, rows, blob)
  BY <1>1 DEF Exact
<1>7. BlobsOf(schema', rows, blob')
  BY <1>3, <1>6 DEF BlobsOf, DropRangeIndex
<1>8. UNCHANGED <<rows, seq>>
  BY DEF DropRangeIndex
<1> QED
  BY <1>1, <1>4, <1>5, <1>7, <1>8, SchemaStep

-----------------------------------------------------------------------------
(* The rows an INSERT adds, and one table laid over another.               *)
NewRows(rs) == [i \in seq..(seq + Len(rs) - 1) |-> Stored(rs)[i - seq + 1]]
Over(t, a) == [i \in DOMAIN t \cup DOMAIN a |-> IF i \in DOMAIN a THEN a[i] ELSE t[i]]

(* The rows of a statement, coerced, under fresh ids in their order.       *)
LEMMA NewRowsAre ==
  ASSUME Exact(schema, rows, seq, index, blob), NEW rs \in Inserts
  PROVE  /\ Len(rs) \in Nat
         /\ DOMAIN NewRows(rs) = seq..(seq + Len(rs) - 1)
         /\ \A j \in 1..Len(rs) : Stored(rs)[j] \in RowsOf
         /\ \A i \in DOMAIN NewRows(rs) :
              /\ i - seq + 1 \in 1..Len(rs)
              /\ NewRows(rs)[i] = Stored(rs)[i - seq + 1]
              /\ NewRows(rs)[i] \in RowsOf
         /\ \A j \in 1..Len(rs) :
              /\ seq + j - 1 \in DOMAIN NewRows(rs)
              /\ NewRows(rs)[seq + j - 1] = Stored(rs)[j]
         /\ DOMAIN rows \cap DOMAIN NewRows(rs) = {}
         /\ IsTable(NewRows(rs))
<1>1. rs \in Seq([Cols -> Storable])
  BY InsertsAreRows
<1>2. PICK n \in Nat : n = Len(rs)
  BY <1>1, LenProperties
<1>3. \A j \in 1..n : rs[j] \in [Cols -> Storable]
  BY <1>1, <1>2, ElementOfSeq
<1>4. PICK q \in Nat : q = seq
  BY StoredIsTable
<1>5. PICK st : st = Stored(rs)
  OBVIOUS
<1>6. st = [j \in 1..n |-> [c \in Cols |-> Store(rs[j][c])]]
  BY <1>2, <1>5 DEF Stored
<1>7. \A j \in 1..n : st[j] \in RowsOf
  <2> SUFFICES ASSUME NEW j \in 1..n PROVE st[j] \in RowsOf
    OBVIOUS
  <2>1. \A c \in Cols : Store(rs[j][c]) \in Cells
    BY <1>3, CellsAre
  <2> QED
    BY <1>6, <2>1 DEF RowsOf
<1>8. PICK a : a = NewRows(rs)
  OBVIOUS
<1>9. a = [i \in q..(q + n - 1) |-> st[i - q + 1]]
  BY <1>2, <1>4, <1>5, <1>8 DEF NewRows
<1>10. \A i \in q..(q + n - 1) : i - q + 1 \in 1..n
  OBVIOUS
<1>11. \A j \in 1..n : q + j - 1 \in q..(q + n - 1) /\ (q + j - 1) - q + 1 = j
  OBVIOUS
<1>12. \A i \in DOMAIN a : i - q + 1 \in 1..n /\ a[i] = st[i - q + 1] /\ a[i] \in RowsOf
  BY <1>7, <1>9, <1>10
<1>13. \A j \in 1..n : q + j - 1 \in DOMAIN a /\ a[q + j - 1] = st[j]
  BY <1>9, <1>11
<1>14. \A i \in DOMAIN rows : i \in Nat /\ i < q
  BY <1>4, StoredIsTable
<1>15. DOMAIN rows \cap DOMAIN a = {}
  BY <1>9, <1>14
<1>16. IsTable(a)
  <2>1. IsFiniteSet(q..(q + n - 1))
    BY FS_Interval, q \in Int, q + n - 1 \in Int
  <2>2. DOMAIN a = q..(q + n - 1) /\ q..(q + n - 1) \subseteq Nat
    BY <1>9
  <2>3. \A i \in DOMAIN a : \A c \in Cols : a[i][c] \in Cells
    BY <1>12 DEF RowsOf
  <2> QED
    BY <2>1, <2>2, <2>3 DEF IsTable
<1>17. DOMAIN a = seq..(seq + Len(rs) - 1)
  BY <1>2, <1>4, <1>9
<1> QED
  BY <1>2, <1>4, <1>5, <1>7, <1>8, <1>12, <1>13, <1>15, <1>16, <1>17

(* Both kinds of index of a table laid over another with other ids.        *)
LEMMA OverEntries ==
  ASSUME NEW t, NEW a, DOMAIN t \cap DOMAIN a = {}
  PROVE  /\ \A cols : IndexOf(Over(t, a), cols) = IndexOf(t, cols) \cup IndexOf(a, cols)
         /\ \A c : EntrySet(Over(t, a), c) = EntrySet(t, c) \cup EntrySet(a, c)
         /\ \A c : EntrySet(t, c) \cap EntrySet(a, c) = {}
<1>1. PICK m : m = Over(t, a)
  OBVIOUS
<1>2. /\ DOMAIN m = DOMAIN t \cup DOMAIN a
      /\ \A i \in DOMAIN t : m[i] = t[i]
      /\ \A i \in DOMAIN a : m[i] = a[i]
  BY <1>1 DEF Over
<1>3. ASSUME NEW cols PROVE IndexOf(m, cols) = IndexOf(t, cols) \cup IndexOf(a, cols)
  <2>1. ASSUME NEW e \in IndexOf(m, cols) PROVE e \in IndexOf(t, cols) \cup IndexOf(a, cols)
    <3>1. PICK c \in cols, i \in DOMAIN m : m[i][c] # Null /\ e = <<c, m[i][c], i>>
      BY <2>1, IndexOfHas
    <3> QED
      BY <1>2, <3>1, IndexOfHas
  <2>2. ASSUME NEW e \in IndexOf(t, cols) PROVE e \in IndexOf(m, cols)
    <3>1. PICK c \in cols, i \in DOMAIN t : t[i][c] # Null /\ e = <<c, t[i][c], i>>
      BY <2>2, IndexOfHas
    <3> QED
      BY <1>2, <3>1, IndexOfHas
  <2>3. ASSUME NEW e \in IndexOf(a, cols) PROVE e \in IndexOf(m, cols)
    <3>1. PICK c \in cols, i \in DOMAIN a : a[i][c] # Null /\ e = <<c, a[i][c], i>>
      BY <2>3, IndexOfHas
    <3> QED
      BY <1>2, <3>1, IndexOfHas
  <2> QED
    BY <2>1, <2>2, <2>3
<1>4. ASSUME NEW c PROVE EntrySet(m, c) = EntrySet(t, c) \cup EntrySet(a, c)
  BY <1>2 DEF EntrySet
<1>5. ASSUME NEW c PROVE EntrySet(t, c) \cap EntrySet(a, c) = {}
  BY DEF EntrySet
<1> QED
  BY <1>1, <1>3, <1>4, <1>5

(* INSERT's validation, which only looks into the index and the statement, *)
(* accepts exactly the rows that leave the key unique and not NULL.        *)
LEMMA InsertIsKeyed ==
  ASSUME Exact(schema, rows, seq, index, blob), NEW rs \in Inserts
  PROVE  InsertAccepts(Stored(rs)) <=> Keyed(schema.pk, Over(rows, NewRows(rs)))
<1>1. PICK k : k = schema.pk
  OBVIOUS
<1>2. CASE k = 0
  BY <1>1, <1>2 DEF InsertAccepts, Keyed
<1>3. CASE k # 0
  <2>1. k \in Cols /\ k \in KeptBy(schema)
    BY <1>1, <1>3, StoredIsTable DEF KeptBy
  <2>2. \A v : v # Null => IndexRowids(k, v) = {i \in DOMAIN rows : rows[i][k] = v}
    BY <2>1, LookupFinds DEF Exact
  <2>3. PICK a : a = NewRows(rs)
    OBVIOUS
  <2>4. PICK st : st = Stored(rs)
    OBVIOUS
  <2>5. PICK n \in Nat : n = Len(rs)
    BY NewRowsAre
  <2>6. /\ \A i \in DOMAIN a : i - seq + 1 \in 1..n /\ a[i] = st[i - seq + 1]
        /\ \A j \in 1..n : seq + j - 1 \in DOMAIN a /\ a[seq + j - 1] = st[j]
        /\ DOMAIN rows \cap DOMAIN a = {}
    BY <2>3, <2>4, <2>5, NewRowsAre
  <2>7. PICK m : m = Over(rows, a)
    OBVIOUS
  <2>8. /\ DOMAIN m = DOMAIN rows \cup DOMAIN a
        /\ \A i \in DOMAIN rows : m[i] = rows[i]
        /\ \A i \in DOMAIN a : m[i] = a[i]
    BY <2>6, <2>7 DEF Over
  <2>9. Len(st) = n
    <3>1. st = [j \in 1..n |-> [c \in Cols |-> Store(rs[j][c])]]
      BY <2>4, <2>5 DEF Stored
    <3> QED
      BY <3>1
  <2>10. PICK q \in Nat : q = seq
    BY StoredIsTable
  <2>11. \A i \in DOMAIN a : i \in Nat
    BY <2>3, NewRowsAre DEF IsTable
  <2>12. /\ \A i \in DOMAIN rows : rows[i][k] # Null
         /\ \A i, j \in DOMAIN rows : rows[i][k] = rows[j][k] => i = j
    BY <1>1, <1>3 DEF Exact, Keyed
  <2> DEFINE Ok == /\ \A j \in 1..n : st[j][k] # Null /\ IndexRowids(k, st[j][k]) = {}
                   /\ \A j, l \in 1..n : st[j][k] = st[l][k] => j = l
  <2>13. ASSUME Ok PROVE Keyed(k, m)
    <3>1. \A i \in DOMAIN a : a[i][k] # Null
      BY <2>6, <2>13
    <3>2. ASSUME NEW i \in DOMAIN a, NEW j \in DOMAIN a, a[i][k] = a[j][k] PROVE i = j
      <4>1. i - q + 1 \in 1..n /\ j - q + 1 \in 1..n /\ st[i - q + 1][k] = st[j - q + 1][k]
        BY <2>6, <2>10, <3>2
      <4>2. i - q + 1 = j - q + 1
        BY <2>13, <4>1
      <4> QED
        BY <2>10, <2>11, <4>2
    <3>3. ASSUME NEW i \in DOMAIN rows, NEW j \in DOMAIN a PROVE rows[i][k] # a[j][k]
      <4>1. PICK l \in 1..n : a[j] = st[l]
        BY <2>6
      <4>2. {h \in DOMAIN rows : rows[h][k] = st[l][k]} = {}
        BY <2>2, <2>13
      <4> QED
        BY <4>1, <4>2
    <3>4. \A i \in DOMAIN m : m[i][k] # Null
      BY <2>8, <2>12, <3>1
    <3>5. ASSUME NEW i \in DOMAIN m, NEW j \in DOMAIN m, m[i][k] = m[j][k] PROVE i = j
      <4>1. CASE i \in DOMAIN rows /\ j \in DOMAIN rows
        BY <2>8, <2>12, <3>5, <4>1
      <4>2. CASE i \in DOMAIN a /\ j \in DOMAIN a
        BY <2>8, <3>2, <3>5, <4>2
      <4>3. CASE i \in DOMAIN rows /\ j \in DOMAIN a
        BY <2>8, <3>3, <3>5, <4>3
      <4>4. CASE i \in DOMAIN a /\ j \in DOMAIN rows
        BY <2>8, <3>3, <3>5, <4>4
      <4> QED
        BY <2>8, <4>1, <4>2, <4>3, <4>4
    <3> QED
      BY <3>4, <3>5 DEF Keyed
  <2>14. ASSUME Keyed(k, m) PROVE Ok
    <3>1. /\ \A i \in DOMAIN m : m[i][k] # Null
          /\ \A i, j \in DOMAIN m : m[i][k] = m[j][k] => i = j
      BY <1>3, <2>14 DEF Keyed
    <3>2. \A j \in 1..n : q + j - 1 \in DOMAIN a /\ q + j - 1 \in DOMAIN m /\ m[q + j - 1] = st[j]
      BY <2>6, <2>8, <2>10
    <3>3. ASSUME NEW j \in 1..n PROVE st[j][k] # Null /\ IndexRowids(k, st[j][k]) = {}
      <4>1. st[j][k] # Null
        BY <3>1, <3>2
      <4>2. ASSUME NEW i \in DOMAIN rows, rows[i][k] = st[j][k] PROVE FALSE
        <5>1. i \in DOMAIN m /\ m[i][k] = m[q + j - 1][k]
          BY <2>8, <3>2, <4>2
        <5>2. i = q + j - 1
          BY <3>1, <3>2, <5>1
        <5> QED
          BY <2>6, <3>2, <5>2
      <4> QED
        BY <2>2, <4>1, <4>2
    <3>4. ASSUME NEW j \in 1..n, NEW l \in 1..n, st[j][k] = st[l][k] PROVE j = l
      <4>1. q + j - 1 = q + l - 1
        BY <3>1, <3>2, <3>4
      <4> QED
        BY <2>10, <4>1
    <3> QED
      BY <3>3, <3>4
  <2>15. InsertAccepts(st) <=> Ok
    BY <1>1, <1>3, <2>9 DEF InsertAccepts
  <2>16. InsertAccepts(st) <=> Keyed(k, m)
    BY <2>13, <2>14, <2>15
  <2> QED
    BY <1>1, <2>3, <2>4, <2>7, <2>16
<1> QED
  BY <1>2, <1>3

(* A statement that changes rows: the next state of each part.             *)
LEMMA RowsStep ==
  ASSUME Exact(schema, rows, seq, index, blob), schema' = schema,
         NEW m, rows' = m, seq' \in 0..MaxInserts, RowsUpTo(m, seq'),
         Keyed(schema.pk, m), index' = IndexOf(m, KeptBy(schema)), BlobsOf(schema, m, blob')
  PROVE  IInv'
<1>1. PICK n, x, b : n = seq' /\ x = index' /\ b = blob'
  OBVIOUS
<1>2. Exact(schema, m, n, x, b)
  BY <1>1 DEF Exact
<1>3. Exact(schema', rows', seq', index', blob')
  BY <1>1, <1>2
<1> QED
  BY <1>3 DEF IInv

(* The blob of a ranged column is what load_range_index reads.             *)
LEMMA RangedIsLoaded ==
  ASSUME Exact(schema, rows, seq, index, blob), NEW c \in schema.ranged
  PROVE  /\ c \in Cols /\ LoadRange(c) = blob[c]
         /\ LoadRange(c) \in Seq(Pairs) /\ Lists(LoadRange(c), EntrySet(rows, c))
         /\ Enumerates(LoadRange(c), EntrySet(rows, c))
<1>1. c \in Cols
  BY StoredIsTable
<1>2. blob[c] \in Seq(Pairs) /\ Lists(blob[c], EntrySet(rows, c))
  BY <1>1 DEF Exact, BlobsOf
<1>3. LoadRange(c) = blob[c]
  BY <1>2 DEF Lists, LoadRange
<1> QED
  BY <1>1, <1>2, <1>3, ListsEnumerate

(* INSERT: new rows, their entries in every index, sorted blobs.           *)
LEMMA InsertKeeps ==
  ASSUME IInv, NEW rs \in Inserts, Insert(rs)
  PROVE  IInv'
<1>1. Exact(schema, rows, seq, index, blob)
  BY TableIsExact DEF Insert
<1>2. PICK a : a = NewRows(rs)
  OBVIOUS
<1>3. PICK m : m = Over(rows, a)
  OBVIOUS
<1>4. rows' = m /\ schema' = schema
  BY <1>2, <1>3 DEF Insert, Over, NewRows
<1>5. PICK n \in Nat : n = Len(rs)
  BY <1>1, NewRowsAre
<1>6. PICK q \in Nat : q = seq
  BY <1>1, StoredIsTable
<1>7. seq' = q + n /\ q + n <= MaxInserts
  BY <1>5, <1>6 DEF Insert
<1>8. /\ DOMAIN rows \cap DOMAIN a = {} /\ IsTable(a) /\ DOMAIN a = q..(q + n - 1)
      /\ \A i \in DOMAIN a : a[i] \in RowsOf
  BY <1>1, <1>2, <1>5, <1>6, NewRowsAre
<1>9. RowsUpTo(m, seq')
  <2>1. /\ m = [i \in DOMAIN m |-> m[i]] /\ DOMAIN m = DOMAIN rows \cup DOMAIN a
        /\ \A i \in DOMAIN rows : m[i] = rows[i]
        /\ \A i \in DOMAIN a : m[i] = a[i]
    BY <1>3, <1>8 DEF Over
  <2>2. \A i \in DOMAIN rows : i \in 0..(q + n - 1)
    BY <1>1, <1>6, StoredIsTable
  <2>3. \A i \in DOMAIN a : i \in 0..(q + n - 1)
    BY <1>8
  <2>4. \A i \in DOMAIN m : m[i] \in RowsOf
    BY <1>1, <1>8, <2>1, StoredIsTable
  <2> QED
    BY <1>7, <2>1, <2>2, <2>3, <2>4 DEF RowsUpTo
<1>10. seq' \in 0..MaxInserts
  BY <1>7, MaxInsertsIsNat
<1>11. Keyed(schema.pk, m)
  BY <1>1, <1>2, <1>3, InsertIsKeyed DEF Insert
<1>12. index' = IndexOf(m, KeptBy(schema))
  <2>1. index' = index \cup IndexOf(a, Maintained)
    BY <1>2 DEF Insert, NewRows
  <2>2. IndexOf(m, KeptBy(schema)) = IndexOf(rows, KeptBy(schema)) \cup IndexOf(a, KeptBy(schema))
    BY <1>3, <1>8, OverEntries
  <2> QED
    BY <1>1, <2>1, <2>2, StoredIsTable DEF Exact
<1>13. BlobsOf(schema, m, blob')
  <2>1. blob' = [c \in Cols |-> IF c \in schema.ranged
                                THEN SortEntries(LoadRange(c) \o Entries(a, c))
                                ELSE blob[c]]
    BY <1>2 DEF Insert, NewRows
  <2>2. ASSUME NEW c \in Cols, c \in schema.ranged
        PROVE  blob'[c] \in Seq(Pairs) /\ Lists(blob'[c], EntrySet(m, c))
    <3>1. Enumerates(LoadRange(c), EntrySet(rows, c))
      BY <1>1, <2>2, RangedIsLoaded
    <3>2. Enumerates(Entries(a, c), EntrySet(a, c))
      BY <1>8, EntriesEnumerate
    <3>3. /\ EntrySet(rows, c) \cap EntrySet(a, c) = {}
          /\ EntrySet(m, c) = EntrySet(rows, c) \cup EntrySet(a, c)
      BY <1>3, <1>8, OverEntries
    <3>4. Enumerates(LoadRange(c) \o Entries(a, c), EntrySet(m, c))
      BY <3>1, <3>2, <3>3, JoinedEnumerate
    <3>5. blob'[c] = SortEntries(LoadRange(c) \o Entries(a, c))
      BY <2>1, <2>2
    <3> QED
      BY <3>4, <3>5, SortedLists
  <2>3. ASSUME NEW c \in Cols, c \notin schema.ranged PROVE blob'[c] = NoBlob
    BY <1>1, <2>1, <2>3 DEF Exact, BlobsOf
  <2>4. blob' \in [Cols -> Seq(Pairs) \cup {NoBlob}]
    <3>1. \A c \in Cols : blob'[c] \in Seq(Pairs) \cup {NoBlob}
      BY <2>2, <2>3
    <3> QED
      BY <2>1, <3>1
  <2> QED
    BY <2>2, <2>3, <2>4 DEF BlobsOf
<1> QED
  BY <1>1, <1>4, <1>9, <1>10, <1>11, <1>12, <1>13, RowsStep

-----------------------------------------------------------------------------
(* One column of table m, that of table t with new cells in the rows D.    *)
Replaces(m, t, c, D, new, old) ==
  /\ DOMAIN m = DOMAIN t /\ D \subseteq DOMAIN t /\ DOMAIN new = D
  /\ \A i \in D : m[i][c] = new[i][c]
  /\ \A i \in DOMAIN t \ D : m[i][c] = t[i][c]
  /\ old = [i \in D |-> t[i]]

(* The range entries of such a column that stay, and those that come.      *)
LEMMA ReplacedEntries ==
  ASSUME NEW t, IsTable(t), NEW m, NEW c \in Cols, NEW D, NEW new, NEW old,
         Replaces(m, t, c, D, new, old)
  PROVE  /\ EntrySet(m, c) = {e \in EntrySet(t, c) : ~Gone(e, c, old)} \cup EntrySet(new, c)
         /\ {e \in EntrySet(t, c) : ~Gone(e, c, old)} \cap EntrySet(new, c) = {}
<1>0. /\ DOMAIN m = DOMAIN t /\ D \subseteq DOMAIN t /\ DOMAIN new = D
      /\ \A i \in D : m[i][c] = new[i][c]
      /\ \A i \in DOMAIN t \ D : m[i][c] = t[i][c]
      /\ old = [i \in D |-> t[i]]
  BY DEF Replaces
<1>1. ASSUME NEW i \in DOMAIN t, t[i][c] # Null
      PROVE  Gone(<<t[i][c], i>>, c, old) <=> i \in D
  <2>1. t[i][c] \in Cells
    BY DEF IsTable
  <2>2. Same(t[i][c], t[i][c])
    BY <2>1, SameIsEqual
  <2> QED
    BY <1>0, <2>2 DEF Gone
<1>2. {e \in EntrySet(t, c) : ~Gone(e, c, old)} =
        {<<t[i][c], i>> : i \in {j \in DOMAIN t : t[j][c] # Null /\ j \notin D}}
  BY <1>0, <1>1 DEF EntrySet
<1>3. EntrySet(new, c) = {<<new[i][c], i>> : i \in {j \in D : new[j][c] # Null}}
  BY <1>0 DEF EntrySet
<1>4. EntrySet(m, c) = {<<m[i][c], i>> : i \in {j \in DOMAIN t : m[j][c] # Null}}
  BY <1>0 DEF EntrySet
<1>5. \A e \in EntrySet(m, c) :
        e \in {<<t[i][c], i>> : i \in {j \in DOMAIN t : t[j][c] # Null /\ j \notin D}}
                \cup {<<new[i][c], i>> : i \in {j \in D : new[j][c] # Null}}
  <2> SUFFICES ASSUME NEW i \in DOMAIN t, m[i][c] # Null
               PROVE  <<m[i][c], i>> \in
                        {<<t[j][c], j>> : j \in {h \in DOMAIN t : t[h][c] # Null /\ h \notin D}}
                          \cup {<<new[j][c], j>> : j \in {h \in D : new[h][c] # Null}}
    BY <1>4
  <2>1. CASE i \in D
    BY <1>0, <2>1
  <2>2. CASE i \notin D
    BY <1>0, <2>2
  <2> QED
    BY <2>1, <2>2
<1>6. \A i \in DOMAIN t : t[i][c] # Null /\ i \notin D => <<t[i][c], i>> \in EntrySet(m, c)
  BY <1>0, <1>4
<1>7. \A i \in D : new[i][c] # Null => <<new[i][c], i>> \in EntrySet(m, c)
  BY <1>0, <1>4
<1>8. EntrySet(m, c) = {e \in EntrySet(t, c) : ~Gone(e, c, old)} \cup EntrySet(new, c)
  BY <1>2, <1>3, <1>5, <1>6, <1>7
<1>9. {e \in EntrySet(t, c) : ~Gone(e, c, old)} \cap EntrySet(new, c) = {}
  BY <1>0, <1>2, <1>3
<1> QED
  BY <1>8, <1>9

(* The rows after an UPDATE.                                               *)
Changed(set, changed) ==
  [i \in DOMAIN rows |-> IF i \in changed THEN Assigned(set, rows[i]) ELSE rows[i]]

(* A row after an assignment: its cells are of their columns' types.       *)
LEMMA ChangedRows ==
  ASSUME Exact(schema, rows, seq, index, blob), NEW set \in Assignments,
         NEW changed \in SUBSET (DOMAIN rows)
  PROVE  /\ DOMAIN Changed(set, changed) = DOMAIN rows
         /\ Changed(set, changed) \in [DOMAIN rows -> RowsOf]
         /\ \A i \in changed : Changed(set, changed)[i] = Assigned(set, rows[i])
         /\ \A i \in DOMAIN rows \ changed : Changed(set, changed)[i] = rows[i]
         /\ \A i \in changed : Assigned(set, rows[i]) \in RowsOf
<1>1. \A i \in DOMAIN rows : rows[i] \in RowsOf
  BY StoredIsTable
<1>2. ASSUME NEW i \in DOMAIN rows PROVE Assigned(set, rows[i]) \in RowsOf
  <2>1. \A c \in DOMAIN set : Store(set[c]) \in Cells
    BY AssignmentsAreCells, CellsAre
  <2>2. \A c \in Cols : rows[i][c] \in Cells
    BY <1>1 DEF RowsOf
  <2> QED
    BY <2>1, <2>2 DEF Assigned, RowsOf
<1> QED
  BY <1>1, <1>2 DEF Changed

(* The cells of a column that differ, by PartialEq, are the ones an UPDATE *)
(* changes: every other cell is what it was.                               *)
LEMMA DiffersAre ==
  ASSUME Exact(schema, rows, seq, index, blob), NEW set \in Assignments,
         NEW changed \in SUBSET (DOMAIN rows), NEW c \in Cols
  PROVE  /\ Differs(set, c, changed) \in SUBSET (DOMAIN rows)
         /\ DOMAIN News(set, c, changed) = Differs(set, c, changed)
         /\ \A i \in Differs(set, c, changed) :
              Changed(set, changed)[i][c] = News(set, c, changed)[i][c]
         /\ \A i \in DOMAIN rows \ Differs(set, c, changed) :
              Changed(set, changed)[i][c] = rows[i][c]
         /\ Olds(set, c, changed) = [i \in Differs(set, c, changed) |-> rows[i]]
         /\ IsTable(News(set, c, changed))
<1>1. PICK D : D = Differs(set, c, changed)
  OBVIOUS
<1>2. PICK m : m = Changed(set, changed)
  OBVIOUS
<1>3. PICK new : new = News(set, c, changed)
  OBVIOUS
<1>4. D = {i \in changed : ~ Same(rows[i][c], Assigned(set, rows[i])[c])}
  BY <1>1 DEF Differs
<1>5. new = [i \in D |-> Assigned(set, rows[i])]
  BY <1>1, <1>3 DEF News
<1>6. /\ \A i \in changed : m[i] = Assigned(set, rows[i])
      /\ \A i \in DOMAIN rows \ changed : m[i] = rows[i]
      /\ \A i \in changed : Assigned(set, rows[i]) \in RowsOf
  BY <1>2, ChangedRows
<1>7. \A i \in D : m[i][c] = new[i][c]
  BY <1>4, <1>5, <1>6
<1>8. ASSUME NEW i \in DOMAIN rows \ D PROVE m[i][c] = rows[i][c]
  <2>1. CASE i \in changed
    <3>1. Same(rows[i][c], m[i][c])
      BY <1>4, <1>6, <1>8, <2>1
    <3>2. rows[i][c] \in Cells
      BY StoredIsTable DEF IsTable
    <3>3. m[i][c] \in Cells
      BY <1>6, <2>1 DEF RowsOf
    <3> QED
      BY <3>1, <3>2, <3>3, SameIsEqual
  <2>2. CASE i \notin changed
    BY <1>6, <2>2
  <2> QED
    BY <2>1, <2>2
<1>9. IsTable(new)
  <2>1. D \subseteq DOMAIN rows /\ IsTable(rows)
    BY <1>4, StoredIsTable
  <2>2. IsFiniteSet(D) /\ D \subseteq Nat
    BY <2>1, FS_Subset DEF IsTable
  <2>3. \A i \in D : \A d \in Cols : new[i][d] \in Cells
    BY <1>4, <1>5, <1>6 DEF RowsOf
  <2> QED
    BY <1>5, <2>2, <2>3 DEF IsTable
<1>10. D \in SUBSET (DOMAIN rows) /\ DOMAIN new = D
  BY <1>4, <1>5
<1>11. Olds(set, c, changed) = [i \in D |-> rows[i]]
  BY <1>1 DEF Olds
<1> QED
  BY <1>1, <1>2, <1>3, <1>7, <1>8, <1>9, <1>10, <1>11

(* UPDATE's maintenance of the equality index: the old entries of the      *)
(* changed cells go, the new ones come, NULLs have none.                   *)
LEMMA UpdatedIndexIs ==
  ASSUME Exact(schema, rows, seq, index, blob), NEW set \in Assignments,
         NEW changed \in SUBSET (DOMAIN rows)
  PROVE  UpdatedIndex(set, changed) = IndexOf(Changed(set, changed), KeptBy(schema))
<1>1. PICK m : m = Changed(set, changed)
  OBVIOUS
<1>2. DOMAIN m = DOMAIN rows
  BY <1>1, ChangedRows
<1>3. PICK K : K = KeptBy(schema)
  OBVIOUS
<1>4. K \subseteq Cols /\ Maintained = K /\ index = IndexOf(rows, K)
  BY <1>3, StoredIsTable DEF Exact
<1>5. PICK D : D = [c \in K |-> Differs(set, c, changed)]
  OBVIOUS
<1>6. /\ \A c \in K : D[c] \in SUBSET (DOMAIN rows)
      /\ \A c \in K : \A i \in D[c] : m[i][c] = News(set, c, changed)[i][c]
      /\ \A c \in K : \A i \in DOMAIN rows \ D[c] : m[i][c] = rows[i][c]
      /\ \A c \in K : DOMAIN News(set, c, changed) = D[c]
      /\ \A c \in K : Olds(set, c, changed) = [i \in D[c] |-> rows[i]]
  BY <1>1, <1>4, <1>5, DiffersAre
<1>7. \A e : e \in UNION {IndexOf(Olds(set, c, changed), {c}) : c \in K} <=>
             \E c \in K : \E i \in D[c] : rows[i][c] # Null /\ e = <<c, rows[i][c], i>>
  <2>1. ASSUME NEW c \in K, NEW e
        PROVE  e \in IndexOf(Olds(set, c, changed), {c}) <=>
                 \E i \in D[c] : rows[i][c] # Null /\ e = <<c, rows[i][c], i>>
    <3>1. PICK old : old = Olds(set, c, changed)
      OBVIOUS
    <3>2. DOMAIN old = D[c] /\ \A i \in D[c] : old[i] = rows[i]
      BY <1>6, <3>1
    <3>3. e \in IndexOf(old, {c}) <=>
            \E i \in DOMAIN old : old[i][c] # Null /\ e = <<c, old[i][c], i>>
      BY IndexOfHas
    <3> QED
      BY <3>1, <3>2, <3>3
  <2>2. \A e : e \in UNION {IndexOf(Olds(set, c, changed), {c}) : c \in K} <=>
               \E c \in K : e \in IndexOf(Olds(set, c, changed), {c})
    BY Zenon
  <2>3. ASSUME NEW e
        PROVE  (\E c \in K : e \in IndexOf(Olds(set, c, changed), {c})) <=>
                 \E c \in K : \E i \in D[c] : rows[i][c] # Null /\ e = <<c, rows[i][c], i>>
    BY <2>1
  <2> QED
    BY <2>2, <2>3
<1>8. \A e : e \in UNION {IndexOf(News(set, c, changed), {c}) : c \in K} <=>
             \E c \in K : \E i \in D[c] : m[i][c] # Null /\ e = <<c, m[i][c], i>>
  <2>1. ASSUME NEW c \in K, NEW e
        PROVE  e \in IndexOf(News(set, c, changed), {c}) <=>
                 \E i \in D[c] : m[i][c] # Null /\ e = <<c, m[i][c], i>>
    <3>1. PICK new : new = News(set, c, changed)
      OBVIOUS
    <3>2. DOMAIN new = D[c] /\ \A i \in D[c] : new[i][c] = m[i][c]
      BY <1>6, <3>1
    <3>3. e \in IndexOf(new, {c}) <=>
            \E i \in DOMAIN new : new[i][c] # Null /\ e = <<c, new[i][c], i>>
      BY IndexOfHas
    <3> QED
      BY <3>1, <3>2, <3>3
  <2>2. \A e : e \in UNION {IndexOf(News(set, c, changed), {c}) : c \in K} <=>
               \E c \in K : e \in IndexOf(News(set, c, changed), {c})
    BY Zenon
  <2>3. ASSUME NEW e
        PROVE  (\E c \in K : e \in IndexOf(News(set, c, changed), {c})) <=>
                 \E c \in K : \E i \in D[c] : m[i][c] # Null /\ e = <<c, m[i][c], i>>
    BY <2>1
  <2> QED
    BY <2>2, <2>3
<1>9. PICK go : go = UNION {IndexOf(Olds(set, c, changed), {c}) : c \in K}
  OBVIOUS
<1>10. PICK come : come = UNION {IndexOf(News(set, c, changed), {c}) : c \in K}
  OBVIOUS
<1>11. UpdatedIndex(set, changed) = (index \ go) \cup come
  BY <1>4, <1>9, <1>10 DEF UpdatedIndex
<1>12. ASSUME NEW e \in index \ go PROVE e \in IndexOf(m, K)
  <2>1. PICK c \in K, i \in DOMAIN rows : rows[i][c] # Null /\ e = <<c, rows[i][c], i>>
    BY <1>4, <1>12, IndexOfHas
  <2>2. i \notin D[c]
    BY <1>7, <1>9, <1>12, <2>1
  <2>3. m[i][c] = rows[i][c]
    BY <1>6, <2>2
  <2> QED
    BY <1>2, <2>1, <2>3, IndexOfHas
<1>13. ASSUME NEW e \in come PROVE e \in IndexOf(m, K)
  <2>0. PICK c \in K : \E j \in D[c] : m[j][c] # Null /\ e = <<c, m[j][c], j>>
    BY <1>8, <1>10, <1>13
  <2>1. PICK i \in D[c] : m[i][c] # Null /\ e = <<c, m[i][c], i>>
    BY <2>0
  <2>2. i \in DOMAIN m
    BY <1>2, <1>6, <2>1
  <2> QED
    BY <2>1, <2>2, IndexOfHas
<1>14. ASSUME NEW e \in IndexOf(m, K) PROVE e \in (index \ go) \cup come
  <2>1. PICK c \in K, i \in DOMAIN m : m[i][c] # Null /\ e = <<c, m[i][c], i>>
    BY <1>14, IndexOfHas
  <2>2. CASE i \in D[c]
    BY <1>8, <1>10, <2>1, <2>2
  <2>3. CASE i \notin D[c]
    <3>1. m[i][c] = rows[i][c] /\ i \in DOMAIN rows
      BY <1>2, <1>6, <2>1, <2>3
    <3>2. e \in index
      BY <1>4, <2>1, <3>1, IndexOfHas
    <3>3. e \notin go
      <4> SUFFICES ASSUME e \in go PROVE FALSE
        OBVIOUS
      <4>0. PICK d \in K : \E h \in D[d] : rows[h][d] # Null /\ e = <<d, rows[h][d], h>>
        BY <1>7, <1>9
      <4>1. PICK j \in D[d] : rows[j][d] # Null /\ e = <<d, rows[j][d], j>>
        BY <4>0
      <4>2. d = c /\ j = i
        BY <2>1, <4>1
      <4> QED
        BY <2>3, <4>1, <4>2
    <3> QED
      BY <3>2, <3>3
  <2> QED
    BY <2>2, <2>3
<1>15. IndexOf(m, K) = (index \ go) \cup come
  BY <1>12, <1>13, <1>14
<1> QED
  BY <1>1, <1>3, <1>11, <1>15

(* Two rows of a statement that may change at most one.                    *)
LEMMA AtMostOne ==
  ASSUME NEW S, IsFiniteSet(S), Cardinality(S) <= 1, NEW i \in S, NEW j \in S
  PROVE  i = j
<1> SUFFICES ASSUME i # j PROVE FALSE
  OBVIOUS
<1>1. IsFiniteSet({i}) /\ Cardinality({i}) = 1
  BY FS_Singleton
<1>2. IsFiniteSet({i} \cup {j}) /\ Cardinality({i} \cup {j}) = 2
  <2>1. PICK T : T = {i}
    OBVIOUS
  <2>2. IsFiniteSet(T) /\ Cardinality(T) = 1 /\ j \notin T
    BY <1>1, <2>1
  <2>3. IsFiniteSet(T \cup {j}) /\ Cardinality(T \cup {j}) = Cardinality(T) + 1
    BY <2>2, FS_AddElement
  <2> QED
    BY <2>1, <2>2, <2>3
<1>3. ({i} \cup {j}) \in SUBSET S
  OBVIOUS
<1>4. Cardinality({i} \cup {j}) <= Cardinality(S)
  BY <1>3, FS_Subset
<1>5. Cardinality(S) \in Nat
  BY FS_CardinalityType
<1> QED
  BY <1>2, <1>4, <1>5

(* UPDATE's validation accepts exactly the assignments after which the key *)
(* is unique and not NULL: it looks for other holders of the new key in    *)
(* the index, before the rows change.                                      *)
LEMMA UpdateIsKeyed ==
  ASSUME Exact(schema, rows, seq, index, blob), NEW set \in Assignments,
         NEW changed \in SUBSET (DOMAIN rows), changed # {}
  PROVE  UpdateAccepts(set, changed) <=> Keyed(schema.pk, Changed(set, changed))
<1>1. PICK k : k = schema.pk
  OBVIOUS
<1>2. PICK m : m = Changed(set, changed)
  OBVIOUS
<1>3. /\ DOMAIN m = DOMAIN rows
      /\ \A i \in changed : m[i] = Assigned(set, rows[i])
      /\ \A i \in DOMAIN rows \ changed : m[i] = rows[i]
  BY <1>2, ChangedRows
<1>4. k \in Cols \cup {0} /\ DOMAIN set \subseteq Cols /\ 0 \notin Cols
  BY <1>1, StoredIsTable, AssignmentsAreCells, ColsArePositions
<1>5. Keyed(k, rows)
  BY <1>1 DEF Exact
<1>6. CASE k \notin DOMAIN set
  <2>1. UpdateAccepts(set, changed)
    BY <1>1, <1>6 DEF UpdateAccepts
  <2>2. ASSUME NEW i \in DOMAIN rows, k # 0 PROVE m[i][k] = rows[i][k]
    <3>1. k \in Cols
      BY <1>4, <2>2
    <3>2. Assigned(set, rows[i])[k] = rows[i][k]
      BY <1>6, <3>1 DEF Assigned
    <3>3. m[i] = Assigned(set, rows[i]) \/ m[i] = rows[i]
      BY <1>3
    <3> QED
      BY <3>2, <3>3
  <2>3. Keyed(k, m)
    BY <1>3, <1>5, <2>2 DEF Keyed
  <2> QED
    BY <1>1, <1>2, <2>1, <2>3
<1>7. CASE k \in DOMAIN set
  <2>1. k \in Cols /\ k # 0 /\ k \in KeptBy(schema)
    BY <1>1, <1>4, <1>7 DEF KeptBy
  <2>2. PICK v : v = Store(set[k])
    OBVIOUS
  <2>3. \A i \in changed : m[i][k] = v
    BY <1>3, <1>7, <2>1, <2>2 DEF Assigned
  <2>4. v # Null => IndexRowids(k, v) = {i \in DOMAIN rows : rows[i][k] = v}
    BY <2>1, LookupFinds DEF Exact
  <2>5. UpdateAccepts(set, changed) <=>
          /\ v # Null
          /\ Cardinality(changed) <= 1
          /\ \A i \in changed : IndexRowids(k, v) \subseteq {i}
    BY <1>1, <1>7, <2>2 DEF UpdateAccepts
  <2>6. IsFiniteSet(changed)
    BY StoredIsTable, FS_Subset DEF IsTable
  <2>7. PICK h \in changed : TRUE
    OBVIOUS
  <2>8. ASSUME UpdateAccepts(set, changed) PROVE Keyed(k, m)
    <3>1. \A i \in changed : i = h
      BY <2>5, <2>6, <2>7, <2>8, AtMostOne
    <3>2. \A i \in DOMAIN rows : rows[i][k] = v => i = h
      BY <2>4, <2>5, <2>7, <2>8
    <3>3. \A i \in DOMAIN rows : i # h => m[i] = rows[i] /\ rows[i][k] # v
      BY <1>3, <3>1, <3>2
    <3>4. m[h][k] = v /\ v # Null
      BY <2>3, <2>5, <2>7, <2>8
    <3>5. \A i \in DOMAIN m : m[i][k] # Null
      BY <1>3, <1>5, <2>1, <3>3, <3>4 DEF Keyed
    <3>6. \A i, j \in DOMAIN m : m[i][k] = m[j][k] => i = j
      BY <1>3, <1>5, <2>1, <3>3, <3>4 DEF Keyed
    <3> QED
      BY <3>5, <3>6 DEF Keyed
  <2>9. ASSUME Keyed(k, m) PROVE UpdateAccepts(set, changed)
    <3>1. /\ \A i \in DOMAIN rows : m[i][k] # Null
          /\ \A i, j \in DOMAIN rows : m[i][k] = m[j][k] => i = j
      BY <1>3, <2>1, <2>9 DEF Keyed
    <3>2. v # Null
      BY <2>3, <2>7, <3>1
    <3>3. \A i \in changed : i = h
      BY <2>3, <2>7, <3>1
    <3>4. changed = {h}
      BY <2>7, <3>3
    <3>5. Cardinality(changed) = 1
      BY <3>4, FS_Singleton
    <3>6. ASSUME NEW i \in DOMAIN rows, rows[i][k] = v PROVE i = h
      <4> SUFFICES ASSUME i # h PROVE FALSE
        OBVIOUS
      <4>1. m[i] = rows[i]
        BY <1>3, <3>3
      <4>2. m[i][k] = m[h][k]
        BY <2>3, <2>7, <3>6, <4>1
      <4> QED
        BY <2>7, <3>1, <4>2
    <3>7. \A i \in changed : IndexRowids(k, v) \subseteq {i}
      BY <2>4, <3>2, <3>3, <3>6
    <3> QED
      BY <2>5, <3>2, <3>5, <3>7
  <2> QED
    BY <1>1, <1>2, <2>8, <2>9
<1> QED
  BY <1>6, <1>7

(* The rows of a clause are rows of the table.                             *)
LEMMA SelectedAreRows ==
  ASSUME Exact(schema, rows, seq, index, blob), NEW p \in Clauses, Selected(p) # {}
  PROVE  /\ Selected(p) = {i \in DOMAIN rows : Matches(p, rows[i])}
         /\ Selected(p) \in SUBSET (DOMAIN rows)
<1>1. IsClause(p)
  BY ClausesAreClauses
<1> QED
  BY <1>1, SelectedIsScan

(* UPDATE: every index follows the cells that change.                      *)
LEMMA UpdateKeeps ==
  ASSUME IInv, NEW set \in Assignments, NEW p \in Clauses, Update(set, p)
  PROVE  IInv'
<1>1. Exact(schema, rows, seq, index, blob)
  BY TableIsExact DEF Update
<1>2. PICK changed : changed = Selected(p)
  OBVIOUS
<1>3. changed \in SUBSET (DOMAIN rows) /\ changed # {}
  BY <1>1, <1>2, SelectedAreRows DEF Update
<1>4. PICK m : m = Changed(set, changed)
  OBVIOUS
<1>5. rows' = m /\ schema' = schema /\ seq' = seq
  BY <1>2, <1>4 DEF Update, Changed
<1>6. DOMAIN m = DOMAIN rows /\ m \in [DOMAIN rows -> RowsOf]
  BY <1>1, <1>3, <1>4, ChangedRows
<1>7. RowsUpTo(m, seq')
  BY <1>1, <1>5, <1>6 DEF Exact, RowsUpTo
<1>8. seq' \in 0..MaxInserts
  BY <1>1, <1>5 DEF Exact
<1>9. Keyed(schema.pk, m)
  <2>1. UpdateAccepts(set, changed)
    BY <1>2 DEF Update
  <2> QED
    BY <1>1, <1>3, <1>4, <2>1, UpdateIsKeyed
<1>10. index' = IndexOf(m, KeptBy(schema))
  <2>1. index' = UpdatedIndex(set, changed)
    BY <1>2 DEF Update
  <2> QED
    BY <1>1, <1>3, <1>4, <2>1, UpdatedIndexIs
<1>11. BlobsOf(schema, m, blob')
  <2>1. blob' = [c \in Cols |->
              IF c \in schema.ranged /\ Differs(set, c, changed) # {}
              THEN SortEntries(Retained(c, Olds(set, c, changed))
                                 \o Entries(News(set, c, changed), c))
              ELSE blob[c]]
    BY <1>2 DEF Update
  <2>2. ASSUME NEW c \in Cols, c \in schema.ranged
        PROVE  blob'[c] \in Seq(Pairs) /\ Lists(blob'[c], EntrySet(m, c))
    <3>1. PICK D : D = Differs(set, c, changed)
      OBVIOUS
    <3>2. PICK new : new = News(set, c, changed)
      OBVIOUS
    <3>3. PICK old : old = Olds(set, c, changed)
      OBVIOUS
    <3>4. /\ D \in SUBSET (DOMAIN rows) /\ DOMAIN new = D
          /\ \A i \in D : m[i][c] = new[i][c]
          /\ \A i \in DOMAIN rows \ D : m[i][c] = rows[i][c]
          /\ old = [i \in D |-> rows[i]]
          /\ IsTable(new)
      BY <1>1, <1>3, <1>4, <3>1, <3>2, <3>3, DiffersAre
    <3>5. LoadRange(c) \in Seq(Pairs) /\ Lists(LoadRange(c), EntrySet(rows, c)) /\ LoadRange(c) = blob[c]
      BY <1>1, <2>2, RangedIsLoaded
    <3>6. CASE D # {}
      <4>1. PICK stay : stay = {e \in EntrySet(rows, c) : ~Gone(e, c, old)}
        OBVIOUS
      <4>2. EntrySet(m, c) = stay \cup EntrySet(new, c) /\ stay \cap EntrySet(new, c) = {}
        <5>1. IsTable(rows)
          BY <1>1, StoredIsTable
        <5>2. Replaces(m, rows, c, D, new, old)
          BY <1>6, <3>4, Zenon DEF Replaces
        <5> QED
          BY <4>1, <5>1, <5>2, ReplacedEntries
      <4>3. Retained(c, old) \in Seq(Pairs) /\ Lists(Retained(c, old), stay)
        BY <3>5, <4>1, RetainedLists
      <4>4. Enumerates(Retained(c, old), stay)
        BY <4>3, ListsEnumerate
      <4>5. Enumerates(Entries(new, c), EntrySet(new, c))
        BY <3>4, EntriesEnumerate
      <4>6. Enumerates(Retained(c, old) \o Entries(new, c), EntrySet(m, c))
        BY <4>2, <4>4, <4>5, JoinedEnumerate
      <4>7. blob'[c] = SortEntries(Retained(c, old) \o Entries(new, c))
        BY <2>1, <2>2, <3>1, <3>2, <3>3, <3>6
      <4> QED
        BY <4>6, <4>7, SortedLists
    <3>7. CASE D = {}
      <4>1. \A i \in DOMAIN rows : m[i][c] = rows[i][c]
        BY <3>4, <3>7
      <4>2. EntrySet(m, c) = EntrySet(rows, c)
        BY <1>6, <4>1 DEF EntrySet
      <4>3. blob'[c] = blob[c]
        BY <2>1, <3>1, <3>7
      <4> QED
        BY <3>5, <4>2, <4>3
    <3> QED
      BY <3>6, <3>7
  <2>3. ASSUME NEW c \in Cols, c \notin schema.ranged PROVE blob'[c] = NoBlob
    BY <1>1, <2>1, <2>3 DEF Exact, BlobsOf
  <2>4. blob' \in [Cols -> Seq(Pairs) \cup {NoBlob}]
    <3>1. \A c \in Cols : blob'[c] \in Seq(Pairs) \cup {NoBlob}
      BY <2>2, <2>3
    <3> QED
      BY <2>1, <3>1
  <2> QED
    BY <2>2, <2>3, <2>4 DEF BlobsOf
<1> QED
  BY <1>1, <1>5, <1>7, <1>8, <1>9, <1>10, <1>11, RowsStep

(* DELETE: the entries of the deleted rows go, and no others.              *)
LEMMA DeleteKeeps ==
  ASSUME IInv, NEW p \in Clauses, Delete(p)
  PROVE  IInv'
<1>1. Exact(schema, rows, seq, index, blob)
  BY TableIsExact DEF Delete
<1>2. PICK D : D = Selected(p)
  OBVIOUS
<1>3. D \in SUBSET (DOMAIN rows)
  BY <1>1, <1>2, SelectedAreRows
<1>4. PICK gone : gone = [i \in D |-> rows[i]]
  OBVIOUS
<1>5. PICK m : m = [i \in DOMAIN rows \ D |-> rows[i]]
  OBVIOUS
<1>6. rows' = m /\ schema' = schema /\ seq' = seq
  BY <1>2, <1>4, <1>5 DEF Delete
<1>7. IsTable(rows) /\ \A i \in DOMAIN rows : rows[i] \in RowsOf
  BY <1>1, StoredIsTable
<1>8. RowsUpTo(m, seq')
  BY <1>1, <1>5, <1>6, <1>7 DEF Exact, RowsUpTo
<1>9. seq' \in 0..MaxInserts
  BY <1>1, <1>6 DEF Exact
<1>10. Keyed(schema.pk, m)
  <2>1. Keyed(schema.pk, rows)
    BY <1>1 DEF Exact
  <2> QED
    BY <1>5, <2>1 DEF Keyed
<1>11. index' = IndexOf(m, KeptBy(schema))
  <2>1. PICK K : K = KeptBy(schema)
    OBVIOUS
  <2>2. index' = IndexOf(rows, K) \ IndexOf(gone, K)
    BY <1>1, <1>2, <1>4, <2>1, StoredIsTable DEF Delete, Exact
  <2>3. ASSUME NEW e \in IndexOf(rows, K) \ IndexOf(gone, K) PROVE e \in IndexOf(m, K)
    <3>1. PICK c \in K, i \in DOMAIN rows : rows[i][c] # Null /\ e = <<c, rows[i][c], i>>
      BY <2>3, IndexOfHas
    <3>2. i \notin D
      BY <1>4, <2>3, <3>1, IndexOfHas
    <3>3. i \in DOMAIN m /\ m[i] = rows[i]
      BY <1>5, <3>2
    <3> QED
      BY <3>1, <3>3, IndexOfHas
  <2>4. ASSUME NEW e \in IndexOf(m, K) PROVE e \in IndexOf(rows, K) \ IndexOf(gone, K)
    <3>1. PICK c \in K, i \in DOMAIN m : m[i][c] # Null /\ e = <<c, m[i][c], i>>
      BY <2>4, IndexOfHas
    <3>2. i \in DOMAIN rows /\ i \notin D /\ m[i] = rows[i]
      BY <1>5, <3>1
    <3>3. e \in IndexOf(rows, K)
      BY <3>1, <3>2, IndexOfHas
    <3>4. e \notin IndexOf(gone, K)
      <4> SUFFICES ASSUME e \in IndexOf(gone, K) PROVE FALSE
        OBVIOUS
      <4>1. PICK d \in K, j \in DOMAIN gone : e = <<d, gone[j][d], j>>
        BY IndexOfHas
      <4> QED
        BY <1>4, <3>1, <3>2, <4>1
    <3> QED
      BY <3>3, <3>4
  <2> QED
    BY <2>1, <2>2, <2>3, <2>4
<1>12. BlobsOf(schema, m, blob')
  <2>1. blob' = [c \in Cols |-> IF c \in schema.ranged /\ Entries(gone, c) # <<>>
                                THEN Retained(c, gone) ELSE blob[c]]
    BY <1>2, <1>4 DEF Delete
  <2>2. IsTable(gone)
    <3>1. IsFiniteSet(D) /\ D \subseteq Nat
      BY <1>3, <1>7, FS_Subset DEF IsTable
    <3> QED
      BY <1>3, <1>4, <1>7, <3>1 DEF IsTable
  <2>3. ASSUME NEW c \in Cols, c \in schema.ranged
        PROVE  blob'[c] \in Seq(Pairs) /\ Lists(blob'[c], EntrySet(m, c))
    <3>1. LoadRange(c) \in Seq(Pairs) /\ Lists(LoadRange(c), EntrySet(rows, c)) /\ LoadRange(c) = blob[c]
      BY <1>1, <2>3, RangedIsLoaded
    <3>2. CASE Entries(gone, c) # <<>>
      <4>1. PICK stay : stay = {e \in EntrySet(rows, c) : ~Gone(e, c, gone)}
        OBVIOUS
      <4>2. ASSUME NEW i \in DOMAIN rows, rows[i][c] # Null
            PROVE  Gone(<<rows[i][c], i>>, c, gone) <=> i \in D
        <5>1. Same(rows[i][c], rows[i][c])
          BY <1>7, SameIsEqual DEF IsTable
        <5> QED
          BY <1>4, <5>1 DEF Gone
      <4>3. EntrySet(m, c) = stay
        BY <1>5, <4>1, <4>2 DEF EntrySet
      <4>4. Retained(c, gone) \in Seq(Pairs) /\ Lists(Retained(c, gone), stay)
        BY <3>1, <4>1, RetainedLists
      <4>5. blob'[c] = Retained(c, gone)
        BY <2>1, <2>3, <3>2
      <4> QED
        BY <4>3, <4>4, <4>5
    <3>3. CASE Entries(gone, c) = <<>>
      <4>1. Enumerates(<<>>, EntrySet(gone, c))
        BY <2>2, <3>3, EntriesEnumerate
      <4>2. EntrySet(gone, c) = {}
        BY <4>1 DEF Enumerates
      <4>3. \A i \in D : rows[i][c] = Null
        BY <1>4, <4>2 DEF EntrySet
      <4>4. EntrySet(m, c) = EntrySet(rows, c)
        BY <1>3, <1>5, <4>3 DEF EntrySet
      <4>5. blob'[c] = blob[c]
        BY <2>1, <3>3
      <4> QED
        BY <3>1, <4>4, <4>5
    <3> QED
      BY <3>2, <3>3
  <2>4. ASSUME NEW c \in Cols, c \notin schema.ranged PROVE blob'[c] = NoBlob
    BY <1>1, <2>1, <2>4 DEF Exact, BlobsOf
  <2>5. blob' \in [Cols -> Seq(Pairs) \cup {NoBlob}]
    <3>1. \A c \in Cols : blob'[c] \in Seq(Pairs) \cup {NoBlob}
      BY <2>3, <2>4
    <3> QED
      BY <2>1, <3>1
  <2> QED
    BY <2>3, <2>4, <2>5 DEF BlobsOf
<1> QED
  BY <1>1, <1>6, <1>8, <1>9, <1>10, <1>11, <1>12, RowsStep

-----------------------------------------------------------------------------
(* The invariant holds in every reachable state.                           *)
LEMMA Invariance == Spec => []IInv
<1>1. Init => IInv
  BY DEF Init, IInv, Absent
<1>2. IInv /\ [Next]_vars => IInv'
  <2> SUFFICES ASSUME IInv, [Next]_vars PROVE IInv'
    OBVIOUS
  <2>1. ASSUME NEW pk \in KeyChoices, CreateTable(pk) PROVE IInv'
    BY <2>1, CreateTableKeeps
  <2>2. CASE DropTable
    BY <2>2, DropTableKeeps
  <2>3. ASSUME NEW c \in Cols, CreateIndex(c) PROVE IInv'
    BY <2>3, CreateIndexKeeps
  <2>4. ASSUME NEW c \in Cols, DropIndex(c) PROVE IInv'
    BY <2>4, DropIndexKeeps
  <2>5. ASSUME NEW c \in Cols, CreateRangeIndex(c) PROVE IInv'
    BY <2>5, CreateRangeIndexKeeps
  <2>6. ASSUME NEW c \in Cols, DropRangeIndex(c) PROVE IInv'
    BY <2>6, DropRangeIndexKeeps
  <2>7. ASSUME NEW rs \in Inserts, Insert(rs) PROVE IInv'
    BY <2>7, InsertKeeps
  <2>8. ASSUME NEW set \in Assignments, NEW p \in Clauses, Update(set, p) PROVE IInv'
    BY <2>8, UpdateKeeps
  <2>9. ASSUME NEW p \in Clauses, Delete(p) PROVE IInv'
    BY <2>9, DeleteKeeps
  <2>10. CASE UNCHANGED vars
    BY <2>10 DEF vars, IInv
  <2> QED
    BY <2>1, <2>2, <2>3, <2>4, <2>5, <2>6, <2>7, <2>8, <2>9, <2>10 DEF Next
<1> QED
  BY <1>1, <1>2, PTL DEF Spec

(* The five key spaces of a table are those of its rows, whatever sequence *)
(* of statements led there: ids below the sequence, cells of their types,  *)
(* a unique key without NULL, equality indexes without a missing or a      *)
(* dangling entry, and range blobs that list the rows in order, each once. *)
THEOREM IndexesStayExact == Spec => []StoreIsExact
<1>1. IInv => StoreIsExact
  <2>1. ASSUME Absent(schema, rows, seq, index, blob) PROVE StoreIsExact
    <3>1. DOMAIN rows = {}
      BY <2>1 DEF Absent
    <3>2. TypeOK
      BY <2>1, <3>1, MaxInsertsIsNat DEF Absent, TypeOK
    <3>3. PrimaryKeyHolds
      BY <2>1 DEF Absent, PrimaryKeyHolds
    <3>4. IndexesAreExact
      BY <2>1 DEF Absent, IndexesAreExact
    <3> QED
      BY <3>2, <3>3, <3>4 DEF StoreIsExact
  <2>2. ASSUME Exact(schema, rows, seq, index, blob) PROVE StoreIsExact
    <3>1. schema \in Schemas /\ schema # NoTable
      BY <2>2, NoTableIsNoSchema DEF Exact
    <3>2. \A i \in DOMAIN rows : i \in 0..(seq - 1) /\ rows[i] \in RowsOf
      BY <2>2 DEF Exact, RowsUpTo
    <3>3. \A i \in DOMAIN rows : \A c \in Cols : rows[i][c] \in Cells
      BY <3>2 DEF RowsOf
    <3>4. KeptBy(schema) \subseteq Cols /\ Maintained = KeptBy(schema) /\ IsTable(rows)
      BY <2>2, StoredIsTable
    <3>5. ASSUME NEW e \in index PROVE e \in Cols \X Cells \X (0..(seq - 1))
      <4>1. PICK c \in KeptBy(schema), i \in DOMAIN rows : e = <<c, rows[i][c], i>>
        BY <2>2, <3>5, IndexOfHas DEF Exact
      <4> QED
        BY <3>2, <3>3, <3>4, <4>1
    <3>6. ASSUME NEW c \in Cols
          PROVE  blob[c] = NoBlob
                   \/ \A n \in 1..Len(blob[c]) : blob[c][n] \in Cells \X (0..(seq - 1))
      <4>1. CASE c \notin schema.ranged
        BY <2>2, <4>1 DEF Exact, BlobsOf
      <4>2. CASE c \in schema.ranged
        <5>1. Lists(blob[c], EntrySet(rows, c))
          BY <2>2, <4>2 DEF Exact, BlobsOf
        <5>2. \A n \in 1..Len(blob[c]) : blob[c][n] \in EntrySet(rows, c)
          BY <5>1 DEF Lists
        <5>3. EntrySet(rows, c) \subseteq Cells \X (0..(seq - 1))
          BY <3>2, <3>3 DEF EntrySet
        <5> QED
          BY <5>2, <5>3
      <4> QED
        BY <4>1, <4>2
    <3>7. TypeOK
      BY <2>2, <3>1, <3>2, <3>5, <3>6 DEF TypeOK, Exact
    <3>8. PrimaryKeyHolds
      <4> SUFFICES ASSUME schema.pk # 0
                   PROVE  /\ \A i \in DOMAIN rows : rows[i][schema.pk] # Null
                          /\ \A i, j \in DOMAIN rows : i # j =>
                               Rank[rows[i][schema.pk]] # Rank[rows[j][schema.pk]]
        BY DEF PrimaryKeyHolds
      <4>1. Keyed(schema.pk, rows) /\ schema.pk \in Cols
        BY <2>2, <3>1 DEF Exact, Schemas
      <4>2. \A i \in DOMAIN rows : rows[i][schema.pk] # Null
        BY <4>1 DEF Keyed
      <4>3. \A i \in DOMAIN rows : rows[i][schema.pk] \in Values
        BY <3>4, <4>1, <4>2 DEF IsTable, Cells
      <4> QED
        BY <4>1, <4>2, <4>3, RankIsOne DEF Keyed
    <3>9. IndexesAreExact
      <4>1. index = IndexOf(rows, Maintained)
        BY <2>2, <3>4 DEF Exact
      <4>2. \A c \in Cols : IF c \notin schema.ranged THEN blob[c] = NoBlob
                            ELSE Lists(blob[c], EntrySet(rows, c))
        BY <2>2 DEF Exact, BlobsOf
      <4> QED
        BY <3>1, <4>1, <4>2 DEF IndexesAreExact
    <3> QED
      BY <3>7, <3>8, <3>9 DEF StoreIsExact
  <2> QED
    BY <2>1, <2>2 DEF IInv
<1> QED
  BY <1>1, Invariance, PTL

(* A WHERE clause selects the same rows through the primary key, through   *)
(* an equality index, through a range blob and by a full scan, except that *)
(* an equality lookup of a literal its column cannot hold finds none, and  *)
(* no path meets a type error a full scan would not.                       *)
THEOREM AccessPathsAgree == Spec => []PathsAgree
<1>1. IInv => PathsAgree
  <2> SUFFICES ASSUME IInv, schema # NoTable, NEW p \in Questions
               PROVE  /\ Selected(p) = IF LooksForNothing(p) THEN {}
                                       ELSE {i \in DOMAIN rows : Matches(p, rows[i])}
                      /\ TypeError(p) => \E i \in DOMAIN rows : Errs(p, rows[i])
    BY DEF PathsAgree
  <2>1. Exact(schema, rows, seq, index, blob)
    BY TableIsExact
  <2>2. IsClause(p)
    BY ClausesAreClauses
  <2> QED
    BY <2>1, <2>2, SelectedByPath DEF TypeError
<1> QED
  BY <1>1, Invariance, PTL

(* INSERT and UPDATE, whose validation only consults the equality index of *)
(* the key, reject a statement, type errors aside, exactly when the rows   *)
(* would break the key.                                                    *)
THEOREM OnlyConflictsAreRejected == Spec => []RejectsOnlyConflicts
<1>1. ASSUME IInv, schema # NoTable, NEW rs \in Inserts
      PROVE  InsertAccepts(Stored(rs)) <=>
               Rel!KeyHolds(schema.pk, [i \in DOMAIN rows \cup seq..(seq + Len(rs) - 1) |->
                                         IF i < seq THEN rows[i] ELSE Stored(rs)[i - seq + 1]])
  <2>1. Exact(schema, rows, seq, index, blob)
    BY <1>1, TableIsExact
  <2>2. PICK a : a = NewRows(rs)
    OBVIOUS
  <2>3. PICK m : m = Over(rows, a)
    OBVIOUS
  <2>4. PICK q \in Nat : q = seq
    BY <2>1, StoredIsTable
  <2>5. PICK n \in Nat : n = Len(rs)
    BY <2>1, NewRowsAre
  <2>6. /\ DOMAIN a = q..(q + n - 1) /\ IsTable(a) /\ DOMAIN rows \cap DOMAIN a = {}
        /\ \A i \in DOMAIN a : a[i] = Stored(rs)[i - q + 1]
    BY <2>1, <2>2, <2>4, <2>5, NewRowsAre
  <2>7. \A i \in DOMAIN rows : i \in Nat /\ i < q
    BY <2>1, <2>4, StoredIsTable
  <2>8. \A i \in DOMAIN a : ~(i < q)
    BY <2>6
  <2>9. m = [i \in DOMAIN rows \cup q..(q + n - 1) |->
               IF i < q THEN rows[i] ELSE Stored(rs)[i - q + 1]]
    <3>1. m = [i \in DOMAIN rows \cup DOMAIN a |-> IF i \in DOMAIN a THEN a[i] ELSE rows[i]]
      BY <2>3 DEF Over
    <3>2. \A i \in DOMAIN rows \cup DOMAIN a :
            (IF i \in DOMAIN a THEN a[i] ELSE rows[i]) =
              (IF i < q THEN rows[i] ELSE Stored(rs)[i - q + 1])
      BY <2>6, <2>7, <2>8
    <3> QED
      BY <2>6, <3>1, <3>2
  <2>10. IsTable(m)
    <3>1. DOMAIN m = DOMAIN rows \cup DOMAIN a /\ IsTable(rows)
      BY <2>1, <2>3, StoredIsTable DEF Over
    <3>2. IsFiniteSet(DOMAIN rows) /\ IsFiniteSet(DOMAIN a) /\ DOMAIN m \subseteq Nat
      BY <2>6, <3>1 DEF IsTable
    <3>3. IsFiniteSet(DOMAIN m)
      BY <3>1, <3>2, FS_Union
    <3>4. \A i \in DOMAIN m : m[i] = IF i \in DOMAIN a THEN a[i] ELSE rows[i]
      BY <2>3 DEF Over
    <3> QED
      BY <2>6, <3>1, <3>2, <3>3, <3>4 DEF IsTable
  <2>11. InsertAccepts(Stored(rs)) <=> Keyed(schema.pk, m)
    BY <2>1, <2>2, <2>3, InsertIsKeyed
  <2>12. Keyed(schema.pk, m) <=> Rel!KeyHolds(schema.pk, m)
    BY <2>1, <2>10, StoredIsTable, KeyedIsKeyHolds
  <2> QED
    BY <2>4, <2>5, <2>9, <2>11, <2>12
<1>2. ASSUME IInv, schema # NoTable, NEW set \in Assignments, NEW p \in Clauses, Selected(p) # {}
      PROVE  UpdateAccepts(set, Selected(p)) <=>
               Rel!KeyHolds(schema.pk, [i \in DOMAIN rows |->
                 IF Matches(p, rows[i]) THEN Assigned(set, rows[i]) ELSE rows[i]])
  <2>1. Exact(schema, rows, seq, index, blob)
    BY <1>2, TableIsExact
  <2>2. PICK S : S = Selected(p)
    OBVIOUS
  <2>3. S = {i \in DOMAIN rows : Matches(p, rows[i])} /\ S \in SUBSET (DOMAIN rows) /\ S # {}
    BY <1>2, <2>1, <2>2, SelectedAreRows
  <2>4. PICK m : m = Changed(set, S)
    OBVIOUS
  <2>5. m = [i \in DOMAIN rows |->
               IF Matches(p, rows[i]) THEN Assigned(set, rows[i]) ELSE rows[i]]
    BY <2>3, <2>4 DEF Changed
  <2>6. IsTable(m)
    <3>1. DOMAIN m = DOMAIN rows /\ m \in [DOMAIN rows -> RowsOf] /\ IsTable(rows)
      BY <2>1, <2>3, <2>4, ChangedRows, StoredIsTable
    <3> QED
      BY <3>1 DEF IsTable, RowsOf
  <2>7. UpdateAccepts(set, S) <=> Keyed(schema.pk, m)
    BY <2>1, <2>3, <2>4, UpdateIsKeyed
  <2>8. Keyed(schema.pk, m) <=> Rel!KeyHolds(schema.pk, m)
    BY <2>1, <2>6, StoredIsTable, KeyedIsKeyHolds
  <2> QED
    BY <2>2, <2>5, <2>7, <2>8
<1>3. IInv => RejectsOnlyConflicts
  BY <1>1, <1>2 DEF RejectsOnlyConflicts
<1> QED
  BY <1>3, Invariance, PTL

-----------------------------------------------------------------------------
(* RelationalTable reads clauses and stores literals as Tables does.       *)
LEMMA ReadsAlike ==
  /\ \A v : Rel!Store(v) = Store(v)
  /\ \A p, row : Rel!Matches(p, row) = Matches(p, row)
<1>1. \A v : Rel!Store(v) = Store(v)
  BY Zenon DEF Rel!Store, Store
<1>2. \A a, row : Rel!EvalAtom(a, row) = EvalAtom(a, row)
  BY Zenon DEF Rel!EvalAtom, Rel!Truth, Rel!Holds, Rel!Compared, Rel!Comparable,
               EvalAtom, Truth, Holds, Compared, Comparable
<1>3. \A kind, val : Rel!DefinitelyTrue(kind, val) = DefinitelyTrue(kind, val)
  BY Zenon DEF Rel!DefinitelyTrue, DefinitelyTrue
<1>4. ASSUME NEW p, NEW row PROVE Rel!Matches(p, row) = Matches(p, row)
  <2>1. [i \in DOMAIN p.atoms |-> Rel!EvalAtom(p.atoms[i], row)]
          = [i \in DOMAIN p.atoms |-> EvalAtom(p.atoms[i], row)]
    BY <1>2
  <2>2. Rel!Errs(p, row) <=> Errs(p, row)
    BY <1>2 DEF Rel!Errs, Errs
  <2> QED
    BY <1>3, <2>1, <2>2 DEF Rel!Matches, Matches
<1> QED
  BY <1>1, <1>4

(* The key holds for the rows a statement leaves, as RelationalTable asks. *)
LEMMA KeyHoldsAfter ==
  ASSUME IInv', schema' # NoTable
  PROVE  Rel!KeyHolds(schema'.pk, rows')
<1>1. PICK s, m, n, x, b : s = schema' /\ m = rows' /\ n = seq' /\ x = index' /\ b = blob'
  OBVIOUS
<1>2. Exact(s, m, n, x, b)
  BY <1>1 DEF IInv, Absent
<1>3. n \in Nat /\ s.pk \in Cols \cup {0} /\ RowsUpTo(m, n) /\ Keyed(s.pk, m)
  BY <1>2, MaxInsertsIsNat DEF Exact, Schemas
<1>4. Rel!KeyHolds(s.pk, m)
  BY <1>3, RowsAreATable, KeyedIsKeyHolds
<1> QED
  BY <1>1, <1>4

(* INSERT is an INSERT of RelationalTable, under the ids from seq on.      *)
LEMMA InsertRefines ==
  ASSUME IInv, IInv', NEW rs \in Inserts, Insert(rs)
  PROVE  Rel!RelInsert(rs)
<1>1. Exact(schema, rows, seq, index, blob) /\ schema # NoTable /\ schema' = schema
  BY TableIsExact DEF Insert
<1>2. PICK a : a = NewRows(rs)
  OBVIOUS
<1>3. PICK m : m = rows'
  OBVIOUS
<1>4. m = [i \in DOMAIN rows \cup DOMAIN a |-> IF i \in DOMAIN a THEN a[i] ELSE rows[i]]
  BY <1>2, <1>3 DEF Insert, NewRows
<1>5. PICK q \in Nat : q = seq /\ q \in 0..MaxInserts
  BY <1>1, StoredIsTable DEF Exact
<1>6. PICK n \in Nat : n = Len(rs)
  BY <1>1, NewRowsAre
<1>7. /\ DOMAIN a = q..(q + n - 1) /\ DOMAIN rows \cap DOMAIN a = {}
      /\ \A j \in 1..n : q + j - 1 \in DOMAIN a /\ a[q + j - 1] = Stored(rs)[j]
  BY <1>1, <1>2, <1>5, <1>6, NewRowsAre
<1>8. \A i \in DOMAIN rows : i < q
  BY <1>1, <1>5, StoredIsTable
<1>9. DOMAIN m = DOMAIN rows \cup q..(q + n - 1)
  BY <1>4, <1>7
<1>10. \A i \in DOMAIN rows : m[i] = rows[i]
  BY <1>4, <1>7
<1>11. \A j \in 1..n : \A c \in Cols : m[q + j - 1][c] = Store(rs[j][c])
  <2> SUFFICES ASSUME NEW j \in 1..n, NEW c \in Cols PROVE m[q + j - 1][c] = Store(rs[j][c])
    OBVIOUS
  <2>1. m[q + j - 1] = Stored(rs)[j]
    BY <1>4, <1>7
  <2>2. Stored(rs)[j][c] = Store(rs[j][c])
    BY <1>6 DEF Stored
  <2> QED
    BY <2>1, <2>2
<1>12. \E k \in 0..MaxInserts :
         /\ \A i \in DOMAIN rows : i < k
         /\ DOMAIN rows' = DOMAIN rows \cup k..(k + Len(rs) - 1)
         /\ \A i \in DOMAIN rows : rows'[i] = rows[i]
         /\ \A j \in 1..Len(rs) : \A c \in Cols : rows'[k + j - 1][c] = Store(rs[j][c])
  BY <1>3, <1>5, <1>6, <1>8, <1>9, <1>10, <1>11
<1>13. Rel!KeyHolds(schema.pk, rows')
  BY <1>1, KeyHoldsAfter
<1>14. schema.pk # NoTable
  BY <1>1, StoredIsTable, NoTableIsNoSchema
<1> QED
  BY <1>1, <1>12, <1>13, <1>14, ReadsAlike DEF Rel!RelInsert

(* UPDATE is an UPDATE of RelationalTable: of the rows a scan finds.       *)
LEMMA UpdateRefines ==
  ASSUME IInv, IInv', NEW set \in Assignments, NEW p \in Clauses, Update(set, p)
  PROVE  Rel!RelUpdate(set, p)
<1>1. Exact(schema, rows, seq, index, blob) /\ schema # NoTable /\ schema' = schema
  BY TableIsExact DEF Update
<1>2. PICK S : S = Selected(p)
  OBVIOUS
<1>3. S = {i \in DOMAIN rows : Matches(p, rows[i])}
  BY <1>1, <1>2, SelectedAreRows DEF Update
<1>4. rows' = [i \in DOMAIN rows |-> IF i \in S THEN Assigned(set, rows[i]) ELSE rows[i]]
  BY <1>2 DEF Update
<1>5. rows' = [i \in DOMAIN rows |->
                 IF Matches(p, rows[i])
                 THEN [c \in Cols |-> IF c \in DOMAIN set THEN Store(set[c]) ELSE rows[i][c]]
                 ELSE rows[i]]
  BY <1>3, <1>4 DEF Assigned
<1>6. DOMAIN rows' = DOMAIN rows
  BY <1>4
<1>7. Rel!KeyHolds(schema.pk, rows')
  BY <1>1, KeyHoldsAfter
<1>8. schema.pk # NoTable
  BY <1>1, StoredIsTable, NoTableIsNoSchema
<1> QED
  BY <1>1, <1>5, <1>6, <1>7, <1>8, ReadsAlike DEF Rel!RelUpdate

(* DELETE is a DELETE of RelationalTable.                                  *)
LEMMA DeleteRefines ==
  ASSUME IInv, NEW p \in Clauses, Delete(p)
  PROVE  Rel!RelDelete(p)
<1>1. Exact(schema, rows, seq, index, blob) /\ schema # NoTable /\ schema' = schema
  BY TableIsExact DEF Delete
<1>2. PICK S : S = Selected(p)
  OBVIOUS
<1>3. S = {i \in DOMAIN rows : Matches(p, rows[i])}
  BY <1>1, <1>2, SelectedAreRows DEF Delete
<1>4. rows' = [i \in DOMAIN rows \ S |-> rows[i]]
  BY <1>2 DEF Delete
<1>5. DOMAIN rows \ S = {j \in DOMAIN rows : ~ Matches(p, rows[j])}
  BY <1>3
<1>6. schema.pk # NoTable
  BY <1>1, StoredIsTable, NoTableIsNoSchema
<1> QED
  BY <1>1, <1>4, <1>5, <1>6, ReadsAlike DEF Rel!RelDelete

(* Every step is a step of RelationalTable or, for the four statements     *)
(* that only touch indexes, none at all.                                   *)
LEMMA StepRefines ==
  ASSUME IInv, IInv', [Next]_vars
  PROVE  [Rel!RelNext]_(Rel!relVars)
<1>1. ASSUME NEW pk \in KeyChoices, CreateTable(pk) PROVE Rel!RelCreate
  <2>1. schema = NoTable /\ rows' = rows
    BY <1>1 DEF CreateTable
  <2>2. schema' = [pk |-> pk, indexed |-> {}, ranged |-> {}]
    BY <1>1 DEF CreateTable
  <2>3. schema' # NoTable /\ schema'.pk = pk
    BY <2>2, KeyChoicesAreCols, NoTableIsNoSchema DEF Schemas
  <2>4. rows = <<>>
    BY <2>1, NoTableIsNoSchema DEF IInv, Exact, Absent
  <2> QED
    BY <2>1, <2>3, <2>4 DEF Rel!RelCreate
<1>2. ASSUME DropTable PROVE Rel!RelDrop
  <2>1. schema # NoTable /\ schema' = NoTable /\ rows' = <<>>
    BY <1>2 DEF DropTable
  <2>2. schema.pk # NoTable
    BY <2>1, TableIsExact, StoredIsTable, NoTableIsNoSchema
  <2> QED
    BY <2>1, <2>2 DEF Rel!RelDrop
<1>3. ASSUME schema \in Schemas, rows' = rows,
             \/ \E S : schema' = [schema EXCEPT !.indexed = S]
             \/ \E S : schema' = [schema EXCEPT !.ranged = S],
             schema' \in Schemas
      PROVE  UNCHANGED Rel!relVars
  <2>1. schema'.pk = schema.pk
    BY <1>3 DEF Schemas
  <2>2. schema # NoTable /\ schema' # NoTable
    BY <1>3, NoTableIsNoSchema
  <2> QED
    BY <1>3, <2>1, <2>2 DEF Rel!relVars
<1>4. ASSUME NEW c \in Cols, CreateIndex(c) \/ DropIndex(c) \/ CreateRangeIndex(c) \/ DropRangeIndex(c)
      PROVE  UNCHANGED Rel!relVars
  <2>1. schema \in Schemas
    BY <1>4, TableIsExact DEF Exact, CreateIndex, DropIndex, CreateRangeIndex, DropRangeIndex
  <2>2. \/ schema' = [schema EXCEPT !.indexed = schema.indexed \cup {c}]
        \/ schema' = [schema EXCEPT !.indexed = schema.indexed \ {c}]
        \/ schema' = [schema EXCEPT !.ranged = schema.ranged \cup {c}]
        \/ schema' = [schema EXCEPT !.ranged = schema.ranged \ {c}]
    BY <1>4, Zenon DEF CreateIndex, DropIndex, CreateRangeIndex, DropRangeIndex
  <2>3. schema' \in Schemas
    BY <2>1, <2>2 DEF Schemas
  <2>4. rows' = rows
    BY <1>4 DEF CreateIndex, DropIndex, CreateRangeIndex, DropRangeIndex
  <2> QED
    BY <1>3, <2>1, <2>2, <2>3, <2>4
<1>5. ASSUME NEW rs \in Inserts, Insert(rs) PROVE Rel!RelInsert(rs)
  BY <1>5, InsertRefines
<1>6. ASSUME NEW set \in Assignments, NEW p \in Clauses, Update(set, p) PROVE Rel!RelUpdate(set, p)
  BY <1>6, UpdateRefines
<1>7. ASSUME NEW p \in Clauses, Delete(p) PROVE Rel!RelDelete(p)
  BY <1>7, DeleteRefines
<1>8. CASE UNCHANGED vars
  BY <1>8 DEF vars, Rel!relVars
<1>9. CASE Next
  <2>1. \/ \E pk \in KeyChoices : CreateTable(pk)
        \/ DropTable
        \/ \E c \in Cols : CreateIndex(c) \/ DropIndex(c) \/ CreateRangeIndex(c) \/ DropRangeIndex(c)
        \/ \E rs \in Inserts : Insert(rs)
        \/ \E set \in Assignments, p \in Clauses : Update(set, p)
        \/ \E p \in Clauses : Delete(p)
    BY <1>9, Zenon DEF Next
  <2> QED
    BY <1>1, <1>2, <1>4, <1>5, <1>6, <1>7, <2>1, Zenon DEF Rel!RelNext
<1> QED
  BY <1>8, <1>9

(* The indexed table implements the table without indexes: INSERT, UPDATE, *)
(* DELETE and the DDL statements change the rows exactly as they would if  *)
(* every clause were read on every row, and index DDL changes none.        *)
THEOREM TablesRefine == Spec => ImplementsRelationalTable
<1>1. Init => Rel!RelInit
  BY DEF Init, Rel!RelInit
<1>2. IInv /\ IInv' /\ [Next]_vars => [Rel!RelNext]_(Rel!relVars)
  BY StepRefines
<1> QED
  BY <1>1, <1>2, Invariance, PTL DEF Spec, ImplementsRelationalTable, Rel!RelSpec
=============================================================================
