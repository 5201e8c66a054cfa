---------------------------- MODULE BackupProofs ----------------------------
(***************************************************************************)
(* Proofs about Backup, for every set of passphrases, every length of the  *)
(* history and every number of faults.                                     *)
(***************************************************************************)
EXTENDS Backup, NaturalsInduction, SequenceTheorems, WellFoundedInduction, TLAPS

-----------------------------------------------------------------------------
(* The inductive invariant. In every log that can arise, a finished dump,  *)
(* a part of one, or a part with parameters and a canary added to it, all  *)
(* canaries are the same and a row comes after the canary of its own key.  *)
LogOK(w) ==
  /\ w \in Seq(Records)
  /\ \A j \in 1..Len(w), l \in 1..Len(w) : w[j].k = "canary" /\ w[l].k = "canary" => w[j].v = w[l].v
  /\ \A j \in 1..Len(w) : w[j].k = "row" => \E l \in 1..(j - 1) : w[l].k = "canary" /\ w[l].v = Master

IInv ==
  /\ TypeOK
  /\ Visible \in 0..MaxHist /\ faults \in 0..MaxFaults
  /\ file # None => LogOK(file)
  /\ wal # None => LogOK(wal)
  /\ eng # None => eng \in Engines /\ wal # None /\ eng.key = Value(wal, "canary")

-----------------------------------------------------------------------------
(* What logs hold.                                                         *)

(* The records a log has, in any order.                                    *)
Has(w) == {w[j] : j \in 1..Len(w)}

(* A sequence is not None.                                                 *)
LEMMA LogIsThere == ASSUME NEW w \in Seq(Records) PROVE w # None
BY NoneIsNoValue

(* A bounded set of positions has a last one.                              *)
LEMMA LastExists ==
  ASSUME NEW n \in Nat, NEW T \in SUBSET (1..n), T # {}
  PROVE  \E x \in T : \A y \in T : y <= x
<1> DEFINE U == {n - x : x \in T}
<1>1. U \in SUBSET Nat /\ U # {}
  <2>1. \A x \in T : n - x \in Nat
    OBVIOUS
  <2>2. PICK x \in T : TRUE
    OBVIOUS
  <2>3. n - x \in U
    OBVIOUS
  <2> QED BY <2>1, <2>3
<1>2. PICK u \in U : \A v \in U : ~(<<v, u>> \in OpToRel(<, Nat))
  BY <1>1, WFMin, NatLessThanWellFounded
<1>3. \A v \in U : v < u => <<v, u>> \in OpToRel(<, Nat)
  BY <1>1 DEF OpToRel
<1>4. \A v \in U : u <= v
  <2>1. \A v \in U : v \in Nat /\ u \in Nat /\ ~(v < u)
    BY <1>1, <1>2, <1>3
  <2> HIDE DEF U
  <2> QED BY <2>1
<1>5. PICK x \in T : u = n - x
  OBVIOUS
<1>6. \A y \in T : y <= x
  <2> SUFFICES ASSUME NEW y \in T PROVE y <= x
    OBVIOUS
  <2>1. n - y \in U
    OBVIOUS
  <2>2. u <= n - y
    BY <1>4, <2>1
  <2> QED BY <1>5, <2>2
<1> QED BY <1>6

(* Value returns None exactly where the log has no record of the kind, and *)
(* otherwise the value of one of them.                                     *)
LEMMA ValueIs ==
  ASSUME NEW w \in Seq(Records), NEW k
  PROVE  \/ /\ \A j \in 1..Len(w) : w[j].k # k
            /\ Value(w, k) = None
         \/ \E j \in 1..Len(w) : w[j].k = k /\ Value(w, k) = w[j].v
<1> DEFINE js == {j \in DOMAIN w : w[j].k = k}
           x == CHOOSE j \in js : \A l \in js : l <= j
<1>1. DOMAIN w = 1..Len(w) /\ Len(w) \in Nat
  BY LenProperties
<1>2. CASE js = {}
  <2>1. Value(w, k) = None
    BY <1>2 DEF Value
  <2> QED BY <1>1, <1>2, <2>1
<1>3. CASE js # {}
  <2>1. \E j \in js : \A l \in js : l <= j
    BY <1>1, <1>3, LastExists
  <2>2. x \in js
    BY <2>1
  <2>3. Value(w, k) = w[x].v
    BY <1>3 DEF Value
  <2> QED BY <1>1, <2>2, <2>3
<1> QED BY <1>2, <1>3

(* What Value returns, by kind.                                            *)
LEMMA ValueType ==
  ASSUME NEW w \in Seq(Records)
  PROVE  /\ Value(w, "params") \in Salts \cup {None}
         /\ Value(w, "canary") \in Keys \cup {None}
         /\ Value(w, "head") \in (Keys \X (0..MaxHist)) \cup {None}
<1>1. \A j \in 1..Len(w) : w[j] \in Records
  BY ElementOfSeq
<1>2. \A j \in 1..Len(w) :
        /\ w[j].k = "params" => w[j].v \in Salts
        /\ w[j].k = "canary" => w[j].v \in Keys
        /\ w[j].k = "head" => w[j].v \in Keys \X (0..MaxHist)
  BY <1>1 DEF Records
<1>3. Value(w, "params") \in Salts \cup {None}
  BY <1>2, ValueIs
<1>4. Value(w, "canary") \in Keys \cup {None}
  BY <1>2, ValueIs
<1>5. Value(w, "head") \in (Keys \X (0..MaxHist)) \cup {None}
  BY <1>2, ValueIs
<1> QED BY <1>3, <1>4, <1>5

(* A log with rows has the canary of their key, and no other.              *)
LEMMA RowsHaveTheirCanary ==
  ASSUME NEW w, LogOK(w), Stored(w, "row") # {}
  PROVE  Value(w, "canary") = Master
<1>1. w \in Seq(Records) /\ DOMAIN w = 1..Len(w) /\ Len(w) \in Nat
  BY LenProperties DEF LogOK
<1>2. PICK j \in 1..Len(w) : w[j].k = "row"
  BY <1>1 DEF Stored
<1>3. PICK l \in 1..(j - 1) : w[l].k = "canary" /\ w[l].v = Master
  BY <1>2 DEF LogOK
<1>4. l \in 1..Len(w)
  BY <1>1
<1>5. PICK m \in 1..Len(w) : w[m].k = "canary" /\ Value(w, "canary") = w[m].v
  BY <1>1, <1>3, <1>4, ValueIs
<1> QED BY <1>3, <1>4, <1>5 DEF LogOK

-----------------------------------------------------------------------------
(* Parts of a log, and records added to it.                                *)

(* The first n records.                                                    *)
LEMMA Prefix ==
  ASSUME NEW w \in Seq(Records), NEW n \in 0..Len(w)
  PROVE  /\ SubSeq(w, 1, n) \in Seq(Records)
         /\ Len(SubSeq(w, 1, n)) = n
         /\ \A i \in 1..n : SubSeq(w, 1, n)[i] = w[i]
<1>1. n \in Int /\ 1 \in Int /\ \A i \in 1..n : w[i] \in Records
  BY LenProperties, ElementOfSeq
<1>2. /\ SubSeq(w, 1, n) \in Seq(Records)
      /\ Len(SubSeq(w, 1, n)) = IF 1 <= n THEN n - 1 + 1 ELSE 0
      /\ \A i \in 1..(n - 1 + 1) : SubSeq(w, 1, n)[i] = w[1 + i - 1]
  BY <1>1, SubSeqProperties
<1> QED BY <1>2

(* A log that loses its tail is a log.                                     *)
LEMMA PrefixOK ==
  ASSUME NEW w, LogOK(w), NEW n \in 0..Len(w)
  PROVE  LogOK(SubSeq(w, 1, n))
<1>1. w \in Seq(Records) /\ Len(w) \in Nat
  BY LenProperties DEF LogOK
<1>2. PICK u : u = SubSeq(w, 1, n)
  OBVIOUS
<1>3. u \in Seq(Records) /\ Len(u) = n /\ \A i \in 1..n : u[i] = w[i]
  BY <1>1, <1>2, Prefix
<1>4. \A j \in 1..n, l \in 1..n : u[j].k = "canary" /\ u[l].k = "canary" => u[j].v = u[l].v
  BY <1>1, <1>3 DEF LogOK
<1>5. ASSUME NEW j \in 1..n, u[j].k = "row"
      PROVE  \E l \in 1..(j - 1) : u[l].k = "canary" /\ u[l].v = Master
  <2>1. PICK l \in 1..(j - 1) : w[l].k = "canary" /\ w[l].v = Master
    BY <1>1, <1>3, <1>5 DEF LogOK
  <2> QED BY <1>3, <2>1
<1> QED BY <1>2, <1>3, <1>4, <1>5 DEF LogOK

(* A record is added that is no row, and no second canary.                 *)
LEMMA AppendOK ==
  ASSUME NEW w, LogOK(w), NEW r \in Records, r.k # "row",
         r.k = "canary" => Value(w, "canary") = None
  PROVE  LogOK(Append(w, r))
<1>1. w \in Seq(Records) /\ Len(w) \in Nat
  BY LenProperties DEF LogOK
<1>2. PICK u : u = Append(w, r)
  OBVIOUS
<1>3. /\ u \in Seq(Records) /\ Len(u) = Len(w) + 1 /\ u[Len(w) + 1] = r
      /\ \A i \in 1..Len(w) : u[i] = w[i]
  BY <1>1, <1>2, AppendProperties
<1>4. r.k = "canary" => \A j \in 1..Len(w) : w[j].k # "canary"
  <2>1. \A j \in 1..Len(w) : w[j].k = "canary" => w[j].v \in Keys
    <3>1. \A j \in 1..Len(w) : w[j] \in Records
      BY <1>1, ElementOfSeq
    <3> QED BY <3>1 DEF Records
  <2> QED BY <1>1, <2>1, ValueIs, NoneIsNoValue
<1>5. ASSUME NEW j \in 1..Len(u), NEW l \in 1..Len(u), u[j].k = "canary", u[l].k = "canary"
      PROVE  u[j].v = u[l].v
  <2>1. CASE j \in 1..Len(w) /\ l \in 1..Len(w)
    BY <1>3, <1>5, <2>1 DEF LogOK
  <2>2. CASE j = Len(w) + 1 \/ l = Len(w) + 1
    BY <1>1, <1>3, <1>4, <1>5, <2>2
  <2> QED BY <1>1, <1>3, <2>1, <2>2
<1>6. ASSUME NEW j \in 1..Len(u), u[j].k = "row"
      PROVE  \E l \in 1..(j - 1) : u[l].k = "canary" /\ u[l].v = Master
  <2>1. j \in 1..Len(w)
    BY <1>1, <1>3, <1>6
  <2>2. PICK l \in 1..(j - 1) : w[l].k = "canary" /\ w[l].v = Master
    BY <1>3, <1>6, <2>1 DEF LogOK
  <2> QED BY <1>1, <1>3, <2>1, <2>2
<1> QED BY <1>2, <1>3, <1>5, <1>6 DEF LogOK

(* One log is another one with records added at its end.                   *)
Extends(w, u) == u \in Seq(Records) /\ Len(u) >= Len(w) /\ SubSeq(u, 1, Len(w)) = w

(* A log extends itself, and is extended by a record.                      *)
LEMMA ExtendsBy ==
  ASSUME NEW w \in Seq(Records), NEW u \in Seq(Records), Len(u) >= Len(w),
         \A i \in 1..Len(w) : u[i] = w[i]
  PROVE  Extends(w, u)
<1>1. Len(w) \in Nat /\ Len(u) \in Nat
  BY LenProperties
<1>2. PICK v : v = SubSeq(u, 1, Len(w))
  OBVIOUS
<1>3. v \in Seq(Records) /\ Len(v) = Len(w) /\ \A i \in 1..Len(w) : v[i] = u[i]
  BY <1>1, <1>2, Prefix
<1>4. v = w
  BY <1>1, <1>3, SeqEqual
<1> QED BY <1>2, <1>4 DEF Extends

(* Engine::open only adds to the log it is given, and where it returns an  *)
(* engine that engine has the key of the canary and is not verified.       *)
LEMMA OpenStoreIs ==
  ASSUME NEW w, LogOK(w), NEW pass \in Passphrases, NEW o, o = OpenStore(w, pass)
  PROVE  /\ LogOK(o.wal) /\ Extends(w, o.wal)
         /\ o.eng # None => /\ o.eng \in Engines /\ ~o.eng.verified
                            /\ o.eng.key = Value(o.wal, "canary")
                            /\ o.eng.head = IF Value(o.wal, "head") = None THEN 0
                                            ELSE Value(o.wal, "head")[2]
         /\ Value(w, "params") # None /\ Value(w, "canary") # None => o.wal = w
<1> DEFINE p == Rec("params", 0, "fresh salt")
           w1 == IF Value(w, "params") = None THEN Append(w, p) ELSE w
           key == Key(pass, Value(w1, "params"))
           c == Rec("canary", 0, key)
           w2 == IF Value(w1, "canary") = None THEN Append(w1, c) ELSE w1
           head == IF Value(w2, "head") = None THEN <<key, 0>> ELSE Value(w2, "head")
           e == [key |-> key, head |-> head[2], verified |-> FALSE]
<1>1. o = IF Value(w2, "canary") # key \/ head[1] # key THEN [wal |-> w2, eng |-> None]
          ELSE [wal |-> w2, eng |-> e]
  BY DEF OpenStore
<1>2. w \in Seq(Records) /\ Len(w) \in Nat
  BY LenProperties DEF LogOK
<1>3. p \in Records /\ p.k = "params"
  BY DEF Rec, Records, Salts
<1>4. LogOK(w1)
  BY <1>3, AppendOK
<1>5. w1 \in Seq(Records) /\ Len(w1) \in Nat
  BY <1>4, LenProperties DEF LogOK
<1>6. Value(w1, "params") \in Salts
  <2>1. CASE Value(w, "params") # None
    BY <1>2, <2>1, ValueType
  <2>2. CASE Value(w, "params") = None
    <3>1. Len(w1) = Len(w) + 1 /\ w1[Len(w) + 1] = p
      BY <1>2, <1>3, <2>2, AppendProperties
    <3>2. Len(w) + 1 \in 1..Len(w1)
      <4>1. PICK u : u = w1
        OBVIOUS
      <4>2. Len(w) \in Nat /\ Len(u) = Len(w) + 1
        BY <1>2, <3>1, <4>1
      <4>3. Len(w) + 1 \in 1..Len(u)
        BY <4>2
      <4> QED BY <4>1, <4>3
    <3>3. PICK j \in 1..Len(w1) : w1[j].k = "params" /\ Value(w1, "params") = w1[j].v
      <4> HIDE DEF w1, p
      <4> QED BY <1>3, <1>5, <3>1, <3>2, ValueIs
    <3>4. w1[j] \in Records
      BY <1>5, ElementOfSeq
    <3> QED
      <4> HIDE DEF w1
      <4> QED BY <3>3, <3>4 DEF Records
  <2> QED BY <2>1, <2>2
<1>7. key \in Keys /\ key = <<pass, Value(w1, "params")>>
  BY <1>6 DEF Key, Keys
<1>8. c \in Records /\ c.k = "canary"
  <2> HIDE DEF key
  <2>1. 0 \in 0..MaxHist
    BY BoundsAreNat
  <2>2. c \in [k : {"canary", "catalog", "seq", "audit", "row", "index"}, i : 0..MaxHist, v : Keys]
    BY <1>7, <2>1 DEF Rec
  <2> QED BY <2>2 DEF Rec, Records
<1>9. LogOK(w2)
  <2>1. CASE Value(w1, "canary") = None
    <3> HIDE DEF w1, c
    <3> QED BY <1>4, <1>8, <2>1, AppendOK
  <2>2. CASE Value(w1, "canary") # None
    BY <1>4, <2>2
  <2> QED BY <2>1, <2>2
<1>10. w2 \in Seq(Records) /\ Len(w2) \in Nat
  BY <1>9, LenProperties DEF LogOK
<1>11. Len(w1) >= Len(w) /\ \A i \in 1..Len(w) : w1[i] = w[i]
  <2> HIDE DEF p
  <2>1. Len(Append(w, p)) = Len(w) + 1 /\ \A i \in 1..Len(w) : Append(w, p)[i] = w[i]
    BY <1>2, <1>3, AppendProperties
  <2> QED BY <1>2, <2>1
<1>12. Len(w2) >= Len(w1) /\ \A i \in 1..Len(w1) : w2[i] = w1[i]
  <2> HIDE DEF w1, c
  <2> QED BY <1>5, <1>8, AppendProperties
<1>13. Extends(w, w2)
  <2> HIDE DEF w1, w2
  <2>1. Len(w2) >= Len(w) /\ \A i \in 1..Len(w) : w2[i] = w[i]
    BY <1>2, <1>5, <1>10, <1>11, <1>12
  <2> QED BY <1>2, <1>10, <2>1, ExtendsBy
<1>14. Value(w2, "head") \in (Keys \X (0..MaxHist)) \cup {None}
  <2> HIDE DEF w2
  <2> QED BY <1>10, ValueType
<1>15. head \in Keys \X (0..MaxHist) /\ head[2] = IF Value(w2, "head") = None THEN 0 ELSE Value(w2, "head")[2]
  <2> HIDE DEF w2, key
  <2>1. CASE Value(w2, "head") = None
    <3>1. 0 \in 0..MaxHist
      BY BoundsAreNat
    <3>2. <<key, 0>> \in Keys \X (0..MaxHist) /\ <<key, 0>>[2] = 0
      BY <1>7, <3>1
    <3> QED BY <2>1, <3>2
  <2>2. CASE Value(w2, "head") # None
    BY <1>14, <2>2
  <2> QED BY <2>1, <2>2
<1>16. e \in Engines /\ e.key = key /\ e.head = head[2] /\ ~e.verified
  <2> HIDE DEF head, key
  <2>1. head[2] \in 0..MaxHist
    BY <1>15
  <2> QED BY <1>7, <2>1 DEF Engines
<1>17. Value(w, "params") # None /\ Value(w, "canary") # None => w2 = w
  OBVIOUS
<1>18. o.wal = w2 /\ (o.eng # None => o.eng = e /\ Value(w2, "canary") = key)
  <2> HIDE DEF w2, e, head, key
  <2> QED BY <1>1
<1> HIDE DEF w2, e, head, key
<1> QED BY <1>9, <1>13, <1>15, <1>16, <1>17, <1>18

-----------------------------------------------------------------------------
(* What a dump holds.                                                      *)

(* A record that occurs in a log.                                          *)
Of(k, is) == {Rec(k, i, Master) : i \in is}

(* The master key is a key.                                                *)
LEMMA MasterIsKey == Master \in Keys
BY RightIsPassphrase DEF Master, Key, Keys, Salts

(* The sealed records of a dump are records.                               *)
LEMMA OfRecords ==
  ASSUME NEW k \in {"canary", "catalog", "seq", "audit", "row", "index"}, NEW i \in 0..MaxHist
  PROVE  Rec(k, i, Master) \in Records /\ Rec(k, i, Master).k = k /\ Rec(k, i, Master).i = i
<1>1. Rec(k, i, Master) \in [k : {"canary", "catalog", "seq", "audit", "row", "index"}, i : 0..MaxHist, v : Keys]
  BY MasterIsKey DEF Rec
<1> QED BY <1>1 DEF Rec, Records

(* One log after another has the records of both.                          *)
LEMMA HasConcat ==
  ASSUME NEW s \in Seq(Records), NEW t \in Seq(Records)
  PROVE  s \o t \in Seq(Records) /\ Has(s \o t) = Has(s) \cup Has(t)
<1>1. PICK u : u = s \o t
  OBVIOUS
<1>2. /\ u \in Seq(Records) /\ Len(u) = Len(s) + Len(t)
      /\ \A i \in 1..(Len(s) + Len(t)) : u[i] = IF i <= Len(s) THEN s[i] ELSE t[i - Len(s)]
  BY <1>1, ConcatProperties
<1>3. Len(s) \in Nat /\ Len(t) \in Nat
  BY LenProperties
<1>4. ASSUME NEW i \in 1..Len(u) PROVE u[i] \in Has(s) \cup Has(t)
  <2>1. CASE i <= Len(s)
    BY <1>2, <1>3, <2>1 DEF Has
  <2>2. CASE ~(i <= Len(s))
    <3>1. i - Len(s) \in 1..Len(t) /\ u[i] = t[i - Len(s)]
      BY <1>2, <1>3, <2>2
    <3> QED BY <3>1 DEF Has
  <2> QED BY <2>1, <2>2
<1>5. ASSUME NEW i \in 1..Len(s) PROVE s[i] \in Has(u)
  <2>1. i \in 1..Len(u) /\ u[i] = s[i]
    BY <1>2, <1>3
  <2> QED BY <2>1 DEF Has
<1>6. ASSUME NEW i \in 1..Len(t) PROVE t[i] \in Has(u)
  <2>1. i + Len(s) \in 1..Len(u) /\ ~(i + Len(s) <= Len(s)) /\ (i + Len(s)) - Len(s) = i
    BY <1>2, <1>3
  <2>2. u[i + Len(s)] = t[i]
    BY <1>2, <2>1
  <2> QED BY <2>1, <2>2 DEF Has
<1>7. Has(u) = Has(s) \cup Has(t)
  BY <1>4, <1>5, <1>6 DEF Has
<1> QED BY <1>1, <1>2, <1>7

(* A log of one record, and one of none.                                   *)
LEMMA HasOne ==
  ASSUME NEW r \in Records, NEW n \in Nat, NEW k \in Nat
  PROVE  /\ <<r>> \in Seq(Records) /\ Has(<<r>>) = {r}
         /\ From(n, k, <<r>>) \in Seq(Records)
         /\ Has(From(n, k, <<r>>)) = IF n >= k THEN {r} ELSE {}
<1>1. <<r>> \in Seq(Records) /\ Len(<<r>>) = 1 /\ <<r>>[1] = r
  OBVIOUS
<1>2. <<>> \in Seq(Records) /\ Len(<<>>) = 0
  OBVIOUS
<1>3. Has(<<r>>) = {r}
  BY <1>1 DEF Has
<1>4. Has(<<>>) = {}
  BY <1>2 DEF Has
<1> QED BY <1>1, <1>2, <1>3, <1>4 DEF From

(* The records of one kind, one for every statement; and for every one but *)
(* the first, which creates the table and writes no row.                   *)
LEMMA HasEach ==
  ASSUME NEW n \in 0..MaxHist, NEW k \in {"audit", "row", "index"}
  PROVE  /\ Each(k, n) \in Seq(Records) /\ Has(Each(k, n)) = Of(k, 1..n)
         /\ n >= 2 => Tail(Each(k, n)) \in Seq(Records) /\ Has(Tail(Each(k, n))) = Of(k, 2..n)
<1>1. n \in Nat /\ MaxHist \in Nat
  BY BoundsAreNat
<1>2. PICK e : e = Each(k, n)
  OBVIOUS
<1>3. \A i \in 1..n : Rec(k, i, Master) \in Records
  BY <1>1, OfRecords
<1>4. e = [i \in 1..n |-> Rec(k, i, Master)]
  BY <1>2 DEF Each
<1>5. e \in Seq(Records) /\ Len(e) = n /\ \A i \in 1..n : e[i] = Rec(k, i, Master)
  BY <1>1, <1>3, <1>4
<1>6. Has(e) = Of(k, 1..n)
  BY <1>5 DEF Has, Of
<1>7. ASSUME n >= 2 PROVE Tail(e) \in Seq(Records) /\ Has(Tail(e)) = Of(k, 2..n)
  <2>1. PICK t : t = Tail(e)
    OBVIOUS
  <2>2. e # <<>>
    BY <1>1, <1>5, <1>7
  <2>3. t \in Seq(Records) /\ Len(t) = n - 1 /\ \A i \in 1..(n - 1) : t[i] = e[i + 1]
    BY <1>5, <2>1, <2>2, HeadTailProperties
  <2>4. \A i \in 1..(n - 1) : i + 1 \in 2..n /\ t[i] = Rec(k, i + 1, Master)
    BY <1>1, <1>5, <2>3
  <2>5. ASSUME NEW r \in Has(t) PROVE r \in Of(k, 2..n)
    BY <2>3, <2>4 DEF Has, Of
  <2>6. ASSUME NEW r \in Of(k, 2..n) PROVE r \in Has(t)
    <3>1. PICK i \in 2..n : r = Rec(k, i, Master)
      BY DEF Of
    <3>2. i - 1 \in 1..(n - 1) /\ (i - 1) + 1 = i
      BY <1>1
    <3>3. t[i - 1] = r
      BY <2>4, <3>1, <3>2
    <3> QED BY <2>3, <3>2, <3>3 DEF Has
  <2> QED BY <2>1, <2>3, <2>5, <2>6
<1> QED BY <1>2, <1>5, <1>6, <1>7

(* The records before the audit entries and the rows, and those from them  *)
(* on.                                                                     *)
Front(n) ==
  From(n, 1, <<Rec("head", 0, <<Master, n>>)>>) \o <<Rec("canary", 0, Master)>>
  \o From(n, 1, <<Rec("catalog", 0, Master)>>) \o <<Rec("params", 0, "salt")>>
  \o From(n, 2, <<Rec("seq", 0, Master)>>) \o Each("audit", n)
Back(n) == From(n, 2, Tail(Each("row", n)) \o Tail(Each("index", n)))

(* The records of the front part.                                          *)
LEMMA FrontHas ==
  ASSUME NEW n \in 0..MaxHist
  PROVE  /\ Front(n) \in Seq(Records)
         /\ Has(Front(n)) = (IF n >= 1 THEN {Rec("head", 0, <<Master, n>>), Rec("catalog", 0, Master)} ELSE {})
              \cup {Rec("canary", 0, Master), Rec("params", 0, "salt")}
              \cup (IF n >= 2 THEN {Rec("seq", 0, Master)} ELSE {}) \cup Of("audit", 1..n)
<1> DEFINE a == From(n, 1, <<Rec("head", 0, <<Master, n>>)>>)
           b == <<Rec("canary", 0, Master)>>
           c == From(n, 1, <<Rec("catalog", 0, Master)>>)
           d == <<Rec("params", 0, "salt")>>
           e == From(n, 2, <<Rec("seq", 0, Master)>>)
           f == Each("audit", n)
<1>1. n \in Nat /\ 0 \in 0..MaxHist
  BY BoundsAreNat
<1>2. Rec("head", 0, <<Master, n>>) \in Records
  <2>1. <<Master, n>> \in Keys \X (0..MaxHist)
    BY MasterIsKey
  <2> QED BY <2>1 DEF Rec, Records
<1>3. Rec("params", 0, "salt") \in Records
  BY DEF Rec, Records, Salts
<1>4. /\ Rec("canary", 0, Master) \in Records /\ Rec("catalog", 0, Master) \in Records
      /\ Rec("seq", 0, Master) \in Records
  BY <1>1, OfRecords
<1>5. a \in Seq(Records) /\ Has(a) = IF n >= 1 THEN {Rec("head", 0, <<Master, n>>)} ELSE {}
  BY <1>1, <1>2, HasOne
<1>6. b \in Seq(Records) /\ Has(b) = {Rec("canary", 0, Master)}
  BY <1>1, <1>4, HasOne
<1>7. c \in Seq(Records) /\ Has(c) = IF n >= 1 THEN {Rec("catalog", 0, Master)} ELSE {}
  BY <1>1, <1>4, HasOne
<1>8. d \in Seq(Records) /\ Has(d) = {Rec("params", 0, "salt")}
  BY <1>1, <1>3, HasOne
<1>9. e \in Seq(Records) /\ Has(e) = IF n >= 2 THEN {Rec("seq", 0, Master)} ELSE {}
  BY <1>1, <1>4, HasOne
<1>10. f \in Seq(Records) /\ Has(f) = Of("audit", 1..n)
  BY HasEach
<1>11. Front(n) = a \o b \o c \o d \o e \o f
  BY DEF Front
<1> HIDE DEF a, b, c, d, e, f
<1>12. a \o b \in Seq(Records) /\ Has(a \o b) = Has(a) \cup Has(b)
  BY <1>5, <1>6, HasConcat
<1>13. a \o b \o c \in Seq(Records) /\ Has(a \o b \o c) = Has(a) \cup Has(b) \cup Has(c)
  BY <1>7, <1>12, HasConcat
<1>14. a \o b \o c \o d \in Seq(Records) /\ Has(a \o b \o c \o d) = Has(a) \cup Has(b) \cup Has(c) \cup Has(d)
  BY <1>8, <1>13, HasConcat
<1>15. /\ a \o b \o c \o d \o e \in Seq(Records)
       /\ Has(a \o b \o c \o d \o e) = Has(a) \cup Has(b) \cup Has(c) \cup Has(d) \cup Has(e)
  BY <1>9, <1>14, HasConcat
<1>16. /\ Front(n) \in Seq(Records)
       /\ Has(Front(n)) = Has(a) \cup Has(b) \cup Has(c) \cup Has(d) \cup Has(e) \cup Has(f)
  BY <1>10, <1>11, <1>15, HasConcat
<1> QED BY <1>5, <1>6, <1>7, <1>8, <1>9, <1>10, <1>16

(* A dump is a log; it has the parameters, the canary and the head of its  *)
(* database, and the rows and index entries of exactly its statements.     *)
LEMMA DumpHas ==
  ASSUME NEW n \in 0..MaxHist
  PROVE  /\ LogOK(Dump(n))
         /\ Value(Dump(n), "params") # None /\ Value(Dump(n), "canary") = Master
         /\ Value(Dump(n), "head") = IF n = 0 THEN None ELSE <<Master, n>>
         /\ Stored(Dump(n), "row") = 2..n /\ Stored(Dump(n), "index") = 2..n
<1> DEFINE F == Has(Front(n))
           B == IF n >= 2 THEN Of("row", 2..n) \cup Of("index", 2..n) ELSE {}
<1>0. n \in Nat /\ MaxHist \in Nat /\ 0 \in 0..MaxHist
  BY BoundsAreNat
<1>1. Front(n) \in Seq(Records) /\ Len(Front(n)) \in Nat
  BY FrontHas, LenProperties
<1>2. Back(n) \in Seq(Records) /\ Has(Back(n)) = B
  <2>1. CASE n >= 2
    <3>1. /\ Tail(Each("row", n)) \in Seq(Records) /\ Has(Tail(Each("row", n))) = Of("row", 2..n)
          /\ Tail(Each("index", n)) \in Seq(Records) /\ Has(Tail(Each("index", n))) = Of("index", 2..n)
      BY <2>1, HasEach
    <3>2. /\ Tail(Each("row", n)) \o Tail(Each("index", n)) \in Seq(Records)
          /\ Has(Tail(Each("row", n)) \o Tail(Each("index", n))) = Of("row", 2..n) \cup Of("index", 2..n)
      BY <3>1, HasConcat
    <3>3. Back(n) = Tail(Each("row", n)) \o Tail(Each("index", n))
      BY <2>1 DEF Back, From
    <3> QED BY <2>1, <3>2, <3>3
  <2>2. CASE ~(n >= 2)
    <3>1. Back(n) = <<>> /\ B = {}
      BY <2>2 DEF Back, From
    <3>2. <<>> \in Seq(Records) /\ Has(<<>>) = {}
      BY DEF Has
    <3> QED BY <3>1, <3>2
  <2> QED BY <2>1, <2>2
<1>3. PICK w : w = Front(n) \o Back(n)
  OBVIOUS
<1>4. Dump(n) = w
  BY <1>3 DEF Dump, Front, Back
<1>5. w \in Seq(Records) /\ Has(w) = F \cup B
  BY <1>1, <1>2, <1>3, HasConcat
<1>6. Len(w) \in Nat /\ DOMAIN w = 1..Len(w)
  BY <1>5, LenProperties
<1>7. /\ \A i \in 0..MaxHist : Rec("row", i, Master).k = "row" /\ Rec("row", i, Master).i = i
      /\ \A i \in 0..MaxHist : Rec("index", i, Master).k = "index" /\ Rec("index", i, Master).i = i
      /\ \A i \in 0..MaxHist : Rec("audit", i, Master).k = "audit"
      /\ Rec("canary", 0, Master).k = "canary" /\ Rec("canary", 0, Master).v = Master
      /\ Rec("catalog", 0, Master).k = "catalog" /\ Rec("seq", 0, Master).k = "seq"
      /\ Rec("params", 0, "salt").k = "params" /\ Rec("params", 0, "salt").v = "salt"
      /\ Rec("head", 0, <<Master, n>>).k = "head" /\ Rec("head", 0, <<Master, n>>).v = <<Master, n>>
  BY DEF Rec
<1>8. ASSUME NEW r \in F
      PROVE  /\ r.k \notin {"row", "index"}
             /\ r.k = "canary" => r.v = Master
             /\ r.k = "head" => n >= 1 /\ r.v = <<Master, n>>
  <2>1. \A x \in Of("audit", 1..n) : x.k = "audit"
    BY <1>0, <1>7 DEF Of
  <2>2. \/ n >= 1 /\ r \in {Rec("head", 0, <<Master, n>>), Rec("catalog", 0, Master)}
        \/ r \in {Rec("canary", 0, Master), Rec("params", 0, "salt"), Rec("seq", 0, Master)}
        \/ r \in Of("audit", 1..n)
    BY FrontHas
  <2> HIDE DEF F
  <2> QED BY <1>7, <2>1, <2>2
<1>9. ASSUME NEW r \in B PROVE r.k \in {"row", "index"} /\ r.i \in 2..n
  <2>1. n >= 2 /\ r \in Of("row", 2..n) \cup Of("index", 2..n)
    BY <1>9
  <2>2. PICK i \in 2..n : r = Rec("row", i, Master) \/ r = Rec("index", i, Master)
    BY <2>1 DEF Of
  <2>3. i \in 0..MaxHist
    BY <1>0
  <2> QED BY <1>7, <2>2, <2>3
<1>10. ASSUME NEW k \in {"row", "index"} PROVE Stored(w, k) = 2..n
  <2>1. Stored(w, k) = {w[j].i : j \in {j \in 1..Len(w) : w[j].k = k}}
    BY <1>6 DEF Stored
  <2>2. ASSUME NEW x \in Stored(w, k) PROVE x \in 2..n
    <3>1. PICK j \in 1..Len(w) : w[j].k = k /\ x = w[j].i
      BY <2>1
    <3>2. w[j] \in F \cup B
      BY <1>5 DEF Has
    <3> QED BY <1>8, <1>9, <3>1, <3>2
  <2>3. ASSUME NEW x \in 2..n PROVE x \in Stored(w, k)
    <3>1. x \in 0..MaxHist /\ n >= 2
      BY <1>0
    <3>2. Rec(k, x, Master) \in Has(w) /\ Rec(k, x, Master).k = k /\ Rec(k, x, Master).i = x
      <4>1. Rec(k, x, Master) \in Of("row", 2..n) \cup Of("index", 2..n)
        BY DEF Of
      <4> HIDE DEF F
      <4> QED BY <1>5, <1>7, <3>1, <4>1
    <3>3. PICK j \in 1..Len(w) : w[j] = Rec(k, x, Master)
      BY <3>2 DEF Has
    <3> QED BY <2>1, <3>2, <3>3
  <2> QED BY <2>2, <2>3
<1>11. ASSUME NEW j \in 1..Len(w)
       PROVE  /\ w[j].k = "canary" => w[j].v = Master
              /\ w[j].k = "head" => n >= 1 /\ w[j].v = <<Master, n>>
  <2>1. w[j] \in F \cup B
    BY <1>5 DEF Has
  <2> HIDE DEF F, B
  <2> QED BY <1>8, <1>9, <2>1
<1>12. PICK l \in 1..Len(Front(n)) : Front(n)[l] = Rec("canary", 0, Master)
  BY FrontHas DEF Has
<1>13. /\ Len(w) = Len(Front(n)) + Len(Back(n)) /\ Len(Back(n)) \in Nat
       /\ \A i \in 1..Len(Front(n)) : w[i] = Front(n)[i]
  <2>1. Len(Back(n)) \in Nat
    BY <1>2, LenProperties
  <2>2. /\ Len(w) = Len(Front(n)) + Len(Back(n))
        /\ \A i \in 1..(Len(Front(n)) + Len(Back(n))) :
             w[i] = IF i <= Len(Front(n)) THEN Front(n)[i] ELSE Back(n)[i - Len(Front(n))]
    BY <1>1, <1>2, <1>3, ConcatProperties
  <2> QED BY <1>1, <2>1, <2>2
<1>14. ASSUME NEW j \in 1..Len(w), w[j].k = "row"
       PROVE  \E i \in 1..(j - 1) : w[i].k = "canary" /\ w[i].v = Master
  <2>1. ~(j \in 1..Len(Front(n)))
    <3> SUFFICES ASSUME j \in 1..Len(Front(n)) PROVE FALSE
      OBVIOUS
    <3>1. w[j] \in F
      BY <1>13 DEF Has
    <3> QED BY <1>8, <1>14, <3>1
  <2>2. l \in 1..(j - 1)
    BY <1>1, <1>13, <2>1
  <2>3. w[l].k = "canary" /\ w[l].v = Master
    BY <1>7, <1>12, <1>13
  <2> QED BY <2>2, <2>3
<1>15. LogOK(w)
  BY <1>5, <1>11, <1>14 DEF LogOK
<1>16. Rec("params", 0, "salt") \in Has(w) /\ Rec("canary", 0, Master) \in Has(w)
       /\ (n >= 1 => Rec("head", 0, <<Master, n>>) \in Has(w))
  BY <1>5, FrontHas
<1>17. Value(w, "params") # None
  <2>1. PICK j \in 1..Len(w) : w[j] = Rec("params", 0, "salt")
    BY <1>16 DEF Has
  <2>2. PICK m \in 1..Len(w) : w[m].k = "params" /\ Value(w, "params") = w[m].v
    BY <1>5, <1>7, <2>1, ValueIs, SMTT(30)
  <2>3. w[m] \in Records
    BY <1>5, ElementOfSeq
  <2>4. w[m].v \in Salts
    BY <2>2, <2>3 DEF Records
  <2> QED BY <2>2, <2>4, NoneIsNoValue
<1>18. Value(w, "canary") = Master
  <2>1. PICK j \in 1..Len(w) : w[j] = Rec("canary", 0, Master)
    BY <1>16 DEF Has
  <2> QED BY <1>5, <1>7, <1>11, <2>1, ValueIs
<1>19. Value(w, "head") = IF n = 0 THEN None ELSE <<Master, n>>
  <2>1. CASE n = 0
    BY <1>5, <1>11, <2>1, ValueIs
  <2>2. CASE n # 0
    <3>1. PICK j \in 1..Len(w) : w[j] = Rec("head", 0, <<Master, n>>)
      BY <1>0, <1>16, <2>2 DEF Has
    <3> QED BY <1>5, <1>7, <1>11, <2>2, <3>1, ValueIs, SMTT(30)
  <2> QED BY <2>1, <2>2
<1> QED BY <1>4, <1>10, <1>15, <1>17, <1>18, <1>19

-----------------------------------------------------------------------------
(* The invariant holds initially and every step keeps it.                  *)

(* Before the first statement there is no file, no log and no engine.      *)
LEMMA InitInv == Init => IInv
BY BoundsAreNat, NoneIsNoValue DEF Init, IInv, TypeOK, Visible

(* Statements and transactions of the database that is backed up.          *)
LEMMA DatabaseInv == IInv /\ (Execute \/ Begin \/ EndTransaction) => IInv'
<1> SUFFICES ASSUME IInv, Execute \/ Begin \/ EndTransaction PROVE IInv'
  OBVIOUS
<1>1. UNCHANGED <<file, noted, wal, unsynced, eng, faults>>
  BY DEF Execute, Begin, EndTransaction
<1>2. MaxHist \in Nat /\ hist \in 0..MaxHist /\ pending \in (0..MaxHist) \cup {None} /\ None \notin Nat
      /\ Visible \in 0..MaxHist
  BY BoundsAreNat, NoneIsNoValue DEF IInv, TypeOK
<1>3. hist' \in 0..MaxHist /\ pending' \in (0..MaxHist) \cup {None} /\ Visible' \in 0..MaxHist
  <2>1. CASE Execute
    BY <1>2, <2>1 DEF Execute, Visible
  <2>2. CASE Begin
    BY <1>2, <2>2 DEF Begin, Visible
  <2>3. CASE EndTransaction
    <3>1. pending \in 0..MaxHist /\ hist + pending \in 0..MaxHist
      BY <1>2, <2>3 DEF EndTransaction, Visible
    <3>2. hist' \in 0..MaxHist /\ pending' = None
      BY <1>2, <2>3, <3>1 DEF EndTransaction
    <3>3. Visible' = hist' + 0
      BY <3>2 DEF Visible
    <3>4. \A i \in 0..MaxHist : i + 0 = i
      BY BoundsAreNat
    <3> QED BY <3>2, <3>3, <3>4
  <2> QED BY <2>1, <2>2, <2>3
<1> QED BY <1>1, <1>3 DEF IInv, TypeOK, Value

(* A finished, interrupted or truncated snapshot file.                     *)
LEMMA FileInv ==
  ASSUME IInv, BackupTo \/ \E n \in Nat : BackupInterrupted(n) \/ FileTruncated(n)
  PROVE  IInv'
<1>1. UNCHANGED <<hist, pending, wal, unsynced, eng>> /\ faults' \in 0..MaxFaults
  BY BoundsAreNat DEF IInv, BackupTo, BackupInterrupted, FileTruncated
<1>2. Visible \in 0..MaxHist /\ Visible' = Visible /\ LogOK(Dump(Visible))
  BY <1>1, DumpHas DEF IInv, Visible
<1>3. LogOK(file') /\ noted' \in (0..MaxHist) \cup {None} /\ (noted' # None => file' = Dump(noted'))
  <2>1. CASE BackupTo
    BY <1>2, <2>1 DEF BackupTo
  <2>2. ASSUME NEW n \in Nat, BackupInterrupted(n) PROVE LogOK(file') /\ noted' = None
    <3>1. PICK w : w = Dump(Visible)
      OBVIOUS
    <3>2. LogOK(w) /\ Len(w) \in Nat /\ n < Len(w) /\ file' = SubSeq(w, 1, n) /\ noted' = None
      BY <1>2, <2>2, <3>1, LenProperties DEF BackupInterrupted, LogOK
    <3>3. LogOK(SubSeq(w, 1, n))
      BY <3>2, PrefixOK
    <3> QED BY <3>2, <3>3
  <2>3. ASSUME NEW n \in Nat, FileTruncated(n) PROVE LogOK(file') /\ noted' = None
    <3>2. LogOK(file) /\ Len(file) \in Nat /\ n < Len(file) /\ file' = SubSeq(file, 1, n) /\ noted' = None
      BY <2>3, LenProperties DEF FileTruncated, LogOK, IInv
    <3>3. LogOK(SubSeq(file, 1, n))
      BY <3>2, PrefixOK
    <3> QED BY <3>2, <3>3
  <2> QED BY <2>1, <2>2, <2>3
<1> QED BY <1>1, <1>2, <1>3 DEF IInv, TypeOK, Value

(* The log of the target is a part of the file, or loses its own tail.     *)
LEMMA LossInv ==
  ASSUME IInv, NEW n \in Nat, RestoreInterrupted(n) \/ PowerLoss(n)
  PROVE  IInv'
<1>1. UNCHANGED <<hist, pending, file, noted>> /\ faults' \in 0..MaxFaults /\ Visible' = Visible
  BY BoundsAreNat DEF IInv, RestoreInterrupted, PowerLoss, Visible
<1>2. PICK w : w = IF RestoreInterrupted(n) THEN file ELSE wal
  OBVIOUS
<1>3. LogOK(w) /\ n < Len(w) /\ wal' = SubSeq(w, 1, n)
  BY <1>2 DEF IInv, TypeOK, RestoreInterrupted, PowerLoss
<1>4. LogOK(SubSeq(w, 1, n))
  <2>1. n \in 0..Len(w)
    BY <1>3, LenProperties DEF LogOK
  <2> QED BY <1>3, <2>1, PrefixOK
<1>5. LogOK(wal') /\ wal' # None
  BY <1>3, <1>4, LogIsThere DEF LogOK
<1>6. eng' = None
  BY DEF IInv, RestoreInterrupted, PowerLoss
<1> QED BY <1>1, <1>5, <1>6 DEF IInv, TypeOK

(* A restore: the engine it leaves is the one that opened the copy.        *)
LEMMA RestoreInv ==
  ASSUME IInv, NEW pass \in Passphrases, RestoreFrom(pass)
  PROVE  IInv'
<1>1. UNCHANGED <<hist, pending, file, noted, faults>> /\ Visible' = Visible
  BY DEF RestoreFrom, Visible
<1>2. PICK o : o = OpenStore(file, pass)
  OBVIOUS
<1>3. LogOK(file)
  BY DEF IInv, RestoreFrom
<1>4. /\ LogOK(o.wal)
      /\ o.eng # None => o.eng \in Engines /\ o.eng.key = Value(o.wal, "canary")
  BY <1>2, <1>3, OpenStoreIs
<1>5. wal' = o.wal /\ (eng' = None \/ (o.eng # None /\ eng' = [o.eng EXCEPT !.verified = TRUE]))
  BY <1>2 DEF RestoreFrom
<1>6. eng' # None => eng' \in Engines /\ eng'.key = Value(wal', "canary")
  BY <1>4, <1>5 DEF Engines
<1>7. LogOK(wal') /\ wal' # None
  BY <1>4, <1>5, LogIsThere DEF LogOK
<1>8. eng' # None => eng'.key \in Keys
  BY <1>6 DEF Engines
<1> QED BY <1>1, <1>6, <1>7, <1>8 DEF IInv, TypeOK

(* An opening of the target that is no restore.                            *)
LEMMA OpenTargetInv ==
  ASSUME IInv, NEW pass \in Passphrases, OpenTarget(pass)
  PROVE  IInv'
<1>1. UNCHANGED <<hist, pending, file, noted, faults>> /\ Visible' = Visible
  BY DEF OpenTarget, Visible
<1>2. PICK o : o = OpenStore(wal, pass)
  OBVIOUS
<1>3. LogOK(wal)
  BY DEF IInv, OpenTarget
<1>4. /\ LogOK(o.wal)
      /\ o.eng # None => o.eng \in Engines /\ o.eng.key = Value(o.wal, "canary")
  BY <1>2, <1>3, OpenStoreIs
<1>5. wal' = o.wal /\ eng' = o.eng
  BY <1>2 DEF OpenTarget
<1>6. eng' # None => eng' \in Engines /\ eng'.key = Value(wal', "canary") /\ eng'.key \in Keys
  BY <1>4, <1>5 DEF Engines
<1>7. LogOK(wal') /\ wal' # None
  BY <1>4, <1>5, LogIsThere DEF LogOK
<1> QED BY <1>1, <1>6, <1>7 DEF IInv, TypeOK

(* Every step keeps the invariant.                                         *)
LEMMA NextInv == IInv /\ [Next]_vars => IInv'
<1> SUFFICES ASSUME IInv, [Next]_vars PROVE IInv'
  OBVIOUS
<1>1. CASE UNCHANGED vars
  BY <1>1 DEF vars, IInv, TypeOK, Visible, Value
<1>2. CASE Execute \/ Begin \/ EndTransaction
  BY <1>2, DatabaseInv
<1>3. CASE BackupTo
  BY <1>3, FileInv
<1>4. ASSUME NEW n \in 0..(Len(Dump(MaxHist)) - 1),
             BackupInterrupted(n) \/ FileTruncated(n) \/ RestoreInterrupted(n) \/ PowerLoss(n)
      PROVE  IInv'
  <2>1. n \in Nat
    OBVIOUS
  <2> QED BY <1>4, <2>1, FileInv, LossInv
<1>5. ASSUME NEW pass \in Passphrases, RestoreFrom(pass) \/ OpenTarget(pass) PROVE IInv'
  BY <1>5, RestoreInv, OpenTargetInv
<1>6. CASE CloseTarget
  BY <1>6 DEF CloseTarget, IInv, TypeOK, Visible
<1> QED BY <1>1, <1>2, <1>3, <1>4, <1>5, <1>6 DEF Next

-----------------------------------------------------------------------------
(* The results.                                                            *)

(* The inductive invariant holds in every reachable state.                 *)
THEOREM Invariance == Spec => []IInv
BY InitInv, NextInv, PTL DEF Spec

(* Types, and: a file whose audit head is still noted is exactly the dump  *)
(* of that many statements (backup_to, restore_from).                      *)
THEOREM BackupTypes == Spec => []TypeOK
<1>1. IInv => TypeOK
  BY DEF IInv
<1> QED BY <1>1, Invariance, PTL

(* Whatever is lost of a copy and whatever failed attempts have added to   *)
(* it, Engine::open opens a log that holds rows under no key but theirs.   *)
THEOREM RowsStayWithTheirKey == Spec => []RowsNeedTheirKey
<1>1. IInv => RowsNeedTheirKey
  BY RowsHaveTheirCanary DEF IInv, RowsNeedTheirKey
<1> QED BY <1>1, Invariance, PTL

(* A restore of an undamaged backup gives exactly the state its audit head *)
(* was printed for: the head, every row, every index entry, the right key  *)
(* (restore_from, and Engine::open on the copy).                           *)
THEOREM RestoresAreExact == Spec => RestoreIsBackup
<1> DEFINE A == (Restored /\ noted # None) =>
                  /\ eng'.head = noted
                  /\ Stored(wal', "row") = 2..noted /\ Stored(wal', "index") = 2..noted
                  /\ eng'.key = Master
<1>1. ASSUME IInv, [Next]_vars PROVE [A]_vars
  <2> SUFFICES ASSUME Restored, noted # None PROVE A
    OBVIOUS
  <2>1. PICK pass \in Passphrases : RestoreFrom(pass)
    <3>1. eng = None /\ eng' # None
      BY DEF Restored
    <3>2. ASSUME NEW pass \in Passphrases, OpenTarget(pass) PROVE FALSE
      <4>1. LogOK(wal) /\ eng' = OpenStore(wal, pass).eng
        BY <1>1, <3>2 DEF IInv, OpenTarget
      <4>2. ~eng'.verified
        BY <3>1, <4>1, OpenStoreIs
      <4> QED BY <4>2 DEF Restored
    <3>3. UNCHANGED eng \/ eng' = None \/ \E pass \in Passphrases : RestoreFrom(pass) \/ OpenTarget(pass)
      BY <1>1 DEF Next, vars, Execute, Begin, EndTransaction, BackupTo, BackupInterrupted,
                  FileTruncated, RestoreInterrupted, PowerLoss, CloseTarget
    <3> QED BY <3>1, <3>2, <3>3
  <2>2. PICK n \in 0..MaxHist : n = noted /\ file = Dump(n)
    BY <1>1 DEF IInv, TypeOK
  <2>3. PICK o : o = OpenStore(file, pass)
    OBVIOUS
  <2>4. /\ LogOK(file) /\ Value(file, "params") # None /\ Value(file, "canary") = Master
        /\ Value(file, "head") = (IF n = 0 THEN None ELSE <<Master, n>>)
        /\ Stored(file, "row") = 2..n /\ Stored(file, "index") = 2..n
    BY <2>2, DumpHas
  <2>5. Master # None
    BY MasterIsKey, NoneIsNoValue
  <2>6. /\ o.eng # None => /\ o.eng \in Engines
                           /\ o.eng.key = Value(o.wal, "canary")
                           /\ o.eng.head = IF Value(o.wal, "head") = None THEN 0
                                           ELSE Value(o.wal, "head")[2]
        /\ o.wal = file
    BY <2>3, <2>4, <2>5, OpenStoreIs
  <2>7. wal' = o.wal /\ o.eng # None /\ eng' = [o.eng EXCEPT !.verified = TRUE]
    BY <2>1, <2>3 DEF RestoreFrom, Restored
  <2>8. eng'.key = o.eng.key /\ eng'.head = o.eng.head
    BY <2>6, <2>7 DEF Engines
  <2>9. <<Master, n>> # None
    <3>1. <<Master, n>> \in Keys \X (0..MaxHist)
      BY MasterIsKey
    <3> QED BY <3>1, NoneIsNoValue
  <2>10. o.eng.head = n
    BY <2>4, <2>6, <2>7, <2>9
  <2> QED BY <2>2, <2>4, <2>6, <2>7, <2>8, <2>10
<1> QED BY <1>1, Invariance, PTL DEF Spec, RestoreIsBackup

(* Short of a loss, no step takes a record out of a log that is there:     *)
(* restore_from refuses it and Engine::open only adds to it.               *)
THEOREM LogsAreKept == Spec => NeverOverwrites
<1> DEFINE A == (wal # None /\ faults' = faults) =>
                  /\ wal' # None /\ Len(wal') >= Len(wal)
                  /\ SubSeq(wal', 1, Len(wal)) = wal
<1>1. ASSUME IInv, [Next]_vars PROVE [A]_vars
  <2> SUFFICES ASSUME wal # None, faults' = faults PROVE A
    OBVIOUS
  <2>1. LogOK(wal) /\ wal \in Seq(Records) /\ Len(wal) \in Nat /\ faults \in Nat
    BY <1>1, BoundsAreNat, LenProperties DEF IInv, LogOK
  <2>2. wal' = wal \/ \E pass \in Passphrases : OpenTarget(pass)
    BY <1>1, <2>1 DEF Next, vars, Execute, Begin, EndTransaction, BackupTo, BackupInterrupted,
                      FileTruncated, RestoreInterrupted, PowerLoss, CloseTarget, RestoreFrom
  <2>3. Extends(wal, wal')
    <3>1. CASE wal' = wal
      BY <2>1, <3>1, ExtendsBy
    <3>2. ASSUME NEW pass \in Passphrases, OpenTarget(pass) PROVE Extends(wal, wal')
      BY <2>1, <3>2, OpenStoreIs DEF OpenTarget
    <3> QED BY <2>2, <3>1, <3>2
  <2> QED BY <2>3, LogIsThere DEF Extends
<1> QED BY <1>1, Invariance, PTL DEF Spec, NeverOverwrites
=============================================================================
