------------------------ MODULE SharedDatabaseProofs ------------------------
(***************************************************************************)
(* Proofs about SharedDatabase, for every set of engines, every set of     *)
(* values and every bound on statements and lost connections.              *)
(***************************************************************************)
EXTENDS SharedDatabase, FiniteSetTheorems, SequenceTheorems, WellFoundedInduction, TLAPS

-----------------------------------------------------------------------------
(* The inductive invariant.                                                *)

Salts == Engines \X (0..MaxLost)
Statements == [op : {"insert", "delete"}, val : Values, by : Engines]
Heads == [n : Nat, root : Seq(Statements)]
Opening == {"closed", "params", "canary", "seal canary", "head"}
Busy == {"fetch", "answer", "commit"}

EngineType ==
  [pc : Opening \cup Busy \cup {"idle"}, key : Salts \cup {None}, head : Heads,
   op : {"insert", "delete", "select", None}, val : Values \cup {None},
   ids : SUBSET Ids, got : SUBSET Ids, next : Nat, since : Nat, known : Nat,
   refused : BOOLEAN]

Types ==
  /\ params \in Salts \cup {None} /\ canary \in Salts \cup {None}
  /\ rows \in [Ids -> Values \cup {None}]
  /\ index \subseteq Values \X Ids
  /\ nextId \in 0..MaxLog /\ nextId <= Len(log)
  /\ head \in Heads /\ head.n = Len(head.root)
  /\ eng \in [Engines -> EngineType]
  /\ lost \in 0..MaxLost
  /\ log \in Seq(Statements) /\ Len(log) <= MaxLog
  /\ hist \in Seq([Ids -> Values \cup {None}]) /\ Len(hist) = Len(log) + 1
  /\ hist[Len(hist)] = rows
  /\ DOMAIN audit = Ids

(* What an engine r holds is what it has read, in range and in order.      *)
EngineInv(r) ==
  /\ r.head.n = Len(r.head.root)
  /\ r.known <= Len(log) /\ r.next <= Len(log)
  /\ r.pc \in Busy =>
       /\ r.val \in Values /\ r.since \in 1..Len(hist)
       /\ r.known = Len(log) => r.since = Len(hist)
  /\ r.pc = "commit" => r.op \in {"insert", "delete"}
  /\ r.pc = "fetch" => r.op \in {"delete", "select"}
  /\ r.pc = "answer" => r.op = "select"

(* The rows fetched so far held the value at some time since the statement *)
(* began; what held it all the time is fetched or still to be fetched.     *)
ReadInv(r) ==
  (r.pc \in {"fetch", "answer"} \/ (r.pc = "commit" /\ r.op = "delete")) =>
    /\ \A id \in r.got : \E i \in r.since..Len(hist) : hist[i][id] = r.val
    /\ \A id \in Ids :
         (\A i \in r.since..Len(hist) : hist[i][id] = r.val) => id \in r.got \cup r.ids
    /\ r.pc # "fetch" => r.ids = {}

(* A salt is stored before its key is used.                                *)
KeyInv(r) ==
  /\ ~r.refused
  /\ r.pc = "params" => r.key # None
  /\ r.pc \notin {"closed", "params"} => r.key = params /\ params # None

(* An engine that knows the last commit holds nothing stale.               *)
FreshInv(r) ==
  (r.pc \notin Opening /\ r.known = Len(log)) =>
    /\ r.head.root = log
    /\ (r.pc = "commit" /\ r.op = "insert") => r.next = nextId

EngineOK(r) ==
  /\ r \in EngineType /\ EngineInv(r) /\ ReadInv(r)
  /\ "create" \notin raced => KeyInv(r)
  /\ "write" \notin raced => FreshInv(r)

(* Every row has its index entry, also when writers have raced.            *)
IndexInv == \A id \in Ids : rows[id] # None => <<rows[id], id>> \in index

(* Only one salt is in use.                                                *)
CanaryInv == ("create" \notin raced /\ canary # None) => canary = params

SerialInv ==
  "write" \notin raced =>
    /\ head.root = log
    /\ \A i \in 1..Len(log) : audit[i - 1] = [prev |-> SubSeq(log, 1, i - 1), stmt |-> log[i]]
    /\ \A id \in Ids : id >= nextId => rows[id] = None
    /\ \A v \in Values : Cardinality(Holding(rows, v)) = Cardinality(Kept(v))

IInv == /\ Types /\ IndexInv /\ CanaryInv /\ SerialInv
        /\ \A e \in Engines : EngineOK(eng[e])

-----------------------------------------------------------------------------
(* Sets of naturals have a least element: Fetch asks for the row with the  *)
(* smallest id.                                                            *)
LEMMA LeastExists ==
  ASSUME NEW T \in SUBSET Nat, T # {}
  PROVE  \E x \in T : \A y \in T : x <= y
<1>1. PICK x \in T : \A y \in T : ~(<<y, x>> \in OpToRel(<, Nat))
  BY WFMin, NatLessThanWellFounded
<1>2. \A y \in T : y < x => <<y, x>> \in OpToRel(<, Nat)
  BY DEF OpToRel
<1>3. \A y \in T : ~(y < x)
  BY <1>1, <1>2
<1>4. x \in Nat /\ \A y \in T : y \in Nat
  OBVIOUS
<1> QED BY <1>3, <1>4

(* The closed engine satisfies every clause.                               *)
LEMMA ClosedOK ==
  ASSUME Types, NEW b \in BOOLEAN, "create" \notin raced => b = FALSE
  PROVE  EngineOK([Closed EXCEPT !.refused = b]) /\ EngineOK(Closed)
<1>1. Closed \in EngineType /\ [Closed EXCEPT !.refused = b] \in EngineType
  <2>1. <<>> \in Seq(Statements)
    OBVIOUS
  <2> QED BY <2>1 DEF Closed, EngineType, Genesis, Heads, Opening
<1>2. Len(log) \in Nat
  BY DEF Types
<1> QED BY <1>1, <1>2 DEF EngineOK, EngineInv, ReadInv, KeyInv, FreshInv, Closed, Genesis, Busy, Opening

(* A step of one engine that changes nothing on the server.                *)
LEMMA EngineStep ==
  ASSUME IInv, NEW e \in Engines, NEW r, EngineOK(r),
         eng' = [eng EXCEPT ![e] = r],
         UNCHANGED <<stored, raced, log, hist>>, lost' \in 0..MaxLost
  PROVE  IInv'
<1> USE DEF stored
<1>1. Types'
  BY DEF IInv, Types, EngineOK
<1>2. IndexInv' /\ CanaryInv' /\ SerialInv'
  BY DEF IInv, IndexInv, CanaryInv, SerialInv, Holding, Kept
<1>3. ASSUME NEW d \in Engines PROVE EngineOK(eng[d])'
  <2>1. EngineOK(eng'[d])
    BY DEF IInv, Types
  <2> QED BY <2>1 DEF EngineOK, EngineInv, ReadInv, KeyInv, FreshInv
<1> QED BY <1>1, <1>2, <1>3 DEF IInv

-----------------------------------------------------------------------------
(* Opening.                                                                *)

(* Nothing is stored and nobody is connected.                              *)
LEMMA InitInv == Init => IInv
<1> SUFFICES ASSUME Init PROVE IInv
  OBVIOUS
<1> DEFINE none == [id \in Ids |-> None]
<1>1. Types
  <2>1. <<>> \in Seq(Statements) /\ Len(<<>>) = 0
    OBVIOUS
  <2>2. none \in [Ids -> Values \cup {None}]
    OBVIOUS
  <2>3. <<none>> \in Seq([Ids -> Values \cup {None}]) /\ Len(<<none>>) = 1 /\ <<none>>[1] = none
    BY <2>2
  <2>4. Genesis \in Heads /\ Genesis.n = Len(Genesis.root)
    BY <2>1 DEF Genesis, Heads
  <2>5. Closed \in EngineType
    BY <2>4 DEF Closed, EngineType, Opening
  <2> HIDE DEF none
  <2>6. hist = <<none>>
    BY DEF Init, none
  <2> QED BY <2>1, <2>2, <2>3, <2>4, <2>5, <2>6, BoundsAreNat DEF Init, Types, none
<1>2. IndexInv /\ CanaryInv
  BY DEF Init, IndexInv, CanaryInv
<1>3. SerialInv
  <2>1. log = <<>> /\ head.root = <<>> /\ Len(log) = 0 /\ DOMAIN log = {}
    BY DEF Init, Genesis
  <2>2. \A v \in Values : Kept(v) = {}
    BY <2>1 DEF Kept
  <2>3. \A v \in Values : Holding(rows, v) = {}
    BY NoneIsNoValue DEF Holding, Init
  <2>4. \A id \in Ids : rows[id] = None
    BY DEF Init
  <2> QED BY <2>1, <2>2, <2>3, <2>4 DEF SerialInv
<1>4. \A e \in Engines : EngineOK(eng[e])
  BY <1>1, ClosedOK DEF Init
<1> QED BY <1>1, <1>2, <1>3, <1>4 DEF IInv

(* An engine is closed, by the program or by a lost connection.            *)
LEMMA CloseInv ==
  ASSUME IInv, NEW e \in Engines, Close(e) \/ Lose(e)
  PROVE  IInv'
<1>1. EngineOK(Closed)
  BY ClosedOK DEF IInv
<1>2. lost' \in 0..MaxLost
  BY BoundsAreNat DEF IInv, Types, Close, Lose
<1> QED BY <1>1, <1>2, EngineStep DEF Close, Lose

(* The parameters are read.                                                *)
LEMMA GetParamsInv ==
  ASSUME IInv, NEW e \in Engines, GetParams(e)
  PROVE  IInv'
<1> DEFINE r == IF params = None THEN Drawing(e) ELSE [Closed EXCEPT !.pc = "canary", !.key = params]
<1>0. /\ lost \in 0..MaxLost /\ params \in Salts \cup {None} /\ Len(log) \in Nat
      /\ Closed \in EngineType /\ Genesis.n = 0 /\ Len(Genesis.root) = 0
  <2>1. Types
    BY DEF IInv
  <2>2. EngineOK(Closed)
    BY <2>1, ClosedOK
  <2>3. Genesis.n = 0 /\ Len(Genesis.root) = 0
    BY DEF Genesis
  <2> QED BY <2>1, <2>2, <2>3 DEF EngineOK, Types
<1>1. <<e, lost>> \in Salts /\ <<e, lost>> # None
  BY <1>0, NoneIsNoValue DEF Salts
<1>2. r \in EngineType
  BY <1>0, <1>1 DEF EngineType, Opening, Drawing
<1>3. /\ r.pc \in {"params", "canary"} /\ ~r.refused /\ r.head = Genesis /\ r.known = 0 /\ r.next = 0
      /\ r.pc = "params" => r.key # None
      /\ r.pc = "canary" => r.key = params /\ params # None
  BY <1>1 DEF Drawing, Closed
<1> HIDE DEF r
<1>4. EngineOK(r)
  <2>0. r.pc \notin Busy /\ r.pc \in Opening /\ r.head.n = 0 /\ Len(r.head.root) = 0
    BY <1>0, <1>3 DEF Busy, Opening
  <2>1. EngineInv(r) /\ ReadInv(r) /\ FreshInv(r)
    BY <1>0, <1>3, <2>0 DEF EngineInv, ReadInv, FreshInv, Busy
  <2>2. r.pc \notin {"closed", "params"} => r.key = params /\ params # None
    BY <1>3
  <2>3. KeyInv(r)
    BY <1>3, <2>2, Zenon DEF KeyInv
  <2> QED BY <1>2, <2>1, <2>3 DEF EngineOK
<1> QED BY <1>0, <1>4, EngineStep DEF GetParams, r

(* The canary is read: it opens, or is missing, or the engine is refused.  *)
LEMMA CheckCanaryInv ==
  ASSUME IInv, NEW e \in Engines, CheckCanary(e)
  PROVE  IInv'
<1> DEFINE o == eng[e]
<1>0. lost \in 0..MaxLost /\ EngineOK(o) /\ o.pc = "canary" /\ Types
  BY DEF IInv, Types, CheckCanary
<1>1. ASSUME NEW p \in {"seal canary", "head"} PROVE EngineOK([o EXCEPT !.pc = p])
  <2> DEFINE r == [o EXCEPT !.pc = p]
  <2>1. r \in EngineType
    BY <1>0 DEF EngineOK, EngineType, Opening
  <2>2. /\ r.pc = p /\ r.head = o.head /\ r.known = o.known /\ r.next = o.next
        /\ r.refused = o.refused /\ r.key = o.key
    BY <1>0 DEF EngineOK, EngineType
  <2> HIDE DEF r
  <2>3. EngineOK(r)
    BY <1>0, <2>1, <2>2 DEF EngineOK, EngineInv, ReadInv, KeyInv, FreshInv, Busy, Opening
  <2> QED BY <2>3 DEF r
<1>2. ("create" \notin raced /\ canary # None) => canary = o.key
  BY <1>0 DEF IInv, CanaryInv, EngineOK, KeyInv
<1>3. (canary # None /\ canary # o.key) => EngineOK([Closed EXCEPT !.refused = TRUE])
  BY <1>0, <1>2, ClosedOK
<1>4. PICK r : EngineOK(r) /\ eng' = [eng EXCEPT ![e] = r]
  BY <1>1, <1>3 DEF CheckCanary
<1> QED BY <1>0, <1>4, EngineStep DEF CheckCanary

(* The head is loaded: the engine knows the last commit.                   *)
LEMMA LoadHeadInv ==
  ASSUME IInv, NEW e \in Engines, LoadHead(e)
  PROVE  IInv'
<1> DEFINE o == eng[e]
           r == [o EXCEPT !.pc = "idle", !.head = head, !.known = Len(log)]
<1>0. lost \in 0..MaxLost /\ EngineOK(o) /\ o.pc = "head" /\ Types /\ Len(log) \in Nat /\ o \in EngineType
  BY DEF IInv, Types, LoadHead, EngineOK
<1>1. r \in EngineType
  BY <1>0 DEF EngineType, Types
<1>2. /\ r.pc = "idle" /\ r.head = head /\ r.known = Len(log) /\ r.next = o.next
      /\ r.refused = o.refused /\ r.key = o.key
  BY <1>0 DEF EngineType
<1>3. eng' = [eng EXCEPT ![e] = r]
  BY DEF LoadHead, IInv, Types
<1> HIDE DEF r
<1>4. EngineOK(r)
  <2>1. "write" \notin raced => head.root = log
    BY DEF IInv, SerialInv
  <2> QED BY <1>0, <1>1, <1>2, <2>1
      DEF EngineOK, EngineInv, ReadInv, KeyInv, FreshInv, Busy, Opening, Types
<1> QED BY <1>0, <1>3, <1>4, EngineStep DEF LoadHead

(* The salt is stored. Two engines that both drew one are a race.          *)
LEMMA PutParamsInv ==
  ASSUME IInv, NEW e \in Engines, PutParams(e)
  PROVE  IInv'
<1> DEFINE o == eng[e]
           r == [o EXCEPT !.pc = "canary"]
<1>0. EngineOK(o) /\ o.pc = "params" /\ Types /\ o \in EngineType
  BY DEF IInv, PutParams, EngineOK
<1>1. /\ params' = o.key /\ eng' = [eng EXCEPT ![e] = r]
      /\ raced' = IF params = None THEN raced ELSE raced \cup {"create"}
      /\ UNCHANGED <<canary, rows, index, nextId, audit, head, lost, log, hist>>
  BY DEF PutParams, IInv, Types
<1>2. r \in EngineType
  BY <1>0 DEF EngineType, Opening
<1>3. /\ r.pc = "canary" /\ r.head = o.head /\ r.known = o.known /\ r.next = o.next
      /\ r.refused = o.refused /\ r.key = o.key
  BY <1>0 DEF EngineType
<1> HIDE DEF r
<1>4. Types'
  BY <1>0, <1>1, <1>2 DEF Types, EngineType
<1>5. IndexInv'
  BY <1>1 DEF IInv, IndexInv
<1>6. SerialInv'
  <2>1. "write" \notin raced' => "write" \notin raced
    BY <1>1
  <2> QED BY <1>1, <2>1 DEF IInv, SerialInv, Holding, Kept
<1>7. CanaryInv'
  BY <1>1 DEF IInv, CanaryInv
<1>8. ASSUME NEW d \in Engines PROVE EngineOK(eng[d])'
  <2>1. CASE d = e
    <3>1. eng'[d] = r
      BY <1>0, <1>1, <2>1 DEF Types
    <3>2. "create" \notin raced' => r.key # None /\ ~r.refused
      BY <1>0, <1>1, <1>3 DEF EngineOK, KeyInv
    <3> QED BY <1>0, <1>1, <1>2, <1>3, <3>1, <3>2
        DEF EngineOK, EngineInv, ReadInv, KeyInv, FreshInv, Busy, Opening
  <2>2. CASE d # e
    <3>1. eng'[d] = eng[d] /\ EngineOK(eng[d])
      BY <1>1, <2>2 DEF Types, IInv
    <3>2. ASSUME "create" \notin raced' PROVE "create" \notin raced /\ params = None
      BY <3>2, <1>1
    <3>3. "create" \notin raced' => eng[d].pc \in {"closed", "params"}
      BY <3>1, <3>2 DEF EngineOK, KeyInv
    <3>4. "write" \notin raced' => "write" \notin raced
      BY <1>1
    <3> QED BY <1>1, <3>1, <3>2, <3>3, <3>4 DEF EngineOK, EngineInv, ReadInv, KeyInv, FreshInv
  <2> QED BY <2>1, <2>2
<1> QED BY <1>4, <1>5, <1>6, <1>7, <1>8 DEF IInv

(* The canary is sealed under the engine's key.                            *)
LEMMA PutCanaryInv ==
  ASSUME IInv, NEW e \in Engines, PutCanary(e)
  PROVE  IInv'
<1> DEFINE o == eng[e]
           r == [o EXCEPT !.pc = "head"]
<1>0. EngineOK(o) /\ o.pc = "seal canary" /\ Types /\ o \in EngineType
  BY DEF IInv, PutCanary, EngineOK
<1>1. /\ canary' = o.key /\ eng' = [eng EXCEPT ![e] = r]
      /\ UNCHANGED <<params, rows, index, nextId, audit, head, lost, raced, log, hist>>
  BY DEF PutCanary, IInv, Types
<1>2. r \in EngineType
  BY <1>0 DEF EngineType, Opening
<1>3. /\ r.pc = "head" /\ r.head = o.head /\ r.known = o.known /\ r.next = o.next
      /\ r.refused = o.refused /\ r.key = o.key
  BY <1>0 DEF EngineType
<1> HIDE DEF r
<1>4. Types'
  BY <1>0, <1>1, <1>2 DEF Types, EngineType
<1>5. IndexInv' /\ SerialInv'
  BY <1>1 DEF IInv, IndexInv, SerialInv, Holding, Kept
<1>6. CanaryInv'
  BY <1>0, <1>1 DEF CanaryInv, EngineOK, KeyInv
<1>7. ASSUME NEW d \in Engines PROVE EngineOK(eng[d])'
  <2>1. EngineOK(r)
    BY <1>0, <1>2, <1>3 DEF EngineOK, EngineInv, ReadInv, KeyInv, FreshInv, Busy, Opening
  <2>2. EngineOK(eng'[d])
    BY <2>1, <1>1 DEF IInv, Types
  <2> QED BY <1>1, <2>2 DEF EngineOK, EngineInv, ReadInv, KeyInv, FreshInv
<1> QED BY <1>4, <1>5, <1>6, <1>7 DEF IInv

-----------------------------------------------------------------------------
(* Reading.                                                                *)

(* What every step of an open engine starts from.                          *)
LEMMA EngineHas ==
  ASSUME IInv, NEW e \in Engines
  PROVE  /\ Types /\ EngineOK(eng[e]) /\ eng[e] \in EngineType
         /\ lost \in 0..MaxLost /\ Len(log) \in Nat /\ Len(hist) = Len(log) + 1
         /\ hist[Len(hist)] = rows /\ nextId \in Nat /\ nextId <= Len(log)
BY DEF IInv, Types, EngineOK

(* A statement is over.                                                    *)
LEMMA IdleOK ==
  ASSUME IInv, NEW e \in Engines, eng[e].pc \notin Opening
  PROVE  EngineOK(Idle(e))
<1> DEFINE o == eng[e]
           r == Idle(e)
<1>0. EngineOK(o) /\ o \in EngineType /\ Len(log) \in Nat /\ Types
  BY EngineHas
<1>1. Closed \in EngineType
  BY <1>0, ClosedOK DEF EngineOK
<1>2. r \in EngineType
  BY <1>0, <1>1 DEF Idle, EngineType
<1>3. /\ r.pc = "idle" /\ r.key = o.key /\ r.head = o.head /\ r.known = o.known
      /\ r.next = 0 /\ ~r.refused
  BY DEF Idle, Closed
<1> HIDE DEF r
<1>4. EngineOK(r)
  <2>1. EngineInv(r) /\ ReadInv(r)
    BY <1>0, <1>3 DEF EngineOK, EngineInv, ReadInv, Busy
  <2>2. "write" \notin raced => FreshInv(r)
    BY <1>0, <1>3 DEF EngineOK, FreshInv
  <2>3. "create" \notin raced => r.key = params /\ params # None
    BY <1>0, <1>3 DEF EngineOK, KeyInv, Opening
  <2>4. r.pc # "params"
    BY <1>3
  <2>5. "create" \notin raced => KeyInv(r)
    BY <1>3, <2>3, <2>4, Zenon DEF KeyInv
  <2> QED BY <1>2, <2>1, <2>2, <2>5 DEF EngineOK
<1> QED BY <1>4 DEF r

(* INSERT reads the sequence.                                              *)
LEMMA InsertInv ==
  ASSUME IInv, NEW e \in Engines, NEW v \in Values, Insert(e, v)
  PROVE  IInv'
<1> DEFINE o == eng[e]
           r == [o EXCEPT !.pc = "commit", !.op = "insert", !.val = v,
                          !.next = nextId, !.since = Len(hist)]
<1>0. /\ EngineOK(o) /\ o \in EngineType /\ Len(log) \in Nat /\ Types /\ Len(hist) = Len(log) + 1
      /\ lost \in 0..MaxLost /\ nextId \in Nat /\ nextId <= Len(log) /\ o.pc = "idle"
  BY EngineHas DEF Insert
<1>1. r \in EngineType
  <2>1. /\ "commit" \in Opening \cup Busy \cup {"idle"} /\ v \in Values \cup {None}
        /\ Len(hist) \in Nat
    BY <1>0 DEF Busy
  <2> QED BY <1>0, <2>1 DEF EngineType
<1>2. /\ r.pc = "commit" /\ r.op = "insert" /\ r.val = v /\ r.next = nextId /\ r.since = Len(hist)
      /\ r.head = o.head /\ r.known = o.known /\ r.refused = o.refused /\ r.key = o.key
  BY <1>0 DEF EngineType
<1>3. eng' = [eng EXCEPT ![e] = r]
  BY <1>0 DEF Insert, Types
<1> HIDE DEF r
<1>4. EngineOK(r)
  BY <1>0, <1>1, <1>2 DEF EngineOK, EngineInv, ReadInv, KeyInv, FreshInv, Busy, Opening
<1> QED BY <1>0, <1>3, <1>4, EngineStep DEF Insert

(* The index is read: it has an entry for every row that holds the value.  *)
LEMMA LookupInv ==
  ASSUME IInv, NEW e \in Engines, NEW op \in {"delete", "select"}, NEW v \in Values,
         Lookup(e, op, v)
  PROVE  IInv'
<1> DEFINE o == eng[e]
           r == [o EXCEPT !.pc = "fetch", !.op = op, !.val = v, !.ids = IndexRowids(v),
                          !.got = {}, !.since = Len(hist)]
<1>0. /\ EngineOK(o) /\ o \in EngineType /\ Len(log) \in Nat /\ Types /\ Len(hist) = Len(log) + 1
      /\ lost \in 0..MaxLost /\ hist[Len(hist)] = rows /\ o.pc = "idle"
  BY EngineHas DEF Lookup
<1>1. r \in EngineType
  <2>1. /\ "fetch" \in Opening \cup Busy \cup {"idle"} /\ v \in Values \cup {None}
        /\ Len(hist) \in Nat /\ IndexRowids(v) \in SUBSET Ids /\ {} \in SUBSET Ids
        /\ op \in {"insert", "delete", "select", None}
    BY <1>0 DEF Busy, IndexRowids
  <2> QED BY <1>0, <2>1 DEF EngineType
<1>2. /\ r.pc = "fetch" /\ r.op = op /\ r.val = v /\ r.ids = IndexRowids(v) /\ r.got = {}
      /\ r.since = Len(hist) /\ r.next = o.next
      /\ r.head = o.head /\ r.known = o.known /\ r.refused = o.refused /\ r.key = o.key
  BY <1>0 DEF EngineType
<1>3. eng' = [eng EXCEPT ![e] = r]
  BY <1>0 DEF Lookup, Types
<1>4. ASSUME NEW id \in Ids, \A i \in Len(hist)..Len(hist) : hist[i][id] = v
      PROVE  id \in IndexRowids(v)
  <2>1. rows[id] = v
    BY <1>0, <1>4
  <2> QED BY <2>1, NoneIsNoValue DEF IInv, IndexInv, IndexRowids
<1> HIDE DEF r
<1>5. ReadInv(r)
  BY <1>2, <1>4 DEF ReadInv
<1>6. EngineOK(r)
  BY <1>0, <1>1, <1>2, <1>5 DEF EngineOK, EngineInv, KeyInv, FreshInv, Busy, Opening
<1> QED BY <1>0, <1>3, <1>6, EngineStep DEF Lookup

(* One row is fetched; the clause is checked again on what it holds now.   *)
LEMMA FetchInv ==
  ASSUME IInv, NEW e \in Engines, Fetch(e)
  PROVE  IInv'
<1> DEFINE o == eng[e]
           x == CHOOSE i \in o.ids : \A j \in o.ids : i <= j
           r == [o EXCEPT !.ids = @ \ {x}, !.got = IF rows[x] = o.val THEN @ \cup {x} ELSE @]
<1>0. /\ EngineOK(o) /\ o \in EngineType /\ Len(log) \in Nat /\ Types /\ Len(hist) = Len(log) + 1
      /\ lost \in 0..MaxLost /\ hist[Len(hist)] = rows /\ o.pc = "fetch" /\ o.ids # {}
  BY EngineHas DEF Fetch
<1>1. x \in o.ids /\ x \in Ids
  <2>1. o.ids \subseteq Ids /\ Ids \subseteq Nat
    BY <1>0 DEF EngineType, Ids
  <2>2. \E i \in o.ids : \A j \in o.ids : i <= j
    BY <2>1, <1>0, LeastExists
  <2> QED BY <2>1, <2>2
<1>3. eng' = [eng EXCEPT ![e] = r]
  BY <1>0 DEF Fetch, Types
<1> HIDE DEF x
<1>2. r \in EngineType
  BY <1>0, <1>1 DEF EngineType
<1>4. /\ r.pc = "fetch" /\ r.ids = o.ids \ {x}
      /\ r.got = (IF rows[x] = o.val THEN o.got \cup {x} ELSE o.got)
      /\ r.since = o.since /\ r.next = o.next /\ r.op = o.op /\ r.val = o.val
      /\ r.head = o.head /\ r.known = o.known /\ r.refused = o.refused /\ r.key = o.key
  BY <1>0 DEF EngineType
<1>5. o.since \in 1..Len(hist) /\ Len(hist) \in o.since..Len(hist)
  BY <1>0 DEF EngineOK, EngineInv, Busy
<1> HIDE DEF r
<1>6. ReadInv(r)
  <2>1. ASSUME NEW id \in r.got PROVE \E i \in o.since..Len(hist) : hist[i][id] = o.val
    <3>1. CASE id \in o.got
      BY <3>1, <1>0 DEF EngineOK, ReadInv
    <3>2. CASE id = x /\ rows[x] = o.val
      BY <3>2, <1>0, <1>5
    <3> QED BY <2>1, <3>1, <3>2, <1>4
  <2>2. ASSUME NEW id \in Ids, \A i \in o.since..Len(hist) : hist[i][id] = o.val
        PROVE  id \in r.got \cup r.ids
    <3>1. id \in o.got \cup o.ids
      BY <2>2, <1>0 DEF EngineOK, ReadInv
    <3>2. rows[id] = o.val
      BY <2>2, <1>0, <1>5
    <3> QED BY <3>1, <3>2, <1>4
  <2> QED BY <2>1, <2>2, <1>4 DEF ReadInv
<1>7. EngineOK(r)
  BY <1>0, <1>2, <1>4, <1>6 DEF EngineOK, EngineInv, KeyInv, FreshInv, Busy, Opening
<1> QED BY <1>0, <1>3, <1>7, EngineStep DEF Fetch

(* All rows are fetched.                                                   *)
LEMMA FetchedInv ==
  ASSUME IInv, NEW e \in Engines, Fetched(e) \/ Answer(e)
  PROVE  IInv'
<1> DEFINE o == eng[e]
<1>0. EngineOK(o) /\ o \in EngineType /\ lost \in 0..MaxLost
  BY EngineHas
<1>1. ASSUME o.pc = "fetch", o.ids = {}, NEW p \in {"answer", "commit"},
             p = "answer" <=> o.op = "select"
      PROVE  EngineOK([o EXCEPT !.pc = p])
  <2> DEFINE r == [o EXCEPT !.pc = p]
  <2>1. r \in EngineType
    BY <1>0 DEF EngineType, Busy
  <2>2. /\ r.pc = p /\ r.ids = o.ids /\ r.got = o.got
        /\ r.since = o.since /\ r.next = o.next /\ r.op = o.op /\ r.val = o.val
        /\ r.head = o.head /\ r.known = o.known /\ r.refused = o.refused /\ r.key = o.key
    BY <1>0 DEF EngineType
  <2> HIDE DEF r
  <2>3. EngineOK(r)
    BY <1>0, <1>1, <2>1, <2>2 DEF EngineOK, EngineInv, ReadInv, KeyInv, FreshInv, Busy, Opening
  <2> QED BY <2>3 DEF r
<1>2. o.pc \in {"fetch", "answer"} => EngineOK(Idle(e))
  BY IdleOK DEF Opening
<1>3. PICK r : EngineOK(r) /\ eng' = [eng EXCEPT ![e] = r]
  BY <1>1, <1>2 DEF Fetched, Answer
<1> QED BY <1>0, <1>3, EngineStep DEF Fetched, Answer

-----------------------------------------------------------------------------
(* Committing.                                                             *)

(* The beginning of a longer log is the beginning of the log.              *)
LEMMA PrefixOfAppend ==
  ASSUME NEW S, NEW s \in Seq(S), NEW x \in S, NEW n \in 0..Len(s)
  PROVE  /\ SubSeq(Append(s, x), 1, n) = SubSeq(s, 1, n)
         /\ SubSeq(Append(s, x), 1, Len(s)) = s
<1> DEFINE t == Append(s, x)
<1>1. /\ t \in Seq(S) /\ Len(t) = Len(s) + 1 /\ Len(s) \in Nat
      /\ \A i \in 1..Len(s) : t[i] = s[i]
  OBVIOUS
<1> HIDE DEF t
<1>2. ASSUME NEW m \in 0..Len(s), NEW u \in Seq(S), Len(u) >= m
      PROVE  /\ SubSeq(u, 1, m) \in Seq(S) /\ Len(SubSeq(u, 1, m)) = m
             /\ \A i \in 1..m : SubSeq(u, 1, m)[i] = u[i]
  <2>1. 1 \in 1..Len(u) + 1 /\ m \in 1 - 1..Len(u)
    BY <1>2, <1>1
  <2> QED BY <2>1, <1>2, SubSeqProperties
<1> DEFINE a == SubSeq(t, 1, n)
           b == SubSeq(s, 1, n)
           c == SubSeq(t, 1, Len(s))
<1>3. /\ a \in Seq(S) /\ Len(a) = n /\ \A i \in 1..n : a[i] = t[i]
      /\ b \in Seq(S) /\ Len(b) = n /\ \A i \in 1..n : b[i] = s[i]
      /\ c \in Seq(S) /\ Len(c) = Len(s) /\ \A i \in 1..Len(s) : c[i] = t[i]
  BY <1>1, <1>2
<1> HIDE DEF a, b, c
<1>4. a = b
  BY <1>1, <1>3, SeqEqual
<1>5. c = s
  BY <1>1, <1>3, SeqEqual
<1> QED BY <1>4, <1>5 DEF a, b, c, t

(* What serial execution keeps, one statement further.                     *)
LEMMA KeptStep ==
  ASSUME log \in Seq(Statements), NEW st \in Statements, log' = Append(log, st), NEW v \in Values
  PROVE  /\ (st.val = v /\ st.op = "insert") =>
              Kept(v)' = Kept(v) \cup {Len(log) + 1} /\ Len(log) + 1 \notin Kept(v)
         /\ (st.val = v /\ st.op = "delete") => Kept(v)' = {}
         /\ st.val # v => Kept(v)' = Kept(v)
<1>1. /\ Len(log') = Len(log) + 1 /\ DOMAIN log' = 1..(Len(log) + 1) /\ DOMAIN log = 1..Len(log)
      /\ Len(log) \in Nat /\ log'[Len(log) + 1] = st
      /\ \A i \in 1..Len(log) : log'[i] = log[i]
  OBVIOUS
<1>2. st.op = "insert" \/ st.op = "delete"
  BY DEF Statements
<1>3. ASSUME NEW i \in 1..Len(log), ~(st.op = "delete" /\ st.val = v)
      PROVE  i \in Kept(v)' <=> i \in Kept(v)
  <2>1. \A j : j \in (i + 1)..Len(log') <=> j \in (i + 1)..Len(log) \/ j = Len(log) + 1
    BY <1>1
  <2>2. \A j \in (i + 1)..Len(log) : log'[j] = log[j]
    BY <1>1
  <2>3. i \in DOMAIN log /\ i \in DOMAIN log' /\ log'[i] = log[i]
    BY <1>1
  <2>4. (\A j \in (i + 1)..Len(log') : ~(log'[j].op = "delete" /\ log'[j].val = v))
          <=> (\A j \in (i + 1)..Len(log) : ~(log[j].op = "delete" /\ log[j].val = v))
    BY <1>1, <1>3, <2>1, <2>2
  <2> QED BY <2>3, <2>4 DEF Kept
<1>4. ASSUME st.op = "delete", st.val = v PROVE Kept(v)' = {}
  <2> SUFFICES ASSUME NEW i \in Kept(v)' PROVE FALSE
    OBVIOUS
  <2>1. /\ i \in 1..(Len(log) + 1) /\ log'[i].op = "insert"
        /\ \A j \in (i + 1)..(Len(log) + 1) : ~(log'[j].op = "delete" /\ log'[j].val = v)
    BY <1>1 DEF Kept
  <2>2. i # Len(log) + 1
    BY <1>1, <1>4, <2>1
  <2>3. Len(log) + 1 \in (i + 1)..(Len(log) + 1)
    BY <1>1, <2>1, <2>2
  <2> QED BY <1>1, <1>4, <2>1, <2>3
<1>5. Len(log) + 1 \notin Kept(v) /\ Kept(v) \subseteq 1..Len(log)
  BY <1>1 DEF Kept
<1>6. Len(log) + 1 \in Kept(v)' <=> (st.op = "insert" /\ st.val = v)
  <2>1. (Len(log) + 1) + 1..Len(log') = {}
    BY <1>1
  <2> QED BY <1>1, <2>1 DEF Kept
<1>7. Kept(v)' \subseteq 1..(Len(log) + 1)
  BY <1>1 DEF Kept
<1>8. \A i \in 1..(Len(log) + 1) : i \in 1..Len(log) \/ i = Len(log) + 1
  BY <1>1
<1>9. ASSUME ~(st.op = "delete" /\ st.val = v)
      PROVE  Kept(v)' = IF st.op = "insert" /\ st.val = v THEN Kept(v) \cup {Len(log) + 1} ELSE Kept(v)
  <2>1. \A i \in 1..Len(log) : i \in Kept(v)' <=> i \in Kept(v)
    BY <1>3, <1>9
  <2> DEFINE K == Kept(v)
             L == Kept(v)'
  <2> HIDE DEF K, L
  <2>2. /\ \A i \in 1..Len(log) : i \in L <=> i \in K
        /\ L \subseteq 1..(Len(log) + 1) /\ K \subseteq 1..Len(log)
        /\ Len(log) + 1 \in L <=> (st.op = "insert" /\ st.val = v)
    BY <2>1, <1>5, <1>6, <1>7 DEF K, L
  <2>3. ASSUME st.op = "insert" /\ st.val = v PROVE L = K \cup {Len(log) + 1}
    BY <2>2, <2>3, <1>8
  <2>4. ASSUME ~(st.op = "insert" /\ st.val = v) PROVE L = K
    <3>1. Len(log) + 1 \notin L
      BY <2>2, <2>4
    <3> QED BY <2>2, <3>1, <1>8
  <2> QED BY <2>3, <2>4 DEF K, L
<1> QED BY <1>2, <1>4, <1>5, <1>9

(* Both sides of the count are finite.                                     *)
LEMMA Finite ==
  ASSUME log \in Seq(Statements), NEW t, NEW v
  PROVE  IsFiniteSet(Kept(v)) /\ IsFiniteSet(Holding(t, v))
<1>1. IsFiniteSet(Ids) /\ IsFiniteSet(1..Len(log)) /\ DOMAIN log = 1..Len(log)
  <2>1. MaxLog - 1 \in Int /\ 0 \in Int /\ 1 \in Int /\ Len(log) \in Int
    BY BoundsAreNat
  <2> QED BY <2>1, FS_Interval DEF Ids
<1>2. Kept(v) \in SUBSET (1..Len(log)) /\ Holding(t, v) \in SUBSET Ids
  BY <1>1 DEF Kept, Holding
<1> QED BY <1>1, <1>2, FS_Subset

(* A commit reaches the server, whether or not its answer reaches the      *)
(* engine: r is the engine afterwards.                                     *)
LEMMA ApplyInv ==
  ASSUME IInv, NEW e \in Engines, Apply(e), lost' \in 0..MaxLost,
         NEW r, eng' = [eng EXCEPT ![e] = r],
         r = Closed \/ r = [Idle(e) EXCEPT !.head = NewHead(e), !.known = Len(log')]
  PROVE  IInv'
<1> DEFINE o == eng[e]
           v == o.val
           st == Statement(e)
           N == Len(log)
           insert == o.op = "insert"
<1>0. /\ EngineOK(o) /\ o \in EngineType /\ N \in Nat /\ Types /\ Len(hist) = N + 1
      /\ hist[Len(hist)] = rows /\ nextId \in Nat /\ nextId <= N
      /\ o.pc = "commit" /\ N < MaxLog /\ MaxLog \in Nat
  BY EngineHas, BoundsAreNat DEF Apply
<1>1. /\ o.op \in {"insert", "delete"} /\ v \in Values /\ v # None /\ o.got \subseteq Ids /\ o.next \in Ids
      /\ o.head \in Heads /\ o.head.n = Len(o.head.root) /\ o.since \in 1..(N + 1)
      /\ o.known \in Nat /\ o.known <= N /\ o.next \in Nat /\ o.next <= N
      /\ o.known = N => o.since = N + 1
  BY <1>0, NoneIsNoValue DEF EngineOK, EngineInv, EngineType, Busy, Ids
<1>2. /\ st \in Statements /\ st.op = o.op /\ st.val = v
      /\ o.head.root \in Seq(Statements) /\ o.head.n \in Nat
  BY <1>1 DEF Statement, Statements, Heads
<1>3. /\ rows' = [id \in Ids |-> IF insert THEN (IF id = o.next THEN v ELSE rows[id])
                                 ELSE IF id \in o.got THEN None ELSE rows[id]]
      /\ index' = (IF insert THEN index \cup {<<v, o.next>>} ELSE index \ {<<v, id>> : id \in o.got})
      /\ nextId' = (IF insert THEN o.next + 1 ELSE nextId)
      /\ audit' = [audit EXCEPT ![o.head.n] = [prev |-> o.head.root, stmt |-> st]]
      /\ head' = [n |-> o.head.n + 1, root |-> Append(o.head.root, st)]
      /\ raced' = (IF o.known = N THEN raced ELSE raced \cup {"write"})
      /\ log' = Append(log, st)
      /\ hist' = Append(hist, rows')
      /\ UNCHANGED <<params, canary>>
  BY DEF Apply, NewHead
<1> HIDE DEF st
<1>4. /\ log' \in Seq(Statements) /\ Len(log') = N + 1 /\ log'[N + 1] = st
      /\ \A i \in 1..N : log'[i] = log[i]
  BY <1>0, <1>2, <1>3 DEF Types
<1>5. rows' \in [Ids -> Values \cup {None}]
  BY <1>0, <1>1, <1>3 DEF Types
<1>6. /\ hist' \in Seq([Ids -> Values \cup {None}]) /\ Len(hist') = N + 2 /\ hist'[N + 2] = rows'
      /\ \A i \in 1..(N + 1) : hist'[i] = hist[i]
  BY <1>0, <1>3, <1>5 DEF Types
<1>7. /\ NewHead(e) = head' /\ head' \in Heads /\ head'.n = Len(head'.root)
      /\ head'.root = Append(o.head.root, st)
  BY <1>1, <1>2, <1>3 DEF Heads, NewHead, st
<1>8. /\ Closed \in EngineType
      /\ Closed.pc = "closed" /\ Closed.head.n = 0 /\ Len(Closed.head.root) = 0
      /\ Closed.known = 0 /\ Closed.next = 0 /\ ~Closed.refused
  <2>1. Closed \in EngineType
    BY <1>0, ClosedOK DEF EngineOK
  <2> QED BY <2>1 DEF Closed, Genesis
<1>9. ASSUME r # Closed
      PROVE  /\ r \in EngineType /\ r.pc = "idle" /\ r.key = o.key /\ r.head = head'
             /\ r.known = N + 1 /\ r.next = 0 /\ ~r.refused
  <2>1. r = [Idle(e) EXCEPT !.head = head', !.known = N + 1]
    BY <1>4, <1>7, <1>9
  <2>2. /\ Idle(e) \in EngineType /\ Idle(e).pc = "idle" /\ Idle(e).key = o.key
        /\ Idle(e).next = 0 /\ ~Idle(e).refused
    <3>1. Idle(e) \in EngineType
      BY <1>0, IdleOK DEF EngineOK, Opening
    <3> QED BY <3>1 DEF Idle, Closed
  <2>3. r \in EngineType
    <3>1. head' \in Heads /\ N + 1 \in Nat
      BY <1>0, <1>7
    <3> QED BY <3>1, <2>1, <2>2 DEF EngineType
  <2>4. /\ r.pc = Idle(e).pc /\ r.key = Idle(e).key /\ r.head = head' /\ r.known = N + 1
        /\ r.next = Idle(e).next /\ r.refused = Idle(e).refused
    BY <2>1, <2>2 DEF EngineType
  <2> QED BY <2>2, <2>3, <2>4
<1>10. r \in EngineType
  BY <1>8, <1>9
<1>11. Types'
  <2>1. index' \subseteq Values \X Ids
    <3>1. index \subseteq Values \X Ids /\ <<v, o.next>> \in Values \X Ids
      BY <1>0, <1>1 DEF Types
    <3>2. CASE insert
      BY <3>1, <3>2, <1>3
    <3>3. CASE ~insert
      BY <3>1, <3>3, <1>3
    <3> QED BY <3>2, <3>3
  <2>2. nextId' \in 0..MaxLog /\ nextId' <= N + 1
    <3>1. nextId' = o.next + 1 \/ nextId' = nextId
      BY <1>3
    <3>2. \A m \in Nat : m <= N + 1 => m \in 0..MaxLog
      BY <1>0
    <3>3. nextId' \in Nat /\ nextId' <= N + 1
      BY <1>0, <1>1, <3>1
    <3> QED BY <3>2, <3>3
  <2>3. eng' \in [Engines -> EngineType] /\ DOMAIN audit' = Ids
    BY <1>0, <1>3, <1>10 DEF Types
  <2> QED BY <2>1, <2>2, <2>3, <1>0, <1>3, <1>4, <1>5, <1>6, <1>7 DEF Types
<1>12. IndexInv'
  <2> SUFFICES ASSUME NEW id \in Ids, rows'[id] # None PROVE <<rows'[id], id>> \in index'
    BY DEF IndexInv
  <2>1. rows[id] # None => <<rows[id], id>> \in index
    BY DEF IInv, IndexInv
  <2>2. CASE insert
    BY <2>1, <2>2, <1>3
  <2>3. CASE ~insert
    <3>1. id \notin o.got /\ rows'[id] = rows[id]
      BY <2>3, <1>3
    <3>2. <<rows[id], id>> \notin {<<v, i>> : i \in o.got}
      BY <3>1
    <3> QED BY <2>1, <2>3, <3>1, <3>2, <1>3
  <2> QED BY <2>2, <2>3
<1>13. CanaryInv' /\ ("create" \notin raced' => "create" \notin raced)
  BY <1>3 DEF IInv, CanaryInv
<1>14. ASSUME "write" \notin raced'
       PROVE  /\ "write" \notin raced /\ o.known = N /\ o.head.root = log
              /\ insert => o.next = nextId
              /\ ~insert => o.got = Holding(rows, v)
  <2>1. "write" \notin raced /\ o.known = N
    BY <1>3, <1>14
  <2>2. FreshInv(o)
    BY <2>1, <1>0 DEF EngineOK
  <2>3. o.head.root = log /\ (insert => o.next = nextId)
    BY <2>1, <2>2, <1>0 DEF FreshInv, Opening
  <2>4. ASSUME ~insert PROVE o.got = Holding(rows, v)
    <3>1. o.op = "delete" /\ o.since = N + 1
      BY <2>1, <2>4, <1>1
    <3>2. /\ \A id \in o.got : \E i \in (N + 1)..(N + 1) : hist[i][id] = v
          /\ \A id \in Ids : (\A i \in (N + 1)..(N + 1) : hist[i][id] = v) => id \in o.got
      BY <3>1, <1>0 DEF EngineOK, ReadInv
    <3>3. \A i \in (N + 1)..(N + 1) : hist[i] = rows
      BY <1>0
    <3>4. N + 1 \in (N + 1)..(N + 1)
      BY <1>0
    <3> QED BY <3>2, <3>3, <3>4, <1>1 DEF Holding
  <2> QED BY <2>1, <2>3, <2>4
<1>15. SerialInv'
  <2> SUFFICES ASSUME "write" \notin raced'
               PROVE  /\ head'.root = log'
                      /\ \A i \in 1..Len(log') :
                           audit'[i - 1] = [prev |-> SubSeq(log', 1, i - 1), stmt |-> log'[i]]
                      /\ \A id \in Ids : id >= nextId' => rows'[id] = None
                      /\ \A w \in Values : Cardinality(Holding(rows, w)') = Cardinality(Kept(w)')
    BY DEF SerialInv
  <2>0. /\ \A i \in 1..N : audit[i - 1] = [prev |-> SubSeq(log, 1, i - 1), stmt |-> log[i]]
        /\ \A id \in Ids : id >= nextId => rows[id] = None
        /\ \A w \in Values : Cardinality(Holding(rows, w)) = Cardinality(Kept(w))
    BY <1>14 DEF IInv, SerialInv
  <2>1. head'.root = log'
    BY <1>3, <1>7, <1>14
  <2>2. ASSUME NEW i \in 1..Len(log')
        PROVE  audit'[i - 1] = [prev |-> SubSeq(log', 1, i - 1), stmt |-> log'[i]]
    <3>0. o.head.n = N /\ N \in Ids /\ i - 1 \in Ids /\ DOMAIN audit = Ids /\ log \in Seq(Statements)
      BY <1>0, <1>1, <1>4, <1>14 DEF Types, Ids
    <3>1. CASE i \in 1..N
      <4>1. audit'[i - 1] = audit[i - 1]
        BY <3>0, <3>1, <1>0, <1>3
      <4>2. SubSeq(log', 1, i - 1) = SubSeq(log, 1, i - 1)
        BY <3>0, <3>1, <1>0, <1>2, <1>3, PrefixOfAppend
      <4> QED BY <4>1, <4>2, <3>1, <2>0, <1>4
    <3>2. CASE i = N + 1
      <4>1. i - 1 = N
        BY <3>2, <1>0
      <4>2. audit'[N] = [prev |-> log, stmt |-> st]
        BY <3>0, <1>3, <1>14
      <4>3. SubSeq(log', 1, N) = log
        BY <3>0, <1>0, <1>2, <1>3, PrefixOfAppend
      <4> QED BY <4>1, <4>2, <4>3, <3>2, <1>4
    <3> QED BY <3>1, <3>2, <1>0, <1>4
  <2>3. ASSUME NEW id \in Ids, id >= nextId' PROVE rows'[id] = None
    <3>0. id \in Nat
      BY DEF Ids
    <3> QED BY <3>0, <2>0, <2>3, <1>0, <1>3, <1>14
  <2>4. ASSUME NEW w \in Values PROVE Cardinality(Holding(rows, w)') = Cardinality(Kept(w)')
    <3> DEFINE H == Holding(rows, w)
               K == Kept(w)
    <3>0. log \in Seq(Statements) /\ IsFiniteSet(H) /\ IsFiniteSet(K) /\ Cardinality(H) = Cardinality(K)
      BY <2>0, <1>0, Finite DEF Types
    <3>1. CASE insert /\ w = v
      <4>1. rows[o.next] = None
        BY <2>0, <3>1, <1>0, <1>1, <1>14
      <4>2. Holding(rows, w)' = H \cup {o.next} /\ o.next \notin H
        BY <3>1, <4>1, <1>1, <1>3 DEF Holding
      <4>3. Kept(w)' = K \cup {N + 1} /\ N + 1 \notin K
        BY <3>0, <3>1, <1>2, <1>3, KeptStep
      <4> HIDE DEF H, K
      <4>4. Cardinality(H \cup {o.next}) = Cardinality(H) + 1
        BY <3>0, <4>2, FS_AddElement
      <4>5. Cardinality(K \cup {N + 1}) = Cardinality(K) + 1
        BY <3>0, <4>3, FS_AddElement
      <4> QED BY <3>0, <4>2, <4>3, <4>4, <4>5
    <3>2. CASE ~insert /\ w = v
      <4>1. Kept(w)' = {}
        <5>1. st.op = "delete" /\ st.val = w
          BY <3>2, <1>1, <1>2
        <5> QED BY <5>1, <3>0, <1>2, <1>3, KeptStep
      <4>2. Holding(rows, w)' = {}
        <5> SUFFICES ASSUME NEW id \in Ids PROVE rows'[id] # w
          BY DEF Holding
        <5>1. id \in o.got <=> rows[id] = w
          BY <3>2, <1>14 DEF Holding
        <5> QED BY <5>1, <3>2, <1>1, <1>3
      <4> QED BY <4>1, <4>2
    <3>3. CASE w # v
      <4>1. Kept(w)' = K
        BY <3>0, <3>3, <1>2, <1>3, KeptStep
      <4>2. ASSUME NEW id \in Ids PROVE rows'[id] = w <=> rows[id] = w
        <5>1. CASE insert
          <6>1. rows[o.next] = None
            BY <2>0, <5>1, <1>0, <1>1, <1>14
          <6> QED BY <5>1, <6>1, <3>3, <1>3, NoneIsNoValue
        <5>2. CASE ~insert
          <6>1. id \in o.got <=> rows[id] = v
            BY <5>2, <1>14 DEF Holding
          <6> QED BY <5>2, <6>1, <3>3, <1>3, NoneIsNoValue
        <5> QED BY <5>1, <5>2
      <4>3. Holding(rows, w)' = H
        BY <4>2 DEF Holding
      <4> QED BY <3>0, <4>1, <4>3
    <3> QED BY <3>1, <3>2, <3>3
  <2> QED BY <2>1, <2>2, <2>3, <2>4
<1>16. ASSUME NEW d \in Engines, d # e PROVE EngineOK(eng[d])'
  <2> DEFINE x == eng[d]
  <2>0. eng'[d] = x /\ EngineOK(x) /\ x \in EngineType /\ x.known \in Nat /\ x.next \in Nat /\ x.since \in Nat
    BY <1>16 DEF IInv, Types, EngineOK, EngineType
  <2>1. x.known <= N /\ x.next <= N /\ x.known # N + 1
    BY <2>0, <1>0 DEF EngineOK, EngineInv
  <2>2. EngineInv(x)'
    BY <2>0, <2>1, <1>0, <1>4, <1>6, <1>16 DEF EngineOK, EngineInv
  <2>3. FreshInv(x)'
    BY <2>0, <2>1, <1>4 DEF FreshInv
  <2>4. ReadInv(x)'
    <3> SUFFICES ASSUME x.pc \in {"fetch", "answer"} \/ (x.pc = "commit" /\ x.op = "delete")
                 PROVE  /\ \A id \in x.got : \E i \in x.since..(N + 2) : hist'[i][id] = x.val
                        /\ \A id \in Ids : (\A i \in x.since..(N + 2) : hist'[i][id] = x.val)
                              => id \in x.got \cup x.ids
                        /\ x.pc # "fetch" => x.ids = {}
      BY <2>0, <1>6, <1>16 DEF ReadInv
    <3>1. /\ \A id \in x.got : \E i \in x.since..(N + 1) : hist[i][id] = x.val
          /\ \A id \in Ids : (\A i \in x.since..(N + 1) : hist[i][id] = x.val) => id \in x.got \cup x.ids
          /\ x.pc # "fetch" => x.ids = {}
      BY <2>0, <1>0 DEF EngineOK, ReadInv
    <3>2. x.since \in 1..(N + 1)
      BY <2>0, <1>0 DEF EngineOK, EngineInv, Busy
    <3>3. \A i \in x.since..(N + 1) : i \in x.since..(N + 2) /\ hist'[i] = hist[i]
      BY <3>2, <1>0, <1>6
    <3> QED BY <3>1, <3>3
  <2>5. "create" \notin raced' => KeyInv(x)'
    BY <2>0, <1>3, <1>13 DEF EngineOK, KeyInv
  <2> QED BY <2>0, <2>2, <2>3, <2>4, <2>5 DEF EngineOK
<1>17. EngineOK(eng[e])'
  <2>0. eng'[e] = r
    BY <1>0 DEF Types
  <2>1. CASE r = Closed
    <3>1. /\ r.pc = "closed" /\ r.head.n = 0 /\ Len(r.head.root) = 0
          /\ r.known = 0 /\ r.next = 0 /\ ~r.refused
      BY <2>1, <1>8
    <3>2. EngineInv(r)' /\ ReadInv(r)' /\ FreshInv(r)'
      BY <3>1, <1>0, <1>4 DEF EngineInv, ReadInv, FreshInv, Busy, Opening
    <3>3. r.pc # "params" /\ r.pc \in {"closed", "params"}
      BY <3>1
    <3>4. KeyInv(r)'
      BY <3>1, <3>3, Zenon DEF KeyInv
    <3> QED BY <2>0, <3>2, <3>4, <1>10 DEF EngineOK
  <2>2. CASE r # Closed
    <3>1. /\ r.pc = "idle" /\ r.key = o.key /\ r.head = head'
          /\ r.known = N + 1 /\ r.next = 0 /\ ~r.refused
      BY <2>2, <1>9
    <3>2. EngineInv(r)' /\ ReadInv(r)'
      BY <3>1, <1>0, <1>4, <1>7 DEF EngineInv, ReadInv, Busy
    <3>3. "write" \notin raced' => FreshInv(r)'
      <4>1. "write" \notin raced' => head'.root = log'
        BY <1>3, <1>7, <1>14
      <4> QED BY <3>1, <4>1 DEF FreshInv
    <3>4. r.pc # "params" /\ ("create" \notin raced' => r.key = params' /\ params' # None)
      BY <3>1, <1>0, <1>3, <1>13 DEF EngineOK, KeyInv
    <3>5. "create" \notin raced' => KeyInv(r)'
      BY <3>1, <3>4, Zenon DEF KeyInv
    <3> QED BY <2>0, <3>2, <3>3, <3>5, <1>10 DEF EngineOK
  <2> QED BY <2>1, <2>2
<1> QED BY <1>11, <1>12, <1>13, <1>15, <1>16, <1>17 DEF IInv

-----------------------------------------------------------------------------
(* Every step preserves the invariant.                                     *)
LEMMA StepInv == IInv /\ [Next]_vars => IInv'
<1> SUFFICES ASSUME IInv, [Next]_vars PROVE IInv'
  OBVIOUS
<1>1. CASE UNCHANGED vars
  BY <1>1 DEF vars, IInv, Types, IndexInv, CanaryInv, SerialInv, Holding, Kept,
     EngineOK, EngineInv, ReadInv, KeyInv, FreshInv
<1>2. ASSUME NEW e \in Engines, Commit(e) PROVE IInv'
  <2>1. lost' \in 0..MaxLost
    BY <1>2, EngineHas DEF Commit
  <2> QED BY <1>2, <2>1, ApplyInv DEF Commit
<1>3. ASSUME NEW e \in Engines, CommitUnanswered(e) PROVE IInv'
  <2>1. lost' \in 0..MaxLost
    BY <1>3, EngineHas, BoundsAreNat DEF CommitUnanswered
  <2> QED BY <1>3, <2>1, ApplyInv DEF CommitUnanswered
<1>4. ASSUME NEW e \in Engines, NEW v \in Values,
             Insert(e, v) \/ \E op \in {"delete", "select"} : Lookup(e, op, v)
      PROVE  IInv'
  BY <1>4, InsertInv, LookupInv
<1>5. ASSUME NEW e \in Engines,
             GetParams(e) \/ PutParams(e) \/ CheckCanary(e) \/ PutCanary(e) \/ LoadHead(e)
      PROVE  IInv'
  BY <1>5, GetParamsInv, PutParamsInv, CheckCanaryInv, PutCanaryInv, LoadHeadInv
<1>6. ASSUME NEW e \in Engines, Fetch(e) \/ Fetched(e) \/ Answer(e) \/ Close(e) \/ Lose(e)
      PROVE  IInv'
  BY <1>6, FetchInv, FetchedInv, CloseInv
<1> QED BY <1>1, <1>2, <1>3, <1>4, <1>5, <1>6 DEF Next

(* The invariant holds in every reachable state.                           *)
LEMMA Invariance == Spec => []IInv
BY InitInv, StepInv, PTL DEF Spec

(* An engine with the right passphrase is refused only after two engines   *)
(* created the database at once: connections lost at any request of        *)
(* open_store, on any number of engines, do not lead there.                *)
THEOREM RightPassphraseOpens == Spec => []NeverRefused
<1>1. IInv => NeverRefused
  BY DEF IInv, EngineOK, KeyInv, NeverRefused
<1> QED BY <1>1, Invariance, PTL

(* What is on the server is what the committed statements leave when each  *)
(* runs alone, and the audit chain is their record, as long as no engine   *)
(* committed without knowing the commit before: whatever was interleaved   *)
(* with its reads.                                                         *)
THEOREM SharedCommitsAreSerial == Spec => []SharedHistoryIsSerial
<1>1. IInv => TypeOK
  <2> SUFFICES ASSUME IInv PROVE TypeOK
    OBVIOUS
  <2>1. Types
    BY DEF IInv
  <2>2. \A e \in Engines : eng[e].ids \subseteq Ids /\ eng[e].got \subseteq Ids
    BY <2>1 DEF Types, EngineType
  <2> QED BY <2>1, <2>2 DEF Types, TypeOK, Salts
<1>2. IInv => StatementsAreSerial
  BY DEF IInv, SerialInv, StatementsAreSerial
<1>3. IInv => SharedChainVerifies
  <2> SUFFICES ASSUME IInv PROVE SharedChainVerifies
    OBVIOUS
  <2>1. DOMAIN log = 1..Len(log)
    BY DEF IInv, Types
  <2> QED BY <2>1 DEF IInv, SerialInv, SharedChainVerifies
<1> QED BY <1>1, <1>2, <1>3, Invariance, PTL DEF SharedHistoryIsSerial

(* A SELECT returns every row that held the value for as long as it ran    *)
(* and only rows that held it meanwhile, also when the writers have raced. *)
THEOREM ReadersAreRight == Spec => []ReadersSeeRealRows
<1>1. IInv => ReadersSeeRealRows
  <2> SUFFICES ASSUME IInv, NEW e \in Engines, eng[e].pc = "answer", NEW id \in Ids
               PROVE  /\ id \in eng[e].got =>
                           \E i \in eng[e].since..Len(hist) : hist[i][id] = eng[e].val
                      /\ (\A i \in eng[e].since..Len(hist) : hist[i][id] = eng[e].val)
                            => id \in eng[e].got
    BY DEF ReadersSeeRealRows
  <2>1. ReadInv(eng[e])
    BY EngineHas DEF EngineOK
  <2> QED BY <2>1 DEF ReadInv
<1> QED BY <1>1, Invariance, PTL
=============================================================================
