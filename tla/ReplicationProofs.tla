------------------------- MODULE ReplicationProofs -------------------------
(***************************************************************************)
(* Proofs about Replication, for every set of replicas in any arrangement  *)
(* (chains of every length, trees, even replicas that follow each other),  *)
(* every key space, every set of batches and every bound.                  *)
(*                                                                         *)
(* The theorems leave out Fairness: safety does not need it.               *)
(***************************************************************************)
EXTENDS Replication, SequenceTheorems, TLAPS

-----------------------------------------------------------------------------
(* Tables and batches.                                                     *)

(* apply_op stores only values the batch carries.                          *)
LEMMA WrittenType ==
  ASSUME NEW es \in Seq(Entries), NEW k, Touches(es, k)
  PROVE  Written(es, k) \in Values \cup {Absent}
<1> DEFINE i == Only(LastWriteTo(es, k))
<1>1. i \in LastWriteTo(es, k)
  BY DEF Touches, Only
<1>2. i \in DOMAIN es
  BY <1>1 DEF LastWriteTo
<1>3. es[i] \in Entries
  BY <1>2
<1> QED BY <1>3 DEF Written, Entries

(* Applying a batch to a table gives a table.                              *)
LEMMA ApplyOpsType ==
  ASSUME NEW es \in Seq(Entries), NEW m \in Tables
  PROVE  ApplyOps(m, es) \in Tables
BY WrittenType DEF ApplyOps, Tables

-----------------------------------------------------------------------------
(* The inductive invariant. Each of its parts relates a subscription to    *)
(* the two nodes at its ends, so it is stated for the follower's value a,  *)
(* the records q on their way, and the upstream's value.                   *)

(* What a record makes of the table it is applied to.                      *)
After(m, rec) == IF rec.kind = "snapshot" THEN rec.body ELSE ApplyOps(m, rec.body)

(* t is the run of tables the follower goes through when it applies the    *)
(* records of q to a; it ends in b.                                        *)
Replay(t, a, q, b) ==
  /\ t \in Seq(Tables) /\ Len(t) = Len(q) + 1
  /\ t[1] = a /\ t[Len(t)] = b
  /\ \A i \in 1..Len(q) : t[i + 1] = After(t[i], q[i])

(* The sequence numbers of q lead from a to u one by one.                  *)
Gapless(a, q, u) ==
  /\ \A i \in 1..Len(q) : q[i].kind = "snapshot" => i = 1
  /\ \A i \in 2..Len(q) : q[i].seq = q[i - 1].seq + 1
  /\ (q # <<>> /\ q[1].kind = "batch") => q[1].seq = a + 1
  /\ u = IF q = <<>> THEN a ELSE q[Len(q)].seq

(* The records of q carry the leader's commits in order, from the one      *)
(* after a, or from a snapshot not older than a, to the last.              *)
Carries(a, q, h) ==
  /\ \A i \in 1..Len(q) :
       /\ q[i].at \in 1..Len(h)
       /\ q[i].kind = "snapshot" => i = 1 /\ q[i].body = h[q[i].at] /\ a <= q[i].at
       /\ q[i].kind = "batch" =>
            /\ q[i].at > 1 /\ h[q[i].at] = ApplyOps(h[q[i].at - 1], q[i].body)
            /\ q[i].at = (IF i = 1 THEN a ELSE q[i - 1].at) + 1
  /\ Len(h) = IF q = <<>> THEN a ELSE q[Len(q)].at

LeaderInv ==
  /\ Len(hist) >= 1 /\ epoch[Leader] = 0
  /\ at[Leader] = Len(hist) /\ table[Leader] = hist[Len(hist)]

SubInv == \A f \in Replicas :
  /\ sub[f] <= epoch[Upstream[f]]
  /\ conn[f] \/ stream[f] = <<>>
  /\ \A i \in 1..Len(stream[f]) : stream[f][i].at <= Len(hist)

PastInv == \A f \in Direct : conn[f] => Carries(at[f], stream[f], hist)

ReplayInv == \A f \in Replicas :
  Intact(f) => \E t : Replay(t, table[f], stream[f], table[Upstream[f]])

GapInv == \A S \in SUBSET Replicas :
  UnbrokenSet(S) => \A f \in S : Gapless(seq[f], stream[f], seq[Upstream[f]])

IInv == /\ TypeOK /\ LeaderInv /\ SubInv
        /\ ReplicaShowsLeaderPast /\ PastInv /\ ReplayInv /\ GapInv

-----------------------------------------------------------------------------
(* A record is sent: it goes to the end of the queue.                      *)

(* What the two ends of a queue are after a record was appended.           *)
LEMMA AppendHas ==
  ASSUME NEW X, NEW q \in Seq(X), NEW r \in X
  PROVE  /\ Append(q, r) \in Seq(X) /\ Append(q, r) # <<>>
         /\ Len(Append(q, r)) = Len(q) + 1
         /\ \A i \in 1..Len(q) : Append(q, r)[i] = q[i]
         /\ Append(q, r)[Len(q) + 1] = r
         /\ Len(q) \in Nat /\ (q = <<>> <=> Len(q) = 0)
OBVIOUS

(* What the two ends of a queue are after its first record was taken.      *)
LEMMA TailHas ==
  ASSUME NEW X, NEW q \in Seq(X), q # <<>>
  PROVE  /\ Tail(q) \in Seq(X) /\ Head(q) = q[1] /\ q[1] \in X
         /\ Len(Tail(q)) = Len(q) - 1 /\ Len(q) \in Nat /\ Len(q) >= 1
         /\ \A i \in 1..Len(Tail(q)) : Tail(q)[i] = q[i + 1]
         /\ (Tail(q) = <<>> <=> Len(q) = 1)
<1>1. Len(q) \in Nat /\ Len(q) >= 1 /\ Head(q) = q[1] /\ q[1] \in X
  OBVIOUS
<1>2. /\ Tail(q) \in Seq(X) /\ Len(Tail(q)) = Len(q) - 1
      /\ \A i \in 1..Len(Tail(q)) : Tail(q)[i] = q[i + 1]
  BY HeadTailProperties
<1>3. Tail(q) = <<>> <=> Len(q) = 1
  <2>1. Tail(q) = <<>> => Len(Tail(q)) = 0
    BY EmptySeq
  <2>2. Tail(q) # <<>> => Len(Tail(q)) # 0
    BY <1>2, EmptySeq
  <2> QED BY <1>1, <1>2, <2>1, <2>2
<1> QED BY <1>1, <1>2, <1>3

(* Records are typed by their kind.                                        *)
LEMMA RecordType ==
  ASSUME NEW rec \in Records
  PROVE  /\ rec.seq \in Nat /\ rec.at \in Nat
         /\ rec.kind = "snapshot" \/ rec.kind = "batch"
         /\ rec.kind = "snapshot" => rec.body \in Tables
         /\ rec.kind = "batch" => rec.body \in Seq(Entries)
BY DEF Records, Snapshots, Deltas

(* Applying a record to a table gives a table.                             *)
LEMMA AfterType ==
  ASSUME NEW m \in Tables, NEW rec \in Records
  PROVE  After(m, rec) \in Tables
BY RecordType, ApplyOpsType DEF After

(* A batch applied by the upstream and appended to the queue keeps the     *)
(* follower on its way to the upstream's table.                            *)
LEMMA ReplayAppend ==
  ASSUME NEW t, NEW a, NEW q \in Seq(Records), NEW b \in Tables,
         NEW rec \in Records, Replay(t, a, q, b)
  PROVE  Replay(Append(t, After(b, rec)), a, Append(q, rec), After(b, rec))
<1> DEFINE u == Append(t, After(b, rec))
           p == Append(q, rec)
<1>1. After(b, rec) \in Tables
  BY AfterType
<1>2. /\ t \in Seq(Tables) /\ Len(t) = Len(q) + 1 /\ t[1] = a /\ t[Len(t)] = b
      /\ \A i \in 1..Len(q) : t[i + 1] = After(t[i], q[i])
  BY DEF Replay
<1>3. /\ u \in Seq(Tables) /\ Len(u) = Len(t) + 1 /\ u[Len(t) + 1] = After(b, rec)
      /\ \A i \in 1..Len(t) : u[i] = t[i]
  BY <1>1, <1>2, AppendHas
<1>4. /\ Len(p) = Len(q) + 1 /\ p[Len(q) + 1] = rec /\ Len(q) \in Nat
      /\ \A i \in 1..Len(q) : p[i] = q[i]
  BY AppendHas
<1> HIDE DEF u, p
<1>5. ASSUME NEW i \in 1..Len(p) PROVE u[i + 1] = After(u[i], p[i])
  <2>1. CASE i = Len(q) + 1
    BY <2>1, <1>2, <1>3, <1>4
  <2>2. CASE i \in 1..Len(q)
    <3>1. u[i + 1] = t[i + 1] /\ u[i] = t[i] /\ p[i] = q[i]
      BY <2>2, <1>2, <1>3, <1>4
    <3> QED BY <3>1, <2>2, <1>2
  <2> QED BY <2>1, <2>2, <1>4
<1>6. u[1] = a /\ u[Len(u)] = After(b, rec) /\ Len(u) = Len(p) + 1
  BY <1>2, <1>3, <1>4
<1>7. Replay(u, a, p, After(b, rec))
  BY <1>3, <1>5, <1>6 DEF Replay
<1> QED BY <1>7 DEF u, p

(* A follower that takes the first record stays on its way.                *)
LEMMA ReplayTail ==
  ASSUME NEW t, NEW a, NEW q \in Seq(Records), NEW b, q # <<>>, Replay(t, a, q, b)
  PROVE  Replay(Tail(t), After(a, Head(q)), Tail(q), b)
<1> DEFINE u == Tail(t)
           p == Tail(q)
<1>1. /\ t \in Seq(Tables) /\ Len(t) = Len(q) + 1 /\ t[1] = a /\ t[Len(t)] = b
      /\ \A i \in 1..Len(q) : t[i + 1] = After(t[i], q[i])
  BY DEF Replay
<1>2. /\ Head(q) = q[1] /\ Len(p) = Len(q) - 1 /\ Len(q) \in Nat /\ Len(q) >= 1
      /\ \A i \in 1..Len(p) : p[i] = q[i + 1]
  BY TailHas
<1>3. t # <<>>
  BY <1>1, <1>2
<1>4. /\ u \in Seq(Tables) /\ Len(u) = Len(t) - 1
      /\ \A i \in 1..Len(u) : u[i] = t[i + 1]
  BY <1>1, <1>3, TailHas
<1> HIDE DEF u, p
<1>5. ASSUME NEW i \in 1..Len(p) PROVE u[i + 1] = After(u[i], p[i])
  <2>1. /\ i + 1 \in 1..Len(q) /\ i \in 1..Len(u) /\ i + 1 \in 1..Len(u)
    BY <1>1, <1>2, <1>4
  <2>2. u[i + 1] = t[(i + 1) + 1] /\ u[i] = t[i + 1] /\ p[i] = q[i + 1]
    BY <2>1, <1>2, <1>4
  <2> QED BY <2>1, <2>2, <1>1
<1>6. u[1] = After(a, Head(q)) /\ u[Len(u)] = b /\ Len(u) = Len(p) + 1
  BY <1>1, <1>2, <1>4
<1>7. Replay(u, After(a, Head(q)), p, b)
  BY <1>4, <1>5, <1>6 DEF Replay
<1> QED BY <1>7 DEF u, p

(* A new subscriber is one snapshot away from its upstream's table.        *)
LEMMA ReplayStart ==
  ASSUME NEW a \in Tables, NEW b \in Tables, NEW rec, rec.kind = "snapshot", rec.body = b
  PROVE  Replay(<<a, b>>, a, <<rec>>, b)
BY DEF Replay, After

(* Appending the next number leaves no gap.                                *)
LEMMA GaplessAppend ==
  ASSUME NEW a \in Nat, NEW q \in Seq(Records), NEW u \in Nat, NEW rec \in Records,
         Gapless(a, q, u), rec.kind = "batch", rec.seq = u + 1
  PROVE  Gapless(a, Append(q, rec), u + 1)
<1> DEFINE p == Append(q, rec)
<1>1. /\ Len(p) = Len(q) + 1 /\ p[Len(q) + 1] = rec /\ Len(q) \in Nat /\ p # <<>>
      /\ \A i \in 1..Len(q) : p[i] = q[i]
      /\ q = <<>> <=> Len(q) = 0
  BY AppendHas
<1> HIDE DEF p
<1>2. \A i \in 1..Len(p) : p[i].kind = "snapshot" => i = 1
  BY <1>1 DEF Gapless
<1>3. \A i \in 2..Len(p) : p[i].seq = p[i - 1].seq + 1
  <2> SUFFICES ASSUME NEW i \in 2..Len(p) PROVE p[i].seq = p[i - 1].seq + 1
    OBVIOUS
  <2>1. CASE i = Len(q) + 1
    BY <2>1, <1>1 DEF Gapless
  <2>2. CASE i \in 2..Len(q)
    <3>1. p[i] = q[i] /\ p[i - 1] = q[i - 1]
      BY <2>2, <1>1
    <3> QED BY <3>1, <2>2 DEF Gapless
  <2> QED BY <2>1, <2>2, <1>1
<1>4. p[1].kind = "batch" => p[1].seq = a + 1
  <2>1. CASE q = <<>>
    BY <2>1, <1>1 DEF Gapless
  <2>2. CASE q # <<>>
    <3>1. p[1] = q[1]
      BY <2>2, <1>1
    <3> QED BY <3>1, <2>2 DEF Gapless
  <2> QED BY <2>1, <2>2
<1>5. Gapless(a, p, u + 1)
  BY <1>1, <1>2, <1>3, <1>4 DEF Gapless
<1> QED BY <1>5 DEF p

(* Taking the first record leaves no gap; a batch has the next number.     *)
LEMMA GaplessTail ==
  ASSUME NEW a \in Nat, NEW q \in Seq(Records), NEW u \in Nat, q # <<>>, Gapless(a, q, u)
  PROVE  /\ Gapless(Head(q).seq, Tail(q), u)
         /\ Head(q).kind = "batch" => Head(q).seq = a + 1
<1> DEFINE p == Tail(q)
<1>1. /\ Head(q) = q[1] /\ Len(p) = Len(q) - 1 /\ Len(q) \in Nat /\ Len(q) >= 1
      /\ \A i \in 1..Len(p) : p[i] = q[i + 1]
      /\ p = <<>> <=> Len(q) = 1
  BY TailHas
<1>0. \A i \in 1..Len(q) : q[i] \in Records
  OBVIOUS
<1> HIDE DEF p
<1>2. ASSUME NEW i \in 1..Len(p)
      PROVE  /\ p[i].kind # "snapshot" /\ p[i].seq = q[i].seq + 1
             /\ i > 1 => q[i] = p[i - 1]
  <2>1. p[i] = q[i + 1] /\ i + 1 \in 2..Len(q) /\ (i + 1) - 1 = i /\ i + 1 \in 1..Len(q)
    BY <1>1
  <2>2. q[i + 1].kind # "snapshot" /\ q[i + 1].seq = q[(i + 1) - 1].seq + 1
    BY <2>1 DEF Gapless
  <2>3. ASSUME i > 1 PROVE q[i] = p[i - 1]
    <3>1. i - 1 \in 1..Len(p) /\ (i - 1) + 1 = i
      BY <2>3, <1>1
    <3> QED BY <3>1, <1>1
  <2> QED BY <2>1, <2>2, <2>3
<1>3. \A i \in 2..Len(p) : p[i].seq = p[i - 1].seq + 1
  BY <1>2
<1>4. p # <<>> => p[1].seq = Head(q).seq + 1
  <2> SUFFICES ASSUME p # <<>> PROVE p[1].seq = Head(q).seq + 1
    OBVIOUS
  <2>1. 1 \in 1..Len(p)
    BY <1>1
  <2> QED BY <2>1, <1>1, <1>2
<1>5. u = IF p = <<>> THEN Head(q).seq ELSE p[Len(p)].seq
  <2>1. u = q[Len(q)].seq
    BY DEF Gapless
  <2> QED BY <2>1, <1>1
<1>6. Gapless(Head(q).seq, p, u)
  BY <1>2, <1>3, <1>4, <1>5 DEF Gapless
<1>7. Head(q).kind = "batch" => Head(q).seq = a + 1
  BY <1>1 DEF Gapless
<1> QED BY <1>6, <1>7 DEF p

(* A snapshot of the leader starts a queue that carries its commits.       *)
LEMMA CarriesStart ==
  ASSUME NEW h \in Seq(Tables), Len(h) >= 1, NEW a \in 0..Len(h),
         NEW rec, rec.kind = "snapshot", rec.at = Len(h), rec.body = h[Len(h)]
  PROVE  Carries(a, <<rec>>, h)
BY DEF Carries

(* The leader's next commit, appended, is carried too.                     *)
LEMMA CarriesAppend ==
  ASSUME NEW h \in Seq(Tables), Len(h) >= 1, NEW a \in 0..Len(h), NEW q \in Seq(Records),
         NEW rec \in Records, rec.kind = "batch", rec.at = Len(h) + 1,
         Carries(a, q, h)
  PROVE  Carries(a, Append(q, rec), Append(h, ApplyOps(h[Len(h)], rec.body)))
<1> DEFINE p == Append(q, rec)
           x == ApplyOps(h[Len(h)], rec.body)
           g == Append(h, x)
<1>1. /\ Len(p) = Len(q) + 1 /\ p[Len(q) + 1] = rec /\ Len(q) \in Nat /\ p # <<>>
      /\ \A i \in 1..Len(q) : p[i] = q[i]
      /\ q = <<>> <=> Len(q) = 0
  BY AppendHas
<1>2. x \in Tables
  <2>1. h[Len(h)] \in Tables /\ rec.body \in Seq(Entries)
    BY RecordType
  <2> QED BY <2>1, ApplyOpsType
<1> HIDE DEF x
<1>3. /\ Len(g) = Len(h) + 1 /\ g[Len(h) + 1] = x /\ Len(h) \in Nat
      /\ \A i \in 1..Len(h) : g[i] = h[i]
  BY <1>2, AppendHas
<1> HIDE DEF p, g
<1>4. ASSUME NEW i \in 1..Len(q)
      PROVE  /\ p[i].at \in 1..Len(g)
             /\ p[i].kind = "snapshot" => i = 1 /\ p[i].body = g[p[i].at] /\ a <= p[i].at
             /\ p[i].kind = "batch" =>
                  /\ p[i].at > 1 /\ g[p[i].at] = ApplyOps(g[p[i].at - 1], p[i].body)
                  /\ p[i].at = (IF i = 1 THEN a ELSE p[i - 1].at) + 1
  <2>1. p[i] = q[i] /\ (i # 1 => p[i - 1] = q[i - 1])
    BY <1>1
  <2>2. /\ q[i].at \in 1..Len(h)
        /\ q[i].kind = "snapshot" => i = 1 /\ q[i].body = h[q[i].at] /\ a <= q[i].at
        /\ q[i].kind = "batch" =>
             /\ q[i].at > 1 /\ h[q[i].at] = ApplyOps(h[q[i].at - 1], q[i].body)
             /\ q[i].at = (IF i = 1 THEN a ELSE q[i - 1].at) + 1
    BY DEF Carries
  <2>3. g[q[i].at] = h[q[i].at] /\ q[i].at \in 1..Len(g)
    BY <2>2, <1>3
  <2>4. q[i].at > 1 => g[q[i].at - 1] = h[q[i].at - 1]
    BY <2>2, <1>3
  <2> QED BY <2>1, <2>2, <2>3, <2>4
<1>5. LET i == Len(q) + 1
      IN  /\ p[i].at \in 1..Len(g) /\ p[i].kind = "batch"
          /\ p[i].at > 1 /\ g[p[i].at] = ApplyOps(g[p[i].at - 1], p[i].body)
          /\ p[i].at = (IF i = 1 THEN a ELSE p[i - 1].at) + 1
  <2>1. g[Len(h) + 1] = ApplyOps(g[Len(h)], rec.body)
    BY <1>3 DEF x
  <2>2. Len(h) = IF q = <<>> THEN a ELSE q[Len(q)].at
    BY DEF Carries
  <2>3. rec.at - 1 = Len(h)
    BY <1>3
  <2>4. p[Len(q) + 1] = rec /\ rec.at \in 1..Len(g) /\ rec.at > 1
    BY <1>1, <1>3
  <2>5. rec.at = (IF Len(q) + 1 = 1 THEN a ELSE p[(Len(q) + 1) - 1].at) + 1
    BY <2>2, <1>1, <1>3
  <2> QED BY <2>1, <2>3, <2>4, <2>5
<1>6. Len(g) = p[Len(p)].at
  BY <1>1, <1>3
<1>7. \A i \in 1..Len(p) : i \in 1..Len(q) \/ i = Len(q) + 1
  BY <1>1
<1>8. Carries(a, p, g)
  BY <1>1, <1>4, <1>5, <1>6, <1>7 DEF Carries
<1> QED BY <1>8 DEF p, g, x

(* Taking the first record brings the follower to a later table of the     *)
(* leader.                                                                 *)
LEMMA CarriesTail ==
  ASSUME NEW h \in Seq(Tables), NEW a \in 0..Len(h), NEW q \in Seq(Records), q # <<>>,
         Carries(a, q, h), NEW m, a > 0 => m = h[a]
  PROVE  /\ Carries(Head(q).at, Tail(q), h)
         /\ Head(q).at \in 1..Len(h) /\ Head(q).at >= a
         /\ After(m, Head(q)) = h[Head(q).at]
<1> DEFINE p == Tail(q)
<1>1. /\ Head(q) = q[1] /\ Len(p) = Len(q) - 1 /\ Len(q) \in Nat /\ Len(q) >= 1
      /\ \A i \in 1..Len(p) : p[i] = q[i + 1]
      /\ p = <<>> <=> Len(q) = 1
  BY TailHas
<1>2. q[1].kind = "snapshot" \/ q[1].kind = "batch"
  BY <1>1, RecordType
<1> HIDE DEF p
<1>3. /\ q[1].at \in 1..Len(h)
      /\ q[1].kind = "snapshot" => q[1].body = h[q[1].at] /\ a <= q[1].at
      /\ q[1].kind = "batch" =>
           /\ q[1].at > 1 /\ h[q[1].at] = ApplyOps(h[q[1].at - 1], q[1].body)
           /\ q[1].at = a + 1
  BY <1>1 DEF Carries
<1>4. Head(q).at \in 1..Len(h) /\ Head(q).at >= a
  BY <1>1, <1>2, <1>3
<1>5. After(m, Head(q)) = h[Head(q).at]
  <2>1. CASE q[1].kind = "snapshot"
    BY <2>1, <1>1, <1>3 DEF After
  <2>2. CASE q[1].kind = "batch"
    <3>1. q[1].at - 1 = a /\ a > 0
      BY <2>2, <1>3
    <3> QED BY <3>1, <2>2, <1>1, <1>3 DEF After
  <2> QED BY <2>1, <2>2, <1>2
<1>6. ASSUME NEW i \in 1..Len(p)
      PROVE  /\ p[i].at \in 1..Len(h)
             /\ p[i].kind = "snapshot" => i = 1 /\ p[i].body = h[p[i].at] /\ Head(q).at <= p[i].at
             /\ p[i].kind = "batch" =>
                  /\ p[i].at > 1 /\ h[p[i].at] = ApplyOps(h[p[i].at - 1], p[i].body)
                  /\ p[i].at = (IF i = 1 THEN Head(q).at ELSE p[i - 1].at) + 1
  <2>1. p[i] = q[i + 1] /\ i + 1 \in 1..Len(q) /\ i + 1 # 1 /\ (i + 1) - 1 = i
    BY <1>1
  <2>2. q[i] = IF i = 1 THEN Head(q) ELSE p[i - 1]
    BY <1>1
  <2>3. /\ q[i + 1].at \in 1..Len(h) /\ q[i + 1].kind # "snapshot"
        /\ q[i + 1].kind = "batch" =>
             /\ q[i + 1].at > 1 /\ h[q[i + 1].at] = ApplyOps(h[q[i + 1].at - 1], q[i + 1].body)
             /\ q[i + 1].at = q[i].at + 1
    BY <2>1 DEF Carries
  <2> QED BY <2>1, <2>2, <2>3
<1>7. Len(h) = IF p = <<>> THEN Head(q).at ELSE p[Len(p)].at
  <2>1. Len(h) = q[Len(q)].at
    BY DEF Carries
  <2>2. CASE p = <<>>
    <3>1. Len(q) = 1
      BY <1>1, <2>2
    <3> QED BY <1>1, <2>1, <2>2, <3>1
  <2>3. CASE p # <<>>
    <3>1. Len(p) \in 1..Len(p) /\ Len(p) + 1 = Len(q)
      BY <1>1, <2>3
    <3>2. p[Len(p)] = q[Len(q)]
      BY <1>1, <3>1
    <3> QED BY <2>1, <2>3, <3>2
  <2> QED BY <2>2, <2>3
<1>8. Carries(Head(q).at, p, h)
  BY <1>6, <1>7 DEF Carries
<1> QED BY <1>4, <1>5, <1>8 DEF p

-----------------------------------------------------------------------------
(* Every action keeps the invariant.                                       *)

(* A replica of the leader that is connected is on an unbroken way up.     *)
LEMMA DirectUnbroken ==
  ASSUME TypeOK, LeaderInv, SubInv, NEW f \in Direct, conn[f]
  PROVE  UnbrokenSet({f})
<1>1. f \in Replicas /\ Upstream[f] = Leader
  BY DEF Direct
<1>2. sub[f] = epoch[Leader]
  <2>1. sub[f] \in Nat /\ sub[f] <= 0
    BY <1>1 DEF TypeOK, LeaderInv, SubInv
  <2> QED BY <2>1 DEF LeaderInv
<1> QED BY <1>1, <1>2 DEF UnbrokenSet, Intact

(* Nothing has happened yet: nobody is connected.                          *)
LEMMA InitInv == Init => IInv
<1> SUFFICES ASSUME Init PROVE IInv
  OBVIOUS
<1>0. Leader \in Nodes /\ Empty \in Tables /\ \A f \in Replicas : f \in Nodes /\ f # Leader /\ Upstream[f] \in Nodes
  BY UpstreamIsNode, LeaderIsNoReplica DEF Nodes, Empty, Tables
<1>1. TypeOK
  <2>1. table \in [Nodes -> Tables]
    BY <1>0, LeftoversAreTables DEF Init
  <2>2. hist \in Seq(Tables) /\ Len(hist) = 1
    BY <1>0 DEF Init
  <2>3. at \in [Nodes -> 0..Len(hist)] /\ faults \in 0..MaxFaults
    BY <2>2, BoundsAreNat DEF Init
  <2>4. <<>> \in Seq(Records)
    OBVIOUS
  <2> QED BY <2>1, <2>2, <2>3, <2>4 DEF Init, TypeOK
<1>2. LeaderInv
  BY <1>0 DEF Init, LeaderInv
<1>3. SubInv
  BY <1>0 DEF Init, SubInv
<1>4. ReplicaShowsLeaderPast
  BY <1>0 DEF Init, ReplicaShowsLeaderPast, Direct
<1>5. PastInv
  BY DEF Init, PastInv, Direct
<1>6. ReplayInv
  BY DEF Init, ReplayInv, Intact
<1>7. GapInv
  BY DEF Init, GapInv, UnbrokenSet, Intact
<1> QED BY <1>1, <1>2, <1>3, <1>4, <1>5, <1>6, <1>7 DEF IInv

(* Facts every step starts from.                                           *)
LEMMA Nodal ==
  /\ Leader \in Nodes /\ Leader \notin Replicas
  /\ \A f \in Replicas : f \in Nodes /\ f # Leader /\ Upstream[f] \in Nodes
  /\ Direct \subseteq Replicas
BY UpstreamIsNode, LeaderIsNoReplica DEF Nodes, Direct

(* The leader commits a write.                                             *)
LEMMA WriteInv ==
  ASSUME IInv, NEW n \in Nodes, NEW b \in Batches, HandleWrite(n, b)
  PROVE  IInv'
<1> DEFINE x == ApplyOps(table[Leader], b)
           rec == Delta(seq[Leader] + 1, b, Len(hist) + 1)
<1> USE DEF IInv
<1>1. n = Leader /\ table[Leader] \in Tables /\ b \in Seq(Entries) /\ Leader \in Nodes
  BY BatchesAreEntries, Nodal DEF HandleWrite, ReadOnly, TypeOK
<1>2. x \in Tables
  BY <1>1, ApplyOpsType
<1>3. /\ table' = [table EXCEPT ![Leader] = x] /\ table'[Leader] = x
      /\ seq' = [seq EXCEPT ![Leader] = @ + 1] /\ seq'[Leader] = seq[Leader] + 1
      /\ hist' = Append(hist, x)
      /\ UNCHANGED <<conn, faults, epoch, sub>>
  BY <1>1 DEF HandleWrite, TypeOK
<1>4. /\ hist' \in Seq(Tables) /\ Len(hist') = Len(hist) + 1 /\ hist'[Len(hist')] = x
      /\ Len(hist) \in Nat /\ \A i \in 1..Len(hist) : hist'[i] = hist[i]
  BY <1>2, <1>3, AppendHas DEF TypeOK
<1>5. at' = [at EXCEPT ![Leader] = Len(hist) + 1] /\ at'[Leader] = Len(hist) + 1
  BY <1>1, <1>4 DEF HandleWrite, TypeOK
<1>6. rec \in Records
  BY <1>1, <1>4 DEF Delta, Records, Deltas, TypeOK
<1>7. stream' = [f \in Replicas |-> IF conn[f] /\ Upstream[f] = Leader
                                    THEN Append(stream[f], rec) ELSE stream[f]]
  BY <1>1, <1>3, <1>5 DEF HandleWrite, Broadcast, Subscribers
<1>8. rec.kind = "batch" /\ rec.at = Len(hist) + 1 /\ rec.seq = seq[Leader] + 1 /\ rec.body = b
  BY DEF Delta
<1> HIDE DEF x, rec
<1>9. TypeOK'
  <2>1. table' \in [Nodes -> Tables] /\ seq' \in [Nodes -> Nat]
    BY <1>2, <1>3, <1>1 DEF TypeOK
  <2>2. stream' \in [Replicas -> Seq(Records)]
    BY <1>6, <1>7 DEF TypeOK
  <2>3. at' \in [Nodes -> 0..Len(hist')]
    <3>1. \A m \in Nodes : at[m] \in 0..(Len(hist) + 1)
      BY <1>4 DEF TypeOK
    <3>2. Len(hist) + 1 \in 0..(Len(hist) + 1)
      BY <1>4
    <3>3. at' \in [Nodes -> 0..(Len(hist) + 1)]
      BY <3>1, <3>2, <1>5 DEF TypeOK
    <3> QED BY <3>3, <1>4
  <2> QED BY <2>1, <2>2, <2>3, <1>3, <1>4 DEF TypeOK
<1>10. LeaderInv'
  BY <1>3, <1>4, <1>5 DEF LeaderInv
<1>11. ASSUME NEW f \in Replicas
       PROVE  /\ table'[f] = table[f] /\ seq'[f] = seq[f] /\ at'[f] = at[f]
              /\ seq[f] \in Nat /\ at[f] \in 0..Len(hist) /\ stream[f] \in Seq(Records)
              /\ Upstream[f] # Leader =>
                   table'[Upstream[f]] = table[Upstream[f]] /\ seq'[Upstream[f]] = seq[Upstream[f]]
              /\ stream'[f] = IF conn[f] /\ Upstream[f] = Leader THEN Append(stream[f], rec) ELSE stream[f]
              /\ Intact(f)' = Intact(f)
  BY <1>3, <1>5, <1>7, Nodal DEF TypeOK, Intact
<1>12. SubInv'
  <2> SUFFICES ASSUME NEW f \in Replicas
               PROVE  /\ sub'[f] <= epoch'[Upstream[f]]
                      /\ conn'[f] \/ stream'[f] = <<>>
                      /\ \A i \in 1..Len(stream'[f]) : stream'[f][i].at <= Len(hist')
    BY DEF SubInv
  <2>1. sub'[f] <= epoch'[Upstream[f]] /\ (conn'[f] \/ stream'[f] = <<>>)
    BY <1>3, <1>11 DEF SubInv
  <2>2. \A i \in 1..Len(stream[f]) : stream[f][i].at <= Len(hist) /\ stream[f][i].at \in Nat
    BY <1>11, RecordType DEF SubInv
  <2>3. CASE stream'[f] = stream[f]
    BY <2>1, <2>2, <2>3, <1>4
  <2>4. CASE stream'[f] = Append(stream[f], rec)
    <3>1. ASSUME NEW i \in 1..Len(stream'[f]) PROVE stream'[f][i].at <= Len(hist')
      <4>1. i \in 1..Len(stream[f]) \/ i = Len(stream[f]) + 1
        BY <2>4, <1>6, <1>11, AppendHas
      <4>2. CASE i \in 1..Len(stream[f])
        <5>1. stream'[f][i] = stream[f][i]
          BY <2>4, <4>2, <1>6, <1>11, AppendHas
        <5> QED BY <5>1, <4>2, <2>2, <1>4
      <4>3. CASE i = Len(stream[f]) + 1
        <5>1. stream'[f][i] = rec
          BY <2>4, <4>3, <1>6, <1>11, AppendHas
        <5> QED BY <5>1, <1>4, <1>8
      <4> QED BY <4>1, <4>2, <4>3
    <3> QED BY <2>1, <3>1
  <2> QED BY <2>3, <2>4, <1>11
<1>13. ReplicaShowsLeaderPast'
  <2> SUFFICES ASSUME NEW f \in Direct, at'[f] > 0 PROVE table'[f] = hist'[at'[f]]
    BY DEF ReplicaShowsLeaderPast
  <2>1. at[f] \in 1..Len(hist) /\ table'[f] = table[f] /\ at'[f] = at[f]
    BY <1>11, Nodal, <1>4
  <2> QED BY <2>1, <1>4 DEF ReplicaShowsLeaderPast
<1>14. PastInv'
  <2> SUFFICES ASSUME NEW f \in Direct, conn'[f] PROVE Carries(at'[f], stream'[f], hist')
    BY DEF PastInv
  <2>1. f \in Replicas /\ conn[f] /\ Upstream[f] = Leader
    BY <1>3 DEF Direct
  <2>2. Carries(at[f], stream[f], hist)
    BY <2>1 DEF PastInv
  <2>3. Carries(at[f], Append(stream[f], rec), Append(hist, ApplyOps(hist[Len(hist)], rec.body)))
    BY <2>1, <2>2, <1>6, <1>8, <1>11, CarriesAppend DEF TypeOK, LeaderInv
  <2>4. hist' = Append(hist, ApplyOps(hist[Len(hist)], rec.body))
    BY <1>3, <1>8 DEF x, LeaderInv
  <2> QED BY <2>1, <2>3, <2>4, <1>11
<1>15. ReplayInv'
  <2> SUFFICES ASSUME NEW f \in Replicas, Intact(f)'
               PROVE  \E t : Replay(t, table'[f], stream'[f], table'[Upstream[f]])
    BY DEF ReplayInv
  <2>1. PICK t : Replay(t, table[f], stream[f], table[Upstream[f]])
    BY <1>11 DEF ReplayInv
  <2>2. CASE Upstream[f] = Leader
    <3>1. conn[f]
      BY <1>11 DEF Intact
    <3>2. Replay(Append(t, After(table[Leader], rec)), table[f], Append(stream[f], rec), After(table[Leader], rec))
      BY <2>1, <2>2, <1>1, <1>6, <1>11, ReplayAppend
    <3>3. After(table[Leader], rec) = x
      BY <1>8 DEF After, x
    <3> QED BY <3>1, <3>2, <3>3, <2>2, <1>3, <1>11
  <2>3. CASE Upstream[f] # Leader
    BY <2>1, <2>3, <1>11
  <2> QED BY <2>2, <2>3
<1>16. GapInv'
  <2> SUFFICES ASSUME NEW S \in SUBSET Replicas, UnbrokenSet(S)', NEW f \in S
               PROVE  Gapless(seq'[f], stream'[f], seq'[Upstream[f]])
    BY DEF GapInv
  <2>1. UnbrokenSet(S)
    <3> SUFFICES ASSUME NEW g \in S
                 PROVE  /\ Intact(g)
                        /\ \/ Upstream[g] \in Direct \cup {Leader}
                           \/ Upstream[g] \in S /\ Settled(Upstream[g])
      BY DEF UnbrokenSet
    <3>1. /\ Intact(g)'
          /\ \/ Upstream[g] \in Direct \cup {Leader}
             \/ Upstream[g] \in S /\ Settled(Upstream[g])'
      BY DEF UnbrokenSet, Direct
    <3>2. ASSUME Upstream[g] \in S, Settled(Upstream[g])', Upstream[g] \notin Direct
          PROVE  Settled(Upstream[g])
      <4>1. Upstream[g] \in Replicas /\ stream'[Upstream[g]] = stream[Upstream[g]]
        BY <3>2, <1>11 DEF Direct
      <4> QED BY <3>2, <4>1, <1>11 DEF Settled
    <3> QED BY <3>1, <3>2, <1>11
  <2>2. Gapless(seq[f], stream[f], seq[Upstream[f]])
    BY <2>1 DEF GapInv
  <2>3. CASE Upstream[f] = Leader
    <3>1. conn[f]
      BY <2>1 DEF UnbrokenSet, Intact
    <3>2. seq[Leader] \in Nat
      BY <1>1 DEF TypeOK
    <3>3. Gapless(seq[f], Append(stream[f], rec), seq[Leader] + 1)
      BY <2>2, <2>3, <3>2, <1>6, <1>8, <1>11, GaplessAppend
    <3> QED BY <3>1, <3>3, <2>3, <1>3, <1>11
  <2>4. CASE Upstream[f] # Leader
    BY <2>2, <2>4, <1>11
  <2> QED BY <2>3, <2>4
<1> QED BY <1>9, <1>10, <1>12, <1>13, <1>14, <1>15, <1>16

(* A replica subscribes: snapshot and registration are one step.           *)
LEMMA SubscribeInv ==
  ASSUME IInv, NEW f \in Replicas, Subscribe(f)
  PROVE  IInv'
<1> DEFINE u == Upstream[f]
           rec == Snapshot(u)
<1> USE DEF IInv
<1>1. u \in Nodes /\ f \in Nodes
  BY Nodal
<1>2. /\ rec.kind = "snapshot" /\ rec.seq = seq[u] /\ rec.body = table[u] /\ rec.at = at[u]
      /\ rec \in Records /\ table[u] \in Tables /\ seq[u] \in Nat /\ at[u] \in 0..Len(hist)
      /\ Len(hist) \in Nat /\ at[u] \in Nat
  BY <1>1 DEF Snapshot, Records, Snapshots, TypeOK
<1>3. /\ UNCHANGED <<table, seq, faults, hist, at, epoch>>
      /\ conn' = [conn EXCEPT ![f] = TRUE] /\ conn'[f]
      /\ stream' = [stream EXCEPT ![f] = <<rec>>] /\ stream'[f] = <<rec>>
      /\ sub' = [sub EXCEPT ![f] = epoch[u]] /\ sub'[f] = epoch[u]
  BY DEF Subscribe, TypeOK
<1>4. ASSUME NEW g \in Replicas, g # f
      PROVE  /\ conn'[g] = conn[g] /\ stream'[g] = stream[g] /\ sub'[g] = sub[g]
             /\ Intact(g)' = Intact(g)
  BY <1>3, <1>4 DEF TypeOK, Intact
<1> HIDE DEF rec
<1>5. Len(<<rec>>) = 1 /\ <<rec>>[1] = rec /\ <<rec>> # <<>> /\ <<rec>> \in Seq(Records)
  BY <1>2
<1>6. TypeOK'
  <2>1. epoch[u] \in Nat
    BY <1>1 DEF TypeOK
  <2> QED BY <2>1, <1>3, <1>5 DEF TypeOK
<1>7. LeaderInv'
  BY <1>3 DEF LeaderInv
<1>8. SubInv'
  <2> SUFFICES ASSUME NEW g \in Replicas
               PROVE  /\ sub'[g] <= epoch'[Upstream[g]]
                      /\ conn'[g] \/ stream'[g] = <<>>
                      /\ \A i \in 1..Len(stream'[g]) : stream'[g][i].at <= Len(hist')
    BY DEF SubInv
  <2>1. CASE g = f
    <3>1. epoch[u] \in Nat
      BY <1>1 DEF TypeOK
    <3>2. \A i \in 1..Len(stream'[f]) : stream'[f][i].at <= Len(hist')
      BY <1>2, <1>3, <1>5
    <3> QED BY <2>1, <3>1, <3>2, <1>3
  <2>2. CASE g # f
    BY <2>2, <1>3, <1>4 DEF SubInv
  <2> QED BY <2>1, <2>2
<1>9. ReplicaShowsLeaderPast'
  BY <1>3 DEF ReplicaShowsLeaderPast, Direct
<1>10. PastInv'
  <2> SUFFICES ASSUME NEW g \in Direct, conn'[g] PROVE Carries(at'[g], stream'[g], hist')
    BY DEF PastInv, Direct
  <2>1. CASE g = f
    <3>1. u = Leader /\ at[f] \in 0..Len(hist) /\ hist \in Seq(Tables)
      BY <2>1, <1>1 DEF Direct, TypeOK
    <3>2. Carries(at[f], <<rec>>, hist)
      BY <3>1, <1>2, CarriesStart DEF LeaderInv
    <3> QED BY <2>1, <3>2, <1>3
  <2>2. CASE g # f
    BY <2>2, <1>3, <1>4, Nodal DEF PastInv
  <2> QED BY <2>1, <2>2
<1>11. ReplayInv'
  <2> SUFFICES ASSUME NEW g \in Replicas, Intact(g)'
               PROVE  \E t : Replay(t, table'[g], stream'[g], table'[Upstream[g]])
    BY DEF ReplayInv
  <2>1. CASE g = f
    <3>1. table[f] \in Tables
      BY <1>1 DEF TypeOK
    <3>2. Replay(<<table[f], table[u]>>, table[f], <<rec>>, table[u])
      BY <3>1, <1>2, ReplayStart
    <3> QED BY <2>1, <3>2, <1>3
  <2>2. CASE g # f
    BY <2>2, <1>3, <1>4 DEF ReplayInv
  <2> QED BY <2>1, <2>2
<1>12. GapInv'
  <2> SUFFICES ASSUME NEW S \in SUBSET Replicas, UnbrokenSet(S)', NEW g \in S
               PROVE  Gapless(seq'[g], stream'[g], seq'[Upstream[g]])
    BY DEF GapInv
  <2>1. CASE g = f
    <3>1. Gapless(seq[f], <<rec>>, seq[u])
      BY <1>2, <1>5 DEF Gapless
    <3> QED BY <2>1, <3>1, <1>3
  <2>2. CASE g # f
    <3> DEFINE R == S \ {f}
    <3>1. ~Settled(f)'
      BY <1>2, <1>3, <1>5 DEF Settled
    <3>2. UnbrokenSet(R)
      <4> SUFFICES ASSUME NEW h \in R
                   PROVE  /\ Intact(h)
                          /\ \/ Upstream[h] \in Direct \cup {Leader}
                             \/ Upstream[h] \in R /\ Settled(Upstream[h])
        BY DEF UnbrokenSet
      <4>1. /\ Intact(h)'
            /\ \/ Upstream[h] \in Direct \cup {Leader}
               \/ Upstream[h] \in S /\ Settled(Upstream[h])'
        BY DEF UnbrokenSet, Direct
      <4>2. ASSUME Upstream[h] \in S, Settled(Upstream[h])'
            PROVE  Upstream[h] \in R /\ Settled(Upstream[h])
        <5>1. Upstream[h] # f
          BY <4>2, <3>1
        <5> QED BY <4>2, <5>1, <1>4 DEF Settled
      <4> QED BY <4>1, <4>2, <1>4
    <3>3. Gapless(seq[g], stream[g], seq[Upstream[g]])
      BY <2>2, <3>2 DEF GapInv
    <3> QED BY <2>2, <3>3, <1>3, <1>4
  <2> QED BY <2>1, <2>2
<1> QED BY <1>6, <1>7, <1>8, <1>9, <1>10, <1>11, <1>12

(* Connections are lost: of the replicas in C. A node whose number changes *)
(* with that has lost all of its connections.                              *)
LEMMA CutInv ==
  ASSUME IInv, NEW C \in SUBSET Replicas,
         conn' = [f \in Replicas |-> conn[f] /\ f \notin C],
         stream' = [f \in Replicas |-> IF f \in C THEN <<>> ELSE stream[f]],
         UNCHANGED <<table, hist, at, epoch, sub>>,
         seq' \in [Nodes -> Nat], faults' \in 0..MaxFaults,
         \A f \in Replicas \ C : seq'[f] = seq[f] /\ seq'[Upstream[f]] = seq[Upstream[f]]
  PROVE  IInv'
<1> USE DEF IInv
<1>1. ASSUME NEW f \in Replicas
      PROVE  /\ Intact(f)' => f \notin C /\ Intact(f)
             /\ conn'[f] => f \notin C /\ conn[f]
             /\ stream'[f] = IF f \in C THEN <<>> ELSE stream[f]
  BY DEF Intact, TypeOK
<1>2. TypeOK'
  <2>1. stream' \in [Replicas -> Seq(Records)] /\ conn' \in [Replicas -> BOOLEAN]
    BY DEF TypeOK
  <2> QED BY <2>1 DEF TypeOK
<1>3. LeaderInv'
  BY DEF LeaderInv
<1>4. SubInv'
  <2> SUFFICES ASSUME NEW f \in Replicas
               PROVE  /\ sub'[f] <= epoch'[Upstream[f]]
                      /\ conn'[f] \/ stream'[f] = <<>>
                      /\ \A i \in 1..Len(stream'[f]) : stream'[f][i].at <= Len(hist')
    BY DEF SubInv
  <2>1. CASE f \in C
    BY <2>1, <1>1 DEF SubInv
  <2>2. CASE f \notin C
    BY <2>2, <1>1 DEF SubInv
  <2> QED BY <2>1, <2>2
<1>5. ReplicaShowsLeaderPast'
  BY DEF ReplicaShowsLeaderPast, Direct
<1>6. PastInv'
  BY <1>1, Nodal DEF PastInv, Direct
<1>7. ReplayInv'
  BY <1>1 DEF ReplayInv
<1>8. GapInv'
  <2> SUFFICES ASSUME NEW S \in SUBSET Replicas, UnbrokenSet(S)', NEW f \in S
               PROVE  Gapless(seq'[f], stream'[f], seq'[Upstream[f]])
    BY DEF GapInv
  <2>1. UnbrokenSet(S)
    <3> SUFFICES ASSUME NEW g \in S
                 PROVE  /\ Intact(g)
                        /\ \/ Upstream[g] \in Direct \cup {Leader}
                           \/ Upstream[g] \in S /\ Settled(Upstream[g])
      BY DEF UnbrokenSet
    <3>1. /\ Intact(g)'
          /\ \/ Upstream[g] \in Direct \cup {Leader}
             \/ Upstream[g] \in S /\ Settled(Upstream[g])'
      BY DEF UnbrokenSet, Direct
    <3>2. ASSUME Upstream[g] \in S, Settled(Upstream[g])' PROVE Settled(Upstream[g])
      <4>1. Intact(Upstream[g])'
        BY <3>2 DEF Settled
      <4> QED BY <3>2, <4>1, <1>1 DEF Settled
    <3> QED BY <3>1, <3>2, <1>1
  <2>2. f \notin C
    BY <1>1 DEF UnbrokenSet
  <2> QED BY <2>1, <2>2, <1>1 DEF GapInv
<1> QED BY <1>2, <1>3, <1>4, <1>5, <1>6, <1>7, <1>8

(* A snapshot is refused, a connection breaks, a server restarts.          *)
LEMMA LossInv ==
  ASSUME IInv, \/ \E f \in Replicas : RefuseSnapshot(f) \/ Disconnect(f)
               \/ \E n \in Nodes : Restart(n)
  PROVE  IInv'
<1>0. faults \in 0..MaxFaults /\ MaxFaults \in Nat /\ seq \in [Nodes -> Nat]
  BY BoundsAreNat DEF IInv, TypeOK
<1>1. ASSUME NEW f \in Replicas, RefuseSnapshot(f) \/ Disconnect(f) PROVE IInv'
  <2>1. /\ conn' = [conn EXCEPT ![f] = FALSE] /\ stream' = [stream EXCEPT ![f] = <<>>]
        /\ UNCHANGED <<table, hist, at, epoch, sub, seq>> /\ faults' \in 0..MaxFaults
    BY <1>0, <1>1 DEF RefuseSnapshot, Disconnect
  <2>2. /\ conn' = [g \in Replicas |-> conn[g] /\ g \notin {f}]
        /\ stream' = [g \in Replicas |-> IF g \in {f} THEN <<>> ELSE stream[g]]
    BY <2>1 DEF IInv, TypeOK
  <2> QED BY <2>1, <2>2, <1>0, CutInv
<1>2. ASSUME NEW n \in Nodes, Restart(n) PROVE IInv'
  <2> DEFINE C == {f \in Replicas : f = n \/ Upstream[f] = n}
  <2>1. /\ conn' = [f \in Replicas |-> conn[f] /\ f \notin C]
        /\ stream' = [f \in Replicas |-> IF f \in C THEN <<>> ELSE stream[f]]
        /\ UNCHANGED <<table, hist, at, epoch, sub>> /\ faults' \in 0..MaxFaults
        /\ seq' = [seq EXCEPT ![n] = 0]
    BY <1>0, <1>2 DEF Restart
  <2>2. seq' \in [Nodes -> Nat]
    BY <2>1, <1>0
  <2>3. \A f \in Replicas \ C : seq'[f] = seq[f] /\ seq'[Upstream[f]] = seq[Upstream[f]]
    BY <2>1, <1>0, Nodal
  <2>4. C \in SUBSET Replicas
    OBVIOUS
  <2> HIDE DEF C
  <2> QED BY <2>1, <2>2, <2>3, <2>4, CutInv
<1> QED BY <1>1, <1>2

(* A replica takes the record in front of its queue, whatever it is, and   *)
(* the queues of the others stay as they are. What is left to show of the  *)
(* invariant concerns the replica's own followers.                         *)
LEMMA TakeHead ==
  ASSUME IInv, NEW f \in Replicas, conn[f], stream[f] # <<>>
  PROVE  LET rec == Head(stream[f]) IN
         /\ rec \in Records /\ Tail(stream[f]) \in Seq(Records)
         /\ rec.at \in 0..Len(hist) /\ rec.seq \in Nat
         /\ After(table[f], rec) \in Tables
         /\ \A i \in 1..Len(Tail(stream[f])) :
              Tail(stream[f])[i] = stream[f][i + 1] /\ i + 1 \in 1..Len(stream[f])
         /\ rec = stream[f][1] /\ 1 \in 1..Len(stream[f])
<1> USE DEF IInv
<1>1. stream[f] \in Seq(Records) /\ table[f] \in Tables /\ Len(hist) \in Nat
  BY Nodal DEF TypeOK
<1>2. /\ Tail(stream[f]) \in Seq(Records) /\ Head(stream[f]) = stream[f][1]
      /\ stream[f][1] \in Records
      /\ Len(Tail(stream[f])) = Len(stream[f]) - 1 /\ Len(stream[f]) \in Nat /\ Len(stream[f]) >= 1
      /\ \A i \in 1..Len(Tail(stream[f])) : Tail(stream[f])[i] = stream[f][i + 1]
  BY <1>1, TailHas
<1>3. stream[f][1].at <= Len(hist) /\ stream[f][1].at \in Nat /\ stream[f][1].seq \in Nat
  BY <1>2, RecordType DEF SubInv
<1>4. After(table[f], Head(stream[f])) \in Tables
  BY <1>1, <1>2, AfterType
<1> QED BY <1>1, <1>2, <1>3, <1>4

(* A replica replaces its table by a snapshot: its followers' streams are  *)
(* no longer intact.                                                       *)
LEMMA SnapshotInv ==
  ASSUME IInv, NEW f \in Replicas, ApplySnapshot(f)
  PROVE  IInv'
<1> DEFINE q == stream[f]
           rec == Head(q)
<1> USE DEF IInv
<1>0. conn[f] /\ q # <<>> /\ rec.kind = "snapshot" /\ f \in Nodes /\ f # Leader /\ q \in Seq(Records)
  BY Nodal DEF ApplySnapshot, TypeOK
<1>1. /\ rec \in Records /\ Tail(q) \in Seq(Records)
      /\ rec.at \in 0..Len(hist) /\ rec.seq \in Nat /\ After(table[f], rec) \in Tables
      /\ \A i \in 1..Len(Tail(q)) : Tail(q)[i] = q[i + 1] /\ i + 1 \in 1..Len(q)
  BY <1>0, TakeHead
<1>2. After(table[f], rec) = rec.body
  BY <1>0 DEF After
<1>3. /\ table' = [table EXCEPT ![f] = rec.body] /\ seq' = [seq EXCEPT ![f] = rec.seq]
      /\ at' = [at EXCEPT ![f] = rec.at] /\ stream' = [stream EXCEPT ![f] = Tail(q)]
      /\ epoch' = [epoch EXCEPT ![f] = @ + 1] /\ UNCHANGED <<conn, faults, hist, sub>>
  BY DEF ApplySnapshot
<1>4. /\ table'[f] = After(table[f], rec) /\ seq'[f] = rec.seq /\ at'[f] = rec.at
      /\ stream'[f] = Tail(q) /\ epoch'[f] = epoch[f] + 1 /\ epoch[f] \in Nat
  BY <1>0, <1>2, <1>3 DEF TypeOK
<1>5. ASSUME NEW n \in Nodes, n # f
      PROVE  table'[n] = table[n] /\ seq'[n] = seq[n] /\ at'[n] = at[n] /\ epoch'[n] = epoch[n]
  BY <1>3, <1>5 DEF TypeOK
<1>6. ASSUME NEW g \in Replicas, g # f PROVE stream'[g] = stream[g]
  BY <1>3, <1>6 DEF TypeOK
<1>7. TypeOK'
  BY <1>0, <1>1, <1>2, <1>3, <1>4, SMTT(30) DEF TypeOK
<1>8. LeaderInv'
  BY <1>0, <1>3, <1>5, Nodal DEF LeaderInv
<1>9. ASSUME NEW g \in Replicas
      PROVE  /\ Upstream[g] \in Nodes /\ sub[g] \in Nat /\ sub[g] <= epoch[Upstream[g]]
             /\ Intact(g)' => Upstream[g] # f /\ Intact(g)
  <2>1. Upstream[g] \in Nodes /\ sub[g] \in Nat /\ sub[g] <= epoch[Upstream[g]]
    BY Nodal DEF TypeOK, SubInv
  <2>2. ASSUME Intact(g)' PROVE Upstream[g] # f /\ Intact(g)
    <3>1. conn[g] /\ sub[g] = epoch'[Upstream[g]]
      BY <2>2, <1>3 DEF Intact
    <3>2. Upstream[g] # f
      BY <3>1, <2>1, <1>4
    <3> QED BY <3>1, <3>2, <2>1, <1>5 DEF Intact
  <2> QED BY <2>1, <2>2
<1> HIDE DEF q, rec
<1>10. SubInv'
  <2> SUFFICES ASSUME NEW g \in Replicas
               PROVE  /\ sub'[g] <= epoch'[Upstream[g]]
                      /\ conn'[g] \/ stream'[g] = <<>>
                      /\ \A i \in 1..Len(stream'[g]) : stream'[g][i].at <= Len(hist')
    BY DEF SubInv
  <2>1. sub'[g] <= epoch'[Upstream[g]]
    <3>1. CASE Upstream[g] = f
      BY <3>1, <1>3, <1>4, <1>9
    <3>2. CASE Upstream[g] # f
      BY <3>2, <1>3, <1>5, <1>9
    <3> QED BY <3>1, <3>2
  <2>2. CASE g = f
    BY <2>1, <2>2, <1>0, <1>1, <1>3, <1>4 DEF SubInv, q
  <2>3. CASE g # f
    BY <2>1, <2>3, <1>3, <1>6 DEF SubInv
  <2> QED BY <2>2, <2>3
<1>11. ASSUME f \in Direct
       PROVE  Carries(at'[f], stream'[f], hist') /\ at'[f] \in 1..Len(hist)
              /\ table'[f] = hist[at'[f]]
  <2>1. /\ Carries(at[f], q, hist) /\ (at[f] > 0 => table[f] = hist[at[f]])
        /\ at[f] \in 0..Len(hist) /\ hist \in Seq(Tables)
    BY <1>0, <1>11 DEF PastInv, ReplicaShowsLeaderPast, TypeOK, q
  <2>2. /\ Carries(rec.at, Tail(q), hist) /\ rec.at \in 1..Len(hist)
        /\ After(table[f], rec) = hist[rec.at]
    BY <2>1, <1>0, CarriesTail DEF rec
  <2> QED BY <2>2, <1>3, <1>4
<1>12. ReplicaShowsLeaderPast'
  <2> SUFFICES ASSUME NEW g \in Direct, at'[g] > 0 PROVE table'[g] = hist'[at'[g]]
    BY DEF ReplicaShowsLeaderPast
  <2>1. CASE g = f
    BY <2>1, <1>3, <1>11
  <2>2. CASE g # f
    BY <2>2, <1>3, <1>5, Nodal DEF ReplicaShowsLeaderPast
  <2> QED BY <2>1, <2>2
<1>13. PastInv'
  <2> SUFFICES ASSUME NEW g \in Direct, conn'[g] PROVE Carries(at'[g], stream'[g], hist')
    BY DEF PastInv
  <2>1. CASE g = f
    BY <2>1, <1>11
  <2>2. CASE g # f
    BY <2>2, <1>3, <1>5, <1>6, Nodal DEF PastInv
  <2> QED BY <2>1, <2>2
<1>14. ReplayInv'
  <2> SUFFICES ASSUME NEW g \in Replicas, Intact(g)'
               PROVE  \E t : Replay(t, table'[g], stream'[g], table'[Upstream[g]])
    BY DEF ReplayInv
  <2>1. PICK t : Replay(t, table[g], stream[g], table[Upstream[g]])
    BY <1>9 DEF ReplayInv
  <2>2. table'[Upstream[g]] = table[Upstream[g]]
    BY <1>5, <1>9
  <2>3. CASE g = f
    <3>1. Replay(Tail(t), After(table[f], rec), Tail(q), table[Upstream[f]])
      BY <2>1, <2>3, <1>0, ReplayTail DEF q, rec
    <3> QED BY <3>1, <2>2, <2>3, <1>4
  <2>4. CASE g # f
    BY <2>1, <2>2, <2>4, <1>5, <1>6, Nodal
  <2> QED BY <2>3, <2>4
<1>15. GapInv'
  <2> SUFFICES ASSUME NEW S \in SUBSET Replicas, UnbrokenSet(S)', NEW g \in S
               PROVE  Gapless(seq'[g], stream'[g], seq'[Upstream[g]])
    BY DEF GapInv
  <2>1. UnbrokenSet(S)
    <3> SUFFICES ASSUME NEW h \in S
                 PROVE  /\ Intact(h)
                        /\ \/ Upstream[h] \in Direct \cup {Leader}
                           \/ Upstream[h] \in S /\ Settled(Upstream[h])
      BY DEF UnbrokenSet
    <3>1. /\ Intact(h)'
          /\ \/ Upstream[h] \in Direct \cup {Leader}
             \/ Upstream[h] \in S /\ Settled(Upstream[h])'
      BY DEF UnbrokenSet, Direct
    <3>2. Upstream[h] # f
      BY <3>1, <1>9
    <3>3. ASSUME Upstream[h] \in S, Settled(Upstream[h])' PROVE Settled(Upstream[h])
      <4>1. stream'[Upstream[h]] = stream[Upstream[h]]
        BY <3>2, <3>3, <1>6
      <4>2. Intact(Upstream[h])
        BY <3>3, <1>9 DEF Settled
      <4> QED BY <3>3, <4>1, <4>2 DEF Settled
    <3> QED BY <3>1, <3>3, <1>9
  <2>2. Gapless(seq[g], stream[g], seq[Upstream[g]])
    BY <2>1 DEF GapInv
  <2>3. Upstream[g] # f /\ Upstream[g] \in Nodes
    BY <1>9 DEF UnbrokenSet
  <2>4. seq'[Upstream[g]] = seq[Upstream[g]] /\ seq[Upstream[g]] \in Nat /\ seq[f] \in Nat
    BY <2>3, <1>0, <1>5 DEF TypeOK
  <2>5. CASE g = f
    <3>1. Gapless(rec.seq, Tail(q), seq[Upstream[f]])
      BY <2>2, <2>4, <2>5, <1>0, GaplessTail DEF q, rec
    <3> QED BY <3>1, <2>4, <2>5, <1>4
  <2>6. CASE g # f
    BY <2>2, <2>4, <2>6, <1>5, <1>6, Nodal
  <2> QED BY <2>5, <2>6
<1> QED BY <1>7, <1>8, <1>10, <1>12, <1>13, <1>14, <1>15

(* A replica applies a batch and passes it on.                             *)
LEMMA BatchInv ==
  ASSUME IInv, NEW f \in Replicas, ApplyBatch(f)
  PROVE  IInv'
<1> DEFINE q == stream[f]
           rec == Head(q)
           left(g) == IF g = f THEN Tail(q) ELSE stream[g]
<1> USE DEF IInv
<1>0. conn[f] /\ q # <<>> /\ rec.kind = "batch" /\ f \in Nodes /\ f # Leader /\ q \in Seq(Records)
  BY Nodal DEF ApplyBatch, TypeOK
<1>1. /\ rec \in Records /\ Tail(q) \in Seq(Records)
      /\ rec.at \in 0..Len(hist) /\ rec.seq \in Nat /\ After(table[f], rec) \in Tables
      /\ \A i \in 1..Len(Tail(q)) : Tail(q)[i] = q[i + 1] /\ i + 1 \in 1..Len(q)
      /\ rec = q[1] /\ 1 \in 1..Len(q)
  BY <1>0, TakeHead
<1>2. After(table[f], rec) = ApplyOps(table[f], rec.body)
  BY <1>0 DEF After
<1>3. /\ table' = [table EXCEPT ![f] = After(table[f], rec)] /\ seq' = [seq EXCEPT ![f] = rec.seq]
      /\ at' = [at EXCEPT ![f] = rec.at]
      /\ UNCHANGED <<conn, faults, hist, epoch, sub>>
  BY <1>0, <1>2 DEF ApplyBatch, TypeOK
<1>4. /\ table'[f] = After(table[f], rec) /\ seq'[f] = rec.seq /\ at'[f] = rec.at
  BY <1>0, <1>3 DEF TypeOK
<1>5. ASSUME NEW n \in Nodes, n # f
      PROVE  table'[n] = table[n] /\ seq'[n] = seq[n] /\ at'[n] = at[n]
  BY <1>3, <1>5 DEF TypeOK
<1>6. stream' = [g \in Replicas |-> IF conn[g] /\ Upstream[g] = f THEN Append(left(g), rec) ELSE left(g)]
  <2>1. stream' = Broadcast([stream EXCEPT ![f] = Tail(q)], f, rec)
    BY DEF ApplyBatch
  <2>2. [stream EXCEPT ![f] = Tail(q)] = [g \in Replicas |-> left(g)]
    BY DEF TypeOK
  <2> QED BY <2>1, <2>2 DEF Broadcast, Subscribers
<1>7. ASSUME NEW g \in Replicas
      PROVE  /\ left(g) \in Seq(Records)
             /\ stream'[g] = IF conn[g] /\ Upstream[g] = f THEN Append(left(g), rec) ELSE left(g)
             /\ \A i \in 1..Len(left(g)) : left(g)[i].at <= Len(hist)
             /\ Intact(g)' = Intact(g)
             /\ Upstream[g] \in Nodes /\ g \in Nodes /\ stream[g] \in Seq(Records)
  <2>1. left(g) \in Seq(Records) /\ stream[g] \in Seq(Records)
    BY <1>1 DEF TypeOK
  <2>2. \A i \in 1..Len(left(g)) : left(g)[i].at <= Len(hist)
    <3>1. CASE g = f
      BY <3>1, <1>1 DEF SubInv
    <3>2. CASE g # f
      BY <3>2 DEF SubInv
    <3> QED BY <3>1, <3>2
  <2> QED BY <2>1, <2>2, <1>3, <1>6, Nodal DEF Intact
<1> HIDE DEF q, rec, left
<1>8. TypeOK'
  <2>1. stream' \in [Replicas -> Seq(Records)]
    <3>1. ASSUME NEW g \in Replicas
          PROVE  (IF conn[g] /\ Upstream[g] = f THEN Append(left(g), rec) ELSE left(g)) \in Seq(Records)
      BY <1>1, <1>7, AppendHas
    <3> QED BY <3>1, <1>6
  <2> QED BY <2>1, <1>0, <1>1, <1>3 DEF TypeOK
<1>9. LeaderInv'
  BY <1>0, <1>3, <1>5, Nodal DEF LeaderInv
<1>10. SubInv'
  <2> SUFFICES ASSUME NEW g \in Replicas
               PROVE  /\ sub'[g] <= epoch'[Upstream[g]]
                      /\ conn'[g] \/ stream'[g] = <<>>
                      /\ \A i \in 1..Len(stream'[g]) : stream'[g][i].at <= Len(hist')
    BY DEF SubInv
  <2>1. sub'[g] <= epoch'[Upstream[g]]
    BY <1>3 DEF SubInv
  <2>2. conn'[g] \/ stream'[g] = <<>>
    BY <1>0, <1>3, <1>7 DEF SubInv, left
  <2>3. ASSUME NEW i \in 1..Len(stream'[g]) PROVE stream'[g][i].at <= Len(hist')
    <3>1. CASE conn[g] /\ Upstream[g] = f
      <4>1. /\ stream'[g][i] = IF i = Len(left(g)) + 1 THEN rec ELSE left(g)[i]
            /\ i = Len(left(g)) + 1 \/ i \in 1..Len(left(g))
        <5>1. stream'[g] = Append(left(g), rec) /\ left(g) \in Seq(Records) /\ rec \in Records
          BY <3>1, <1>1, <1>7
        <5>2. /\ Len(stream'[g]) = Len(left(g)) + 1 /\ Len(left(g)) \in Nat
              /\ stream'[g][Len(left(g)) + 1] = rec
              /\ \A j \in 1..Len(left(g)) : stream'[g][j] = left(g)[j]
          BY <5>1, AppendHas
        <5> QED BY <2>3, <5>2
      <4> QED BY <4>1, <1>1, <1>3, <1>7
    <3>2. CASE ~(conn[g] /\ Upstream[g] = f)
      BY <3>2, <1>3, <1>7
    <3> QED BY <3>1, <3>2
  <2> QED BY <2>1, <2>2, <2>3
<1>11. ASSUME f \in Direct
       PROVE  /\ Carries(at'[f], left(f), hist) /\ at'[f] \in 1..Len(hist)
              /\ table'[f] = hist[at'[f]]
  <2>1. /\ Carries(at[f], q, hist) /\ (at[f] > 0 => table[f] = hist[at[f]])
        /\ at[f] \in 0..Len(hist) /\ hist \in Seq(Tables)
    BY <1>0, <1>11 DEF PastInv, ReplicaShowsLeaderPast, TypeOK, q
  <2>2. /\ Carries(rec.at, Tail(q), hist) /\ rec.at \in 1..Len(hist)
        /\ After(table[f], rec) = hist[rec.at]
    BY <2>1, <1>0, CarriesTail DEF rec
  <2> QED BY <2>2, <1>4 DEF left
<1>12. ReplicaShowsLeaderPast'
  <2> SUFFICES ASSUME NEW g \in Direct, at'[g] > 0 PROVE table'[g] = hist'[at'[g]]
    BY DEF ReplicaShowsLeaderPast
  <2>1. CASE g = f
    BY <2>1, <1>3, <1>11
  <2>2. CASE g # f
    BY <2>2, <1>3, <1>5, Nodal DEF ReplicaShowsLeaderPast
  <2> QED BY <2>1, <2>2
<1>13. PastInv'
  <2> SUFFICES ASSUME NEW g \in Direct, conn'[g] PROVE Carries(at'[g], stream'[g], hist')
    BY DEF PastInv
  <2>0. g \in Replicas /\ Upstream[g] # f
    BY <1>0 DEF Direct
  <2>1. stream'[g] = left(g)
    BY <2>0, <1>7
  <2>2. CASE g = f
    BY <2>1, <2>2, <1>3, <1>11
  <2>3. CASE g # f
    BY <2>0, <2>1, <2>3, <1>3, <1>5, Nodal DEF PastInv, left
  <2> QED BY <2>2, <2>3
<1>14. ReplayInv'
  <2> SUFFICES ASSUME NEW g \in Replicas, Intact(g)'
               PROVE  \E t : Replay(t, table'[g], stream'[g], table'[Upstream[g]])
    BY DEF ReplayInv
  <2>1. PICK t : Replay(t, table[g], stream[g], table[Upstream[g]])
    BY <1>7 DEF ReplayInv
  <2>2. PICK s : Replay(s, table'[g], left(g), table[Upstream[g]])
    <3>1. CASE g = f
      <4>1. Replay(Tail(t), After(table[f], rec), Tail(q), table[Upstream[f]])
        BY <2>1, <3>1, <1>0, ReplayTail DEF q, rec
      <4> QED BY <4>1, <3>1, <1>4 DEF left
    <3>2. CASE g # f
      BY <2>1, <3>2, <1>5, <1>7 DEF left
    <3> QED BY <3>1, <3>2
  <2>3. CASE Upstream[g] = f
    <3>1. table[f] \in Tables /\ conn[g]
      BY <1>0, <1>7 DEF TypeOK, Intact
    <3>2. Replay(Append(s, After(table[f], rec)), table'[g], Append(left(g), rec), After(table[f], rec))
      BY <2>2, <2>3, <3>1, <1>1, <1>7, ReplayAppend
    <3> QED BY <3>1, <3>2, <2>3, <1>4, <1>7
  <2>4. CASE Upstream[g] # f
    BY <2>2, <2>4, <1>5, <1>7
  <2> QED BY <2>3, <2>4
<1>15. GapInv'
  <2> SUFFICES ASSUME NEW S \in SUBSET Replicas, UnbrokenSet(S)', NEW g \in S
               PROVE  Gapless(seq'[g], stream'[g], seq'[Upstream[g]])
    BY DEF GapInv
  <2>1. UnbrokenSet(S)
    <3> SUFFICES ASSUME NEW h \in S
                 PROVE  /\ Intact(h)
                        /\ \/ Upstream[h] \in Direct \cup {Leader}
                           \/ Upstream[h] \in S /\ Settled(Upstream[h])
      BY DEF UnbrokenSet
    <3>1. /\ Intact(h)'
          /\ \/ Upstream[h] \in Direct \cup {Leader}
             \/ Upstream[h] \in S /\ Settled(Upstream[h])'
      BY DEF UnbrokenSet, Direct
    <3>2. ASSUME Upstream[h] \in S, Settled(Upstream[h])' PROVE Settled(Upstream[h])
      <4> DEFINE k == Upstream[h]
      <4>1. k \in Replicas /\ Intact(k)
        BY <3>2, <1>7 DEF Settled
      <4>2. \A i \in 1..Len(stream'[k]) : stream'[k][i].kind = "batch"
        <5>1. DOMAIN stream'[k] = 1..Len(stream'[k])
          BY <4>1, <1>8 DEF TypeOK
        <5> QED BY <3>2, <5>1 DEF Settled
      <4>3. ASSUME NEW i \in 1..Len(left(k)) PROVE left(k)[i].kind = "batch"
        <5>1. i \in 1..Len(stream'[k]) /\ stream'[k][i] = left(k)[i]
          <6>1. left(k) \in Seq(Records) /\ rec \in Records
            BY <4>1, <1>1, <1>7
          <6>2. CASE stream'[k] = left(k)
            BY <4>3, <6>2
          <6>3. CASE stream'[k] = Append(left(k), rec)
            <7>1. /\ Len(stream'[k]) = Len(left(k)) + 1 /\ Len(left(k)) \in Nat
                  /\ \A j \in 1..Len(left(k)) : stream'[k][j] = left(k)[j]
              BY <6>1, <6>3, AppendHas
            <7> QED BY <4>3, <7>1
          <6> QED BY <6>2, <6>3, <4>1, <1>7
        <5> QED BY <4>2, <5>1
      <4>4. ASSUME NEW i \in 1..Len(stream[k]) PROVE stream[k][i].kind = "batch"
        <5>1. CASE k # f
          BY <4>3, <4>4, <5>1 DEF left
        <5>2. CASE k = f /\ i = 1
          BY <5>2, <1>0, <1>1 DEF q
        <5>3. CASE k = f /\ i # 1
          <6>1. i - 1 \in 1..Len(Tail(q)) /\ (i - 1) + 1 = i
            BY <5>3, <1>0, TailHas DEF q
          <6>2. Tail(q)[i - 1] = stream[k][i]
            BY <6>1, <5>3, <1>1 DEF q
          <6> QED BY <6>1, <6>2, <5>3, <4>3 DEF left
        <5> QED BY <5>1, <5>2, <5>3
      <4>5. DOMAIN stream[k] = 1..Len(stream[k])
        BY <4>1, <1>7
      <4> QED BY <4>1, <4>4, <4>5 DEF Settled
    <3> QED BY <3>1, <3>2, <1>7
  <2>2. \A h \in S : Gapless(seq[h], stream[h], seq[Upstream[h]]) /\ h \in Replicas
    BY <2>1 DEF GapInv
  <2>3. seq[Upstream[g]] \in Nat /\ seq[g] \in Nat /\ seq[f] \in Nat /\ seq'[g] \in Nat
    BY <1>0, <1>7, <1>8 DEF TypeOK
  <2>4. Gapless(seq'[g], left(g), seq[Upstream[g]])
    <3>1. CASE g = f
      <4>1. Gapless(rec.seq, Tail(q), seq[Upstream[f]])
        BY <2>2, <2>3, <3>1, <1>0, GaplessTail DEF q, rec
      <4> QED BY <4>1, <3>1, <1>4 DEF left
    <3>2. CASE g # f
      BY <2>2, <3>2, <1>5, <1>7 DEF left
    <3> QED BY <3>1, <3>2
  <2>5. CASE Upstream[g] = f
    <3>1. conn[g]
      BY <2>1 DEF UnbrokenSet, Intact
    <3>2. Gapless(seq[f], q, seq[Upstream[f]]) /\ seq[Upstream[f]] \in Nat
      <4>1. CASE f \in S
        BY <4>1, <2>2, <1>7 DEF q, TypeOK
      <4>2. CASE f \notin S
        <5>1. f \in Direct
          BY <2>1, <2>5, <4>2, <1>0 DEF UnbrokenSet
        <5>2. UnbrokenSet({f})
          BY <5>1, <1>0, DirectUnbroken
        <5> QED BY <5>2, <1>7 DEF GapInv, q, TypeOK
      <4> QED BY <4>1, <4>2
    <3>3. rec.seq = seq[f] + 1
      BY <2>3, <3>2, <1>0, GaplessTail DEF rec
    <3>4. Gapless(seq'[g], Append(left(g), rec), seq[f] + 1)
      BY <2>3, <2>4, <2>5, <3>3, <1>0, <1>1, <1>7, GaplessAppend
    <3> QED BY <3>1, <3>3, <3>4, <2>5, <1>4, <1>7
  <2>6. CASE Upstream[g] # f
    BY <2>4, <2>6, <1>5, <1>7
  <2> QED BY <2>5, <2>6
<1> QED BY <1>8, <1>9, <1>10, <1>12, <1>13, <1>14, <1>15

(* No step breaks the invariant.                                           *)
LEMMA StepInv == IInv /\ [Next]_vars => IInv'
<1> SUFFICES ASSUME IInv, [Next]_vars PROVE IInv'
  OBVIOUS
<1>1. CASE \E n \in Nodes, b \in Batches : HandleWrite(n, b)
  BY <1>1, WriteInv
<1>2. CASE \E f \in Replicas : Subscribe(f)
  BY <1>2, SubscribeInv
<1>3. CASE \E f \in Replicas : ApplySnapshot(f)
  BY <1>3, SnapshotInv
<1>4. CASE \E f \in Replicas : ApplyBatch(f)
  BY <1>4, BatchInv
<1>5. CASE \/ \E f \in Replicas : RefuseSnapshot(f) \/ Disconnect(f)
           \/ \E n \in Nodes : Restart(n)
  BY <1>5, LossInv
<1>6. CASE UNCHANGED vars
  BY <1>6 DEF vars, IInv, TypeOK, LeaderInv, SubInv, ReplicaShowsLeaderPast, PastInv,
              ReplayInv, GapInv, UnbrokenSet, Settled, Intact, Direct
<1> QED BY <1>1, <1>2, <1>3, <1>4, <1>5, <1>6 DEF Next

(* The invariant holds throughout.                                         *)
LEMMA Invariance == Spec => []IInv
BY InitInv, StepInv, PTL DEF Spec

-----------------------------------------------------------------------------
(* What the invariant says.                                                *)

(* Nothing is missing between a node and what it feeds: the numbers of an  *)
(* unbroken chain have no hole, and a follower of any node with nothing    *)
(* left to apply has its upstream's table, however long the chain is.      *)
THEOREM GaplessStreams == Spec => []StreamsAreGapless
<1>1. IInv => StreamsAreGapless
  <2> SUFFICES ASSUME IInv PROVE StreamsAreGapless
    OBVIOUS
  <2>1. NoGap
    <3> SUFFICES ASSUME NEW f \in Replicas, Unbroken(f)
                 PROVE  Gapless(seq[f], stream[f], seq[Upstream[f]])
      BY DEF NoGap, Gapless
    <3>1. PICK S \in SUBSET Replicas : f \in S /\ UnbrokenSet(S)
      BY DEF Unbroken
    <3> QED BY <3>1 DEF IInv, GapInv
  <2>2. DrainedIsEqual
    <3> SUFFICES ASSUME NEW f \in Replicas, Intact(f), stream[f] = <<>>
                 PROVE  table[f] = table[Upstream[f]]
      BY DEF DrainedIsEqual
    <3>1. PICK t : Replay(t, table[f], stream[f], table[Upstream[f]])
      BY DEF IInv, ReplayInv
    <3>2. Len(t) = 1
      BY <3>1 DEF Replay
    <3> QED BY <3>1, <3>2 DEF Replay
  <2> QED BY <2>1, <2>2 DEF IInv, StreamsAreGapless
<1> QED BY Invariance, <1>1, PTL

(* A replica of the leader that has applied a snapshot shows a table the   *)
(* leader really had, whatever is lost and whoever restarts.               *)
THEOREM ReplicasShowThePast == Spec => []ReplicaShowsLeaderPast
<1>1. IInv => ReplicaShowsLeaderPast
  BY DEF IInv
<1> QED BY Invariance, <1>1, PTL

(* A replica of the leader never goes back to an older table: a new        *)
(* subscription's snapshot is never older than what was applied before.    *)
THEOREM ReplicasMoveForward == Spec => ReplicaNeverGoesBack
<1>1. IInv /\ [Next]_vars => [\A f \in Direct : at'[f] >= at[f]]_vars
  <2> SUFFICES ASSUME IInv, [Next]_vars, NEW f \in Direct PROVE at'[f] >= at[f]
    BY DEF Direct
  <2>0. /\ f \in Replicas /\ f \in Nodes /\ f # Leader /\ at[f] \in 0..Len(hist)
        /\ Len(hist) \in Nat /\ hist \in Seq(Tables) /\ stream[f] \in Seq(Records)
    BY Nodal DEF IInv, TypeOK
  <2>1. CASE at'[f] = at[f]
    BY <2>0, <2>1
  <2>2. CASE ApplySnapshot(f) \/ ApplyBatch(f)
    <3>1. conn[f] /\ stream[f] # <<>> /\ at'[f] = Head(stream[f]).at
      BY <2>0, <2>2 DEF ApplySnapshot, ApplyBatch, IInv, TypeOK
    <3>2. Carries(at[f], stream[f], hist) /\ (at[f] > 0 => table[f] = hist[at[f]])
      BY <3>1 DEF IInv, PastInv, ReplicaShowsLeaderPast
    <3> QED BY <3>1, <3>2, <2>0, CarriesTail
  <2>3. at'[f] = at[f] \/ ApplySnapshot(f) \/ ApplyBatch(f)
    <3>1. CASE \E n \in Nodes, b \in Batches : HandleWrite(n, b)
      BY <3>1, <2>0 DEF HandleWrite, ReadOnly, IInv, TypeOK
    <3>2. CASE \E g \in Replicas : ApplySnapshot(g) \/ ApplyBatch(g)
      BY <3>2, <2>0 DEF ApplySnapshot, ApplyBatch, IInv, TypeOK
    <3>3. CASE \/ \E g \in Replicas : Subscribe(g) \/ RefuseSnapshot(g) \/ Disconnect(g)
               \/ \E n \in Nodes : Restart(n)
      BY <3>3 DEF Subscribe, RefuseSnapshot, Disconnect, Restart
    <3>4. CASE UNCHANGED vars
      BY <3>4 DEF vars
    <3> QED BY <3>1, <3>2, <3>3, <3>4 DEF Next
  <2> QED BY <2>1, <2>2, <2>3
<1> QED BY Invariance, <1>1, PTL DEF Spec, ReplicaNeverGoesBack
=============================================================================
