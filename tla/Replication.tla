---------------------------- MODULE Replication ----------------------------
(***************************************************************************)
(* ciphra-net and ciphra-server: a leader that takes writes and streams    *)
(* them to read-only replicas, which may feed replicas of their own.       *)
(*                                                                         *)
(* A subscription is a TCP connection behind an in-process queue: records  *)
(* arrive in order or, when the connection is lost, not at all. The table  *)
(* of a node is its Storage (durable, see WalStorage); its sequence number *)
(* and its subscriptions live in memory.                                   *)
(***************************************************************************)
EXTENDS KV, FiniteSets

CONSTANTS Replicas,    \* the read-only nodes
          Leader,      \* the writable node
          Upstream,    \* the node each replica follows
          Batches,     \* what clients write
          Leftovers,   \* tables a replica's data directory may start with
          MaxCommits,  \* bound: writes the leader accepts
          MaxFrame,    \* the most pairs a snapshot frame may carry
          MaxFaults    \* bound: lost connections and restarts

Nodes == Replicas \cup {Leader}

ASSUME LeaderIsNoReplica == Leader \notin Replicas
ASSUME UpstreamIsNode    == Upstream \in [Replicas -> Nodes]
ASSUME BatchesAreEntries == Batches \subseteq Seq(Entries)
ASSUME LeftoversAreTables == Leftovers \subseteq Tables
ASSUME BoundsAreNat      == {MaxCommits, MaxFrame, MaxFaults} \subseteq Nat

VARIABLES table,     \* ServerState.storage of each node
          seq,       \* ServerState.seq of each node
          conn,      \* is this replica subscribed to its upstream?
          stream,    \* the records on their way to it
          faults,    \* how many faults have happened
          hist,      \* history: the leader's table after each of its commits
          at,        \* history: the commit each node's table stands for
          epoch,     \* history: snapshots each node has applied
          sub        \* history: the upstream's epoch when the replica subscribed

vars == <<table, seq, conn, stream, faults, hist, at, epoch, sub>>

-----------------------------------------------------------------------------
(* Replication records; `at` is a history field.                           *)
Snapshots == [kind : {"snapshot"}, seq : Nat, body : Tables, at : Nat]
Deltas    == [kind : {"batch"}, seq : Nat, body : Seq(Entries), at : Nat]
Records   == Snapshots \cup Deltas

Snapshot(n) == [kind |-> "snapshot", seq |-> seq[n], body |-> table[n], at |-> at[n]]
Delta(s, b, i) == [kind |-> "batch", seq |-> s, body |-> b, at |-> i]

(* ServerState::subscribers of n: everything sent there reaches the queue  *)
(* of each of its live followers.                                          *)
Subscribers(n) == {f \in Replicas : conn[f] /\ Upstream[f] = n}
BugQueueOfOne(q, n, rec) ==
  [f \in Replicas |-> IF f \in Subscribers(n) /\ q[f] = <<>> THEN <<rec>> ELSE q[f]]

Broadcast(q, n, rec) ==
  [f \in Replicas |-> IF f \in Subscribers(n) THEN Append(q[f], rec) ELSE q[f]]

ReadOnly(n) == n # Leader

(* read_frame on the replica: a snapshot is one frame, however large the   *)
(* table is. (A batch came in as a frame of the same size.)                *)
FitsFrame(rec) == Cardinality({k \in Keys : rec.body[k] # Absent}) <= MaxFrame

Init ==
  /\ table \in {t \in [Nodes -> Leftovers \cup {Empty}] : t[Leader] = Empty}
  /\ seq = [n \in Nodes |-> 0]
  /\ conn = [f \in Replicas |-> FALSE]
  /\ stream = [f \in Replicas |-> <<>>]
  /\ faults = 0
  /\ hist = <<Empty>>
  /\ at = [n \in Nodes |-> IF n = Leader THEN 1 ELSE 0]
  /\ epoch = [n \in Nodes |-> 0]
  /\ sub = [f \in Replicas |-> 0]

-----------------------------------------------------------------------------
(* handle_request, PUT, DELETE and COMMIT: refused by a replica; otherwise *)
(* committed to storage, counted, and pushed to every subscriber, all      *)
(* under the state lock.                                                   *)
HandleWrite(n, b) ==
  /\ ~ReadOnly(n)
  /\ Len(hist) <= MaxCommits
  /\ table' = [table EXCEPT ![n] = ApplyOps(@, b)]
  /\ seq' = [seq EXCEPT ![n] = @ + 1]
  /\ hist' = Append(hist, table'[n])
  /\ at' = [at EXCEPT ![n] = Len(hist')]
  /\ stream' = Broadcast(stream, n, Delta(seq'[n], b, at'[n]))
  /\ UNCHANGED <<conn, faults, epoch, sub>>

(* follow connects and subscribes; stream_to_subscriber captures the       *)
(* snapshot and registers the queue under one lock.                        *)
BugSnapshotBeforeLock(f) ==
  /\ ~conn[f]
  /\ conn' = [conn EXCEPT ![f] = TRUE]
  /\ \E i \in 1..at[Upstream[f]] :
       stream' = [stream EXCEPT ![f] =
                    <<[Snapshot(Upstream[f]) EXCEPT !.body = hist[i], !.at = i]>>]
  /\ sub' = [sub EXCEPT ![f] = epoch[Upstream[f]]]
  /\ UNCHANGED <<table, seq, faults, hist, at, epoch>>

Subscribe(f) ==
  /\ ~conn[f]
  /\ conn' = [conn EXCEPT ![f] = TRUE]
  /\ stream' = [stream EXCEPT ![f] = <<Snapshot(Upstream[f])>>]
  /\ sub' = [sub EXCEPT ![f] = epoch[Upstream[f]]]
  /\ UNCHANGED <<table, seq, faults, hist, at, epoch>>

(* apply_record, snapshot: delete what the snapshot lacks, put what it     *)
(* has, in one commit; adopt its sequence number. Nothing is sent on.      *)
BugSnapshotKeepsStale(f) ==
  /\ conn[f] /\ stream[f] # <<>>
  /\ LET rec == Head(stream[f]) IN
       /\ rec.kind = "snapshot"
       /\ table' = [table EXCEPT ![f] =
                      [k \in Keys |-> IF rec.body[k] # Absent THEN rec.body[k] ELSE @[k]]]
       /\ seq' = [seq EXCEPT ![f] = rec.seq]
       /\ at' = [at EXCEPT ![f] = rec.at]
  /\ stream' = [stream EXCEPT ![f] = Tail(@)]
  /\ epoch' = [epoch EXCEPT ![f] = @ + 1]
  /\ UNCHANGED <<conn, faults, hist, sub>>

ApplySnapshot(f) ==
  /\ conn[f] /\ stream[f] # <<>>
  /\ LET rec == Head(stream[f]) IN
       /\ rec.kind = "snapshot" /\ FitsFrame(rec)
       /\ table' = [table EXCEPT ![f] = rec.body]
       /\ seq' = [seq EXCEPT ![f] = rec.seq]
       /\ at' = [at EXCEPT ![f] = rec.at]
  /\ stream' = [stream EXCEPT ![f] = Tail(@)]
  /\ epoch' = [epoch EXCEPT ![f] = @ + 1]
  /\ UNCHANGED <<conn, faults, hist, sub>>

(* A snapshot longer than a frame may be: read_frame fails, follow         *)
(* returns, and the replica will subscribe again.                          *)
RefuseSnapshot(f) ==
  /\ conn[f] /\ stream[f] # <<>>
  /\ Head(stream[f]).kind = "snapshot" /\ ~FitsFrame(Head(stream[f]))
  /\ conn' = [conn EXCEPT ![f] = FALSE]
  /\ stream' = [stream EXCEPT ![f] = <<>>]
  /\ UNCHANGED <<table, seq, faults, hist, at, epoch, sub>>

(* apply_record, batch: commit it, adopt its sequence number, and pass it  *)
(* on to this node's own subscribers.                                      *)
BugNoCascade(f) ==
  /\ conn[f] /\ stream[f] # <<>>
  /\ LET rec == Head(stream[f]) IN
       /\ rec.kind = "batch"
       /\ table' = [table EXCEPT ![f] = ApplyOps(@, rec.body)]
       /\ seq' = [seq EXCEPT ![f] = rec.seq]
       /\ at' = [at EXCEPT ![f] = rec.at]
       /\ stream' = [stream EXCEPT ![f] = Tail(@)]
  /\ UNCHANGED <<conn, faults, hist, epoch, sub>>

ApplyBatch(f) ==
  /\ conn[f] /\ stream[f] # <<>>
  /\ LET rec == Head(stream[f]) IN
       /\ rec.kind = "batch"
       /\ table' = [table EXCEPT ![f] = ApplyOps(@, rec.body)]
       /\ seq' = [seq EXCEPT ![f] = rec.seq]
       /\ at' = [at EXCEPT ![f] = rec.at]
       /\ stream' = Broadcast([stream EXCEPT ![f] = Tail(@)], f, rec)
  /\ UNCHANGED <<conn, faults, hist, epoch, sub>>

(* The connection breaks, or apply_record returns an error: follow returns *)
(* and what was under way is lost. The upstream drops the dead queue when  *)
(* it next broadcasts.                                                     *)
Disconnect(f) ==
  /\ faults < MaxFaults
  /\ conn[f]
  /\ conn' = [conn EXCEPT ![f] = FALSE]
  /\ stream' = [stream EXCEPT ![f] = <<>>]
  /\ faults' = faults + 1
  /\ UNCHANGED <<table, seq, hist, at, epoch, sub>>

(* A server process restarts: Storage::open brings the table back, the     *)
(* sequence number starts again at 0, all its connections are gone.        *)
Restart(n) ==
  LET cut == {f \in Replicas : f = n \/ Upstream[f] = n} IN
  /\ faults < MaxFaults
  /\ seq' = [seq EXCEPT ![n] = 0]
  /\ conn' = [f \in Replicas |-> conn[f] /\ f \notin cut]
  /\ stream' = [f \in Replicas |-> IF f \in cut THEN <<>> ELSE stream[f]]
  /\ faults' = faults + 1
  /\ UNCHANGED <<table, hist, at, epoch, sub>>

Next ==
  \/ \E n \in Nodes, b \in Batches : HandleWrite(n, b)
  \/ \E f \in Replicas : \/ Subscribe(f)
                         \/ ApplySnapshot(f)
                         \/ RefuseSnapshot(f)
                         \/ ApplyBatch(f)
                         \/ Disconnect(f)
  \/ \E n \in Nodes : Restart(n)

(* A replica's thread reconnects after every error and takes records off   *)
(* the connection as long as there are any; nobody is obliged to write.    *)
Fairness ==
  \A f \in Replicas : /\ WF_vars(Subscribe(f))
                      /\ WF_vars(ApplySnapshot(f) \/ RefuseSnapshot(f) \/ ApplyBatch(f))

Spec == Init /\ [][Next]_vars /\ Fairness

-----------------------------------------------------------------------------
(* Type invariant.                                                         *)
TypeOK ==
  /\ table \in [Nodes -> Tables]
  /\ seq \in [Nodes -> Nat]
  /\ conn \in [Replicas -> BOOLEAN]
  /\ stream \in [Replicas -> Seq(Records)]
  /\ faults \in 0..MaxFaults
  /\ hist \in Seq(Tables)
  /\ at \in [Nodes -> 0..Len(hist)]
  /\ epoch \in [Nodes -> Nat]
  /\ sub \in [Replicas -> Nat]

(* Replicas fed by the leader itself.                                      *)
Direct == {f \in Replicas : Upstream[f] = Leader}

(* A subscription is intact while the upstream has not replaced its own    *)
(* table by a snapshot since it began. The leader never does.              *)
Intact(f) == conn[f] /\ sub[f] = epoch[Upstream[f]]

(* Settled: an intact subscription whose snapshot has been applied.        *)
Settled(f) == Intact(f) /\ \A i \in DOMAIN stream[f] : stream[f][i].kind = "batch"

(* Subscriptions that are intact all the way up. A node behind a           *)
(* subscription that is not intact passes on whatever hole it received, so *)
(* intactness of the last hop is not enough. A replica of the leader is    *)
(* always intact while it is connected and passes on nothing while it is   *)
(* not, so the way up may end there.                                       *)
UnbrokenSet(S) ==
  \A g \in S : /\ Intact(g)
               /\ \/ Upstream[g] \in Direct \cup {Leader}
                  \/ Upstream[g] \in S /\ Settled(Upstream[g])
Unbroken(f) == \E S \in SUBSET Replicas : f \in S /\ UnbrokenSet(S)

(* Once it has applied a snapshot, a replica of the leader shows a table   *)
(* the leader really had: never a mixture, never leftovers of its own.     *)
ReplicaShowsLeaderPast ==
  \A f \in Direct : at[f] > 0 => table[f] = hist[at[f]]

(* "No commit can slip through the gap" between snapshot and registration: *)
(* along an unbroken chain the sequence numbers of a subscription have no  *)
(* hole, from the snapshot (or the last applied record) to the upstream's  *)
(* own number.                                                             *)
NoGap ==
  \A f \in Replicas : Unbroken(f) =>
    LET q == stream[f] IN
    /\ \A i \in 1..Len(q) : q[i].kind = "snapshot" => i = 1
    /\ \A i \in 2..Len(q) : q[i].seq = q[i - 1].seq + 1
    /\ (q # <<>> /\ q[1].kind = "batch") => q[1].seq = seq[f] + 1
    /\ seq[Upstream[f]] = IF q = <<>> THEN seq[f] ELSE q[Len(q)].seq

(* A follower with nothing left to apply has its upstream's table, at      *)
(* every level of a chain, whatever happened further up.                   *)
DrainedIsEqual ==
  \A f \in Replicas :
    (Intact(f) /\ stream[f] = <<>>) => table[f] = table[Upstream[f]]

(* A replica of the leader never goes back to an older table, whatever     *)
(* connections are lost and whoever restarts.                              *)
ReplicaNeverGoesBack ==
  [][\A f \in Direct : at'[f] >= at[f]]_vars

(* When writes and faults cease and the leader's table fits a frame, every *)
(* replica of the leader ends up with that table and stays there; so does  *)
(* a replica down a chain in which no upstream has taken a snapshot since  *)
(* its follower subscribed.                                                *)
Converges ==
  <>[]FitsFrame(Snapshot(Leader)) =>
    <>[](\A f \in Replicas : f \in Direct \/ Unbroken(f) => table[f] = table[Leader])

(* Together: nothing is missing between a node and what it feeds.          *)
StreamsAreGapless == TypeOK /\ NoGap /\ DrainedIsEqual
=============================================================================
