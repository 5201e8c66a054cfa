SPECIFICATION Spec
CONSTANTS
  Keys = {k1, k2}
  Values = {v1}
  Absent = Absent
  r1 = r1
  r2 = r2
  r3 = r3
  Replicas = {r1, r2, r3}
  Leader = l
  Upstream <- MCChain
  Batches <- MCBatches
  Leftovers <- MCLeftovers
  MaxCommits = 2
  MaxFrame = 1
  MaxFaults = 2
INVARIANTS ReplicaShowsLeaderPast StreamsAreGapless
PROPERTIES ReplicaNeverGoesBack Converges
CHECK_DEADLOCK FALSE
