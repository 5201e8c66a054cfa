SPECIFICATION Spec
CONSTANTS
  Keys = {k1, k2}
  Values = {v1, v2}
  Absent = Absent
  Batches <- MCBatches
  MaxLog = 2
  MaxBehind = 1
INVARIANTS TypeOK AckedIsDurable LiveMatchesLog
PROPERTY ImplementsDurableKV
