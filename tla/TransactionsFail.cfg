\* COMMIT may fail in the backend.
SPECIFICATION SpecFail
CONSTANTS
  k1 = k1
  v1 = v1
  v2 = v2
  Keys = {k1, k2}
  Values = {v1, v2}
  Absent = Absent
  NoTxn = NoTxn
  Statements <- MCStatements
  MaxAudit = 2
  MaxForged = 3
  MaxSiblings = 2
INVARIANT StoredChainVerifies
