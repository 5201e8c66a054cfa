SPECIFICATION Spec
CONSTANTS
  k1 = k1
  v1 = v1
  v2 = v2
  Keys = {k1, k2}
  Values = {v1, v2}
  Absent = Absent
  NoTxn = NoTxn
  Statements <- MCStatements
  MaxAudit = 5
  MaxForged = 3
  MaxSiblings = 2
INVARIANTS HistoryAgrees SignedIsHistory ReceiptsAreSound
PROPERTY ImplementsSerialHistory
