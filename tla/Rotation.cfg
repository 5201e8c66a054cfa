SPECIFICATION Spec
CONSTANTS
  Passphrases = {p1, p2}
  TableNames = {t1, t2}
  None = None
  MaxSalts = 3
  MaxAudit = 4
INVARIANTS DirectoryIsSound RotationIsFinal
PROPERTY ImplementsSerialHistory
