SPECIFICATION Spec
CONSTANTS
  Passphrases = {p, q}
  Right = p
  None = None
  MaxHist = 3
  MaxFaults = 2
INVARIANTS TypeOK RowsNeedTheirKey
PROPERTIES RestoreIsBackup NeverOverwrites
