SPECIFICATION Spec
CONSTANTS
  Conns = {c1}
  Servers = {s1, s2}
  Honest = {s1}
  NoPin = NoPin
  None = None
  MaxRequests = 3
  MaxRecords = 3
  MaxFaults = 2
INVARIANTS NonceNeverReused FramesInOrder FailureIsFinal PinnedIsAuthentic
PROPERTY RequestsReturn
CHECK_DEADLOCK FALSE
