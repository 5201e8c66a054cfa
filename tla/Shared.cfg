SPECIFICATION Spec
CONSTANTS
  Engines = {e1, e2}
  Creators = {e1, e2}
  Writers = {e1, e2}
  Values = {a, b}
  None = None
  MaxLog = 3
  MaxLost = 1
INVARIANTS NeverRefused SharedHistoryIsSerial ReadersSeeRealRows
