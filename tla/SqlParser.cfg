\* A condition of up to seven chunks, and four tokens behind the start of every statement.
CONSTANTS
  Starts <- MCStarts
  Chunks <- MCChunks
SPECIFICATION Spec
\* The input ends.
INVARIANTS ConditionsAreExact BatchIsWhole NothingWrittenIsLost
CHECK_DEADLOCK FALSE
