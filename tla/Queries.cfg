SPECIFICATION Spec
CONSTANTS
  Cols <- MCCols
  Lits <- MCLits
  Null = Null
  Coerce <- Stored
  Kind <- MCKind
  Rank <- Id
  Class <- Id
  ColType <- MCColType
  Distance <- MCDistance
  Infinity = 100
  IntMax = 3
  NoQuery = NoQuery
  Rows <- MCRows
  Asked <- MCAsked
  MaxRows = 3
INVARIANTS RowsAreExact GroupsAreExact
