SPECIFICATION Spec
CONSTANTS
  lo = lo
  hi = hi
  real = real
  text = text
  Cols <- MCCols
  Lits <- MCLits
  Null = Null
  Coerce <- MCCoerce
  Kind <- MCKind
  Rank <- MCRank
  Class <- MCClass
  NoTable = NoTable
  NoBlob = NoBlob
  KeyChoices = {0, 1}
  Inserts <- MCInserts
  Clauses <- MCClauses
  Questions <- MCQuestions
  Assignments <- MCAssignments
  MaxInserts = 3
INVARIANTS StoreIsExact PathsAgree RejectsOnlyConflicts
PROPERTY ImplementsRelationalTable
