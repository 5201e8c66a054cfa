\* Tables of up to three columns and keys, one of the names unsafe, with one or
\* two INSERTs; strings of separators, quotes and escapes.
CONSTANTS
  Safe <- MCSafe
  Unsafe = {"x y"}
  Plain = {"n", ",", ";", ")", "-", "nl", "e2"}
  Letters = {"n", "0"}
  Ints = {"1", "N", "-2^63"}
  Comments <- MCComments
  MaxSize <- MCMaxSize
SPECIFICATION Spec
INVARIANTS ValuesSurvive CleanImportIsExact SchemaIsExecutable
