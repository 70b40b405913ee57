SPECIFICATION Spec
CONSTANTS
  Alphabet = {9, 10, 97}
  MaxInput = 5
  Inputs <- AllInputs
  ColumnCounts = {0, 1, 2, Unknown}
  Unknown = Unknown
  Searches <- SmallSearches
  U64Max = 3
  MaxCalls = 3
INVARIANTS
  LaterCallsReturnNone
CHECK_DEADLOCK FALSE
