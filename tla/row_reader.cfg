SPECIFICATION CheckedSpec
CONSTANTS
  Inputs <- AllInputs
  StructuralLimits <- AllLayouts
  ReaderLimits <- AllLimits
  OperationLimits <- AllLimits
  Unlimited = Unlimited
  ReadSizes = {2}
  U64Max = 5
  MaxCalls = 3
INVARIANTS
  LentRowsAreThePrefix
  LentRowsAreWithinBudgets
  LimitErrorsAreExact
  RowsAreCountedOnce
  RowNumbersRunOut
PROPERTIES
  ImplementsRowStream
  TerminalReaderIsInert
  EveryCallReturns
CHECK_DEADLOCK FALSE
