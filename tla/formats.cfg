CONSTANTS
  RowBytes = {1, 9, 10, 46, 55, 78, 92, 120, 200}
  StatementSymbols = {"a", "quote", ",", "(", ")", ".", "space", "FROM"}
  ArchiveBytes = {0, 1, 2, 3, 5, 9, 11}
  MaxLen = 5
  Base = 12
  MaxInt = 59
  WordBytes = 2
  MaxWord = 143
  IntegerSizes = {1, 2, 3}
  OffsetSizes = {1, 2, 3, 4}
  MaxColumns = 2
SPECIFICATION Spec
INVARIANTS
  AcceptedRowsDecode
  WrittenRowsReadBack
  IntegersReadBack
  DependenciesAreDecimal
  ParsedColumnsAreTheStatements
  WrittenStatementsParse
CHECK_DEADLOCK FALSE
