CONSTANTS
  Lines <- SmallLines
  MaxPieces = 3
  Capacity = 2
  DefaultRows = 3
  DefaultBytes = 4
  ExtractBytes = 5
  None = None
SPECIFICATION Spec
INVARIANTS
  ExitTellsTheTruth
  AcceptedLinesAreTheUsage
CHECK_DEADLOCK FALSE
