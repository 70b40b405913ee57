CONSTANTS
  Inputs <- ArchivesRead
  Archives <- Wholes
  LimitSets <- LimitsUsed
  MaxInt = 20
  U64Max = 26
  MaxStrings = 26
SPECIFICATION Spec
INVARIANTS
  RetainedWithinLimits
  ParsedIsWritten
  LimitsRefuseExactly
CHECK_DEADLOCK FALSE
