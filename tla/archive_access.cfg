CONSTANTS
  Tocs <- AllTocs
  Files <- SmallFiles
  NameBytes <- Bytes
  IndexLimits = {0, 3, 5, 7, 8, 20}
  Absent = Absent
  IdBytes = 2
  MaxOffset = 5
  MaxEntries = 3
SPECIFICATION CheckedSpec
INVARIANTS
  IndexIsTheRelation
  IndexBudgetIsExact
  OpenedBlockIsTheEntrys
  SelectorsLeadBack
CHECK_DEADLOCK FALSE
