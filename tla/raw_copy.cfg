SPECIFICATION Spec
CONSTANTS
  Sizes = {0, 1, 2, 3, 4, 5, 6}
  Limits = {0, 1, 2, 3, 4, 5, Unlimited}
  Unlimited = Unlimited
  U64Max = 5
  BufferBytes = 3
  MaxInterrupts = 2
INVARIANTS
  WriterGetsWhatWasRead
  CompleteIsWhole
PROPERTIES
  CopyEnds
  ImplementsEntryCopy
CHECK_DEADLOCK FALSE
