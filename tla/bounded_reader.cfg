SPECIFICATION Spec
CONSTANTS
  Sizes = {0, 1, 2, 3, 4, 5, 6}
  Limits = {0, 1, 2, 3, 4, 5, Unlimited}
  Unlimited = Unlimited
  U64Max = 5
  Buffers = {0, 1, 2, 3}
INVARIANTS
  NothingBeyondTheLimit
  EndIsNotTheLimit
CHECK_DEADLOCK FALSE
