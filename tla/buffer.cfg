CONSTANTS
  Byte = {1, 2}
  Tab = 1
  Junk = 99
  Block = {1, 2}
  Input <- MCInput
  MaxBytes = 11
  MayFail = TRUE
SPECIFICATION Spec
INVARIANTS OneLiveBlock NoWildStore
PROPERTY ImplementsLog
CHECK_DEADLOCK FALSE
