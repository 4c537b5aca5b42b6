CONSTANTS
  Obj <- MCObj
  States <- MCStates
  Strings = {"a", "b"}
  Hash <- MCHash
  GCSWEEPMAX = 2
  MINSTRTABSIZE = 1
  ShareUpvalues = TRUE
  MaxTop = 4
SPECIFICATION Spec
INVARIANT NoDangling
