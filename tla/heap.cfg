CONSTANTS
  Obj <- MCObj
  States <- MCStates
  Strings = {"a", "b"}
  Hash <- MCHash
  GCSWEEPMAX = 2
  MINSTRTABSIZE = 1
  ShareUpvalues = FALSE
  MaxTop = 4
SPECIFICATION Spec
INVARIANTS TypeOK NoDangling TriColour StringsInterned FinalizedOnce FullCollects
PROPERTY NoneForgotten
