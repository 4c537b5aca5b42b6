CONSTANTS
  Base = 26
  Sizeof <- MCSizeof
  LuaIntegerBits = 64
  Collates <- LexLess
  Heap <- MCHeap
  Callers <- MCCallers
  MaxDepth = 8
  Caller <- MCCaller
  Files <- MCFiles
  MemLimit = 1000
  MaxOver = 20
  MaxCut = 60
SPECIFICATION Spec
INVARIANTS RoundTrips CutShowsInCursor StackRestored FramesOnStack Interned ResultsOnStack BuildsTree
PROPERTY Terminates
