CONSTANTS
  Base = 26
  Sizeof <- MCSizeof
  LuaIntegerBits = 64
  Collates <- LexLess
  Heap <- HoleHeap
  Callers <- RootCallers
  MaxDepth = 8
SPECIFICATION Spec
INVARIANT ArrayIsArray
