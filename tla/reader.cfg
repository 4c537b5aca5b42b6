CONSTANTS
  Base = 256
  Sizeof <- MCSizeof
  LuaIntegerBits = 64
  Files <- MCFiles
  Lengths = {1, 2, 3, 20}
  MaxOver = 9
SPECIFICATION Spec
INVARIANT DeliversPrefix
PROPERTY ShortIsFinal
