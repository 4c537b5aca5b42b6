CONSTANTS
  Main = Main
  Coroutines = {a, b}
  LUAI_MAXCCALLS = 5
  CCallsSlack = 2
  LUAI_MAXCALLS = 4
  BASIC_CI_SIZE = 4
  MaxFrames = 7
SPECIFICATION Spec
INVARIANTS StateMatchesStack Bounded StatusTruthful
SYMMETRY MCSymmetry
