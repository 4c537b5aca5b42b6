INIT Init
NEXT Next
CONSTANTS
  MAXINDEXRK = 2
  MAXSTACK = 50
  LFIELDS_PER_FLUSH = 2
  MAXVARS = 20
  MAXUPVALUES = 10
  MAXCCALLS = 12
  StackSize = 60
  MAXTAGLOOP = 3
  BUFFERSIZE = 7
  MaxRoom = 300
  Collation <- MCCollation
  Compile <- luaY_parser
  Undump <- luaU_undump
  Means <- MCMeans
  Programs <- MCPrograms
  Illegal <- MCIllegal
  Dumped <- MCDumped
INVARIANTS
  ComputesMeaning
  CodeChecks
  CutNeverLoads
  UpvaluesLive
CHECK_DEADLOCK FALSE
