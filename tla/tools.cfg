CONSTANTS
  Collates <- CharLess
  Heap <- MCHeap
  Precision = 6
  Copies <- MCCopies
  Paths <- MCPaths
  Disks <- MCDisks
  Programs <- MCPrograms
  MaxPrograms = 2
SPECIFICATION Spec
INVARIANTS DiskKept NothingLeft Restores DumpReadsBack StackUsable
