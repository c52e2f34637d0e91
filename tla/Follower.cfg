CONSTANTS
  Radix = 2
  kMaxSize = 3
  Word = 256
  Exact = 64
  UndefinedSizes = {0, 3}
  BytesMax = 5
  Records <- MCShort
  BufMax = 2
  Sizes = {2}
  Calls = {"Write", "OpenRead", "NextRecordSize", "ReadNext"}
  Faults = {}
  Stray = {0}
SPECIFICATION LoopSpec
CHECK_DEADLOCK FALSE
INVARIANT KeepsItsPlace
PROPERTY LoopEnds
