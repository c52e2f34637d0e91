CONSTANTS
  Radix = 2
  kMaxSize = 3
  Word = 256
  Exact = 64
  UndefinedSizes = {0, 3}
  BytesMax = 5
  Records <- MCOne
  BufMax = 1
  Sizes = {1}
  Calls = {"Write", "OpenRead", "NextRecordSize", "ReadNext"}
  Faults = {}
  Stray = {0}
SPECIFICATION FSpec
CHECK_DEADLOCK FALSE
INVARIANT NextIsARecord
