CONSTANTS
  Radix = 2
  kMaxSize = 3
  Word = 256
  Exact = 64
  UndefinedSizes = {0, 3}
  BytesMax = 6
  Records <- MCShortLong
  BufMax = 3
  Sizes = {1, 3}
  Calls = {"Write"}
  Faults = {}
  Stray = {0}
SPECIFICATION Spec
CHECK_DEADLOCK FALSE
INVARIANT AcknowledgedIsKept
