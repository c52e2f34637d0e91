CONSTANTS
  Radix = 2
  kMaxSize = 3
  Word = 256
  Exact = 64
  UndefinedSizes = {0, 3}
  BytesMax = 6
  Records <- MCSizes
  BufMax = 1
  Sizes = {1, 3}
  Calls = {"Write", "StreamingWrite"}
  Faults = {"io", "crash"}
  Stray = {0}
  Overlap = "records"
  LiveMax = 6
SPECIFICATION WSpec
CHECK_DEADLOCK FALSE
INVARIANTS TurnsAreSafe StaysInside
PROPERTY ImplementsRingLog
