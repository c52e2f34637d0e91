CONSTANTS
  Radix = 2
  kMaxSize = 3
  Word = 256
  Exact = 64
  UndefinedSizes = {0, 3}
  BytesMax = 7
  Records <- MCAllSizes
  BufMax = 3
  Sizes = {1, 3}
  Calls = {"Write", "StreamingWrite"}
  Faults = {"io", "crash"}
  Stray = {0}
SPECIFICATION FairSpec
CHECK_DEADLOCK FALSE
INVARIANTS TypeOK Contiguous LiveIntact NoAbort WrittenBeforePublished
PROPERTIES ImplementsRingLog WriteReturnsAtLast
