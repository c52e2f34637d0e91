CONSTANTS
  Radix = 2
  kMaxSize = 3
  Word = 256
  Exact = 64
  UndefinedSizes = {0, 3}
  BytesMax = 5
  Records <- MCShort
  BufMax = 2
  Sizes = {1, 2}
  Calls = {"Write", "OpenRead", "NextRecordSize", "ReadNext", "Read", "StreamingRead"}
  Faults = {"read"}
  Stray = {0}
SPECIFICATION Spec
CHECK_DEADLOCK FALSE
INVARIANT ReadExact
PROPERTY ReadInOrder
