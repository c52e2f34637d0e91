CONSTANTS
  p1 = p1
  p2 = p2
  Procs <- MCProcs
  HeaderSize = 2
  Word = 16
  CreateSizes <- MCSizes
  OpenModes = {"read", "append", "other"}
  MaxRecords = 2
  Junk = {3}
  SmallBuffers = TRUE
  Careful = TRUE
  Faults = {"io", "map", "crash"}
SPECIFICATION PSpec
SYMMETRY MCSymmetry
CHECK_DEADLOCK FALSE
INVARIANTS PublishedIsKept HandleIsWhole NothingLeaks NullLeavesNothing NullSaysWhy
