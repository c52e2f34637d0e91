CONSTANTS
  p1 = p1
  p2 = p2
  Procs <- MCProcs
  HeaderSize = 2
  Word = 16
  CreateSizes <- MCSizes
  OpenModes = {"read", "append", "other"}
  MaxRecords = 2
  Junk = {3}
  SmallBuffers = FALSE
  Careful = TRUE
  Faults = {"io", "map", "crash"}
SPECIFICATION YSpec
SYMMETRY MCSymmetry
CHECK_DEADLOCK FALSE
INVARIANTS IterationIsWhole 
