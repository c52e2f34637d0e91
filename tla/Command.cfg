CONSTANTS
  p1 = p1
  p2 = p2
  p3 = p3
  Procs <- MCProcs
  HeaderSize = 2
  Word = 16
  CreateSizes = {}
  OpenModes = {}
  MaxRecords = 3
  Junk = {3}
  SmallBuffers = FALSE
  Careful = TRUE
  Inputs = {1, 2}
  SizeOptions <- MCOptions
  Faults = {"io", "map", "crash"}
SPECIFICATION CSpec
SYMMETRY MCSymmetry
CHECK_DEADLOCK FALSE
INVARIANTS LinesAreKept AllIsPrinted FailureHasAReason
