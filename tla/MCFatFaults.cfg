SPECIFICATION Spec
CONSTANTS
  NClusters = 3
  RootSlots = 3
  PerCluster = 4
  SCAN = 8
  Struck = 3
  Readings = {3, 4}
  Files = {"a", "b"}
  SubFiles = {"a"}
  Dirs = {"d"}
  WrittenTo = {"a", "b"}
  MaxSize = 2
  Modes = {0}
  Overwrite = FALSE
  Deletes = TRUE
  Faults = {"cut", "data", "entry", "zero"}
  MaxFaults = 1
VIEW View
INVARIANTS
  FilesIntact
CHECK_DEADLOCK FALSE
