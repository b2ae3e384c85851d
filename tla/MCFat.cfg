SPECIFICATION Spec
CONSTANTS
  NClusters = 3
  RootSlots = 3
  PerCluster = 4
  SCAN = 8
  Struck = 3
  Readings = {4}
  Files = {"a", "b"}
  SubFiles = {"a"}
  Dirs = {"d"}
  WrittenTo = {"a", "b"}
  MaxSize = 2
  Modes = {0, 1}
  Overwrite = TRUE
  Deletes = TRUE
  Faults = {}
  MaxFaults = 0
VIEW View
INVARIANTS
  FilesIntact
  NoLeak
CHECK_DEADLOCK FALSE
