SPECIFICATION Spec
CONSTANTS
  d1 = d1
  d2 = d2
  d3 = d3
  Devices = {d1, d2, d3}
  NoDevice = none
  Disk <- MCDisk
  MAX_MOUNTS = 3
  MAX_DEVS = 2
  POINT_MAX = 4
  Points <- MCPoints
VIEW View
INVARIANTS
  ProbeAgrees
  RoutesRight
PROPERTY ImplementsMountTable
CHECK_DEADLOCK FALSE
