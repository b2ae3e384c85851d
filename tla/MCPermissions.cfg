SPECIFICATION PermSpec
CONSTANTS
  Callers = {t1, t2}
  Users = {0, 1, 2}
  Groups = {0, 1}
  STORED = 4
  Files <- MCFiles
  Dirs <- MCDirs
  Modes <- MCModes
  MetaFails = {"change"}
INVARIANTS
  OwnerTrue
PROPERTIES
  DropIsFinal
  PrivateKept
CHECK_DEADLOCK FALSE
