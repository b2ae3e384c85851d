SPECIFICATION Spec
CONSTANTS
  MemPages = 8
  Entries = 3
  NSlots = 4
  KernelPages = 1
  LateDirectories = FALSE
  MaxCached = 1
CONSTRAINT CacheBound
VIEW Live
INVARIANTS
  TablesSound
  RingThreeConfined
  TlbCoherent
CHECK_DEADLOCK FALSE
