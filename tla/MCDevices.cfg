SPECIFICATION Spec
CONSTANTS
  Sectors = 2
  LBAS = 4
  Requested = {0, 1, 2}
  Values = {0, 1}
  Slaves = {"disk", "none", "other"}
  POLLS = 2
  MaxCalls = 3
  MaxErrors = 1
  HOURS = 2
  MINUTES = 2
  SECONDS = 2
  WORD = 1048576
  LastYear = 99
  BootDates <- NearEnds
  TimesOfDay <- LastSecond
  MaxTicks = 2
  host = host
  hub = hub
  inner = inner
  stick = stick
  keyboard = keyboard
  mouse = mouse
  Devs <- Attached
  Host = host
  Place <- Where
  Desc <- What
  ROOT_PORTS = 2
  FALLBACK = 4
  ADDRESSES = 256
  Lapses = {"lost", "late", "early", "memory"}
  StuckAtZero = FALSE
  MaxLapses = 1
  Keys = {"a", "b", "c"}
  SLOTS = 3
  RING = 3
  MaxChanges = 6
  MaxDropped = 1
INVARIANT DiskTruthful
INVARIANT DaysExact
INVARIANT ErrorBelowCarry
INVARIANT BusSound
INVARIANT KeysOnce
CHECK_DEADLOCK FALSE
