SPECIFICATION FairSpec
CONSTANTS
  Idle = Idle
  Boot = Boot
  u1 = u1
  u2 = u2
  k1 = k1
  k2 = k2
  UserTasks = {u1, u2}
  KernelTasks = {k1, k2}
  LoneExits = TRUE
  MAX_TASKS = 32
  TIME_SLICE_TICKS = 3
INVARIANTS
  ListsSound
  FramesFit
  IdleOnlyWhenNothingReady
  StacksSound
  DirectoriesLive
PROPERTY
  NoStarvation
