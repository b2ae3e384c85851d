SPECIFICATION Spec
CONSTANTS
  TotalPages = 8
  LowPages = 1
  KernelEnd = 2
  BitmapStart = 2
  BitmapEnd = 3
  MaxRun = 3
  MemoryMaps <- MCMemoryMaps
  Words <- MCWords
INVARIANTS
  FreeListMatchesBitmap
  NoPageInTwoHands
  ContiguousFirstFit
PROPERTY
  NoPageLost
  ImplementsAllocator
