SPECIFICATION LoaderSpec
CONSTANTS
  MemPages = 24
  Entries = 4
  NSlots = 11
  KernelPages = 1
  LateDirectories = FALSE
  FileSizes = {0, 1, 2, 3, 4, 5}
  MAX_FILE_PAGES = 4
  BSS_PAGES = 2
  EXTRA_PHYS = 80
  USER_VIRT = 8
  CodeSlot = 7
  LoadSlot = 9
  DriverPages = {0, 1, 2, 3, 4, 5, 6, 7, 8, 9, 10, 11, 12, 13, 14, 15, 16, 17}
INVARIANTS
  ProgramFaithful
  PagesReturned
  PagingSound
