SPECIFICATION Spec
CONSTANTS
  Align = 2
  header_size = 6
  MinSplit = 4
  KernelEnd = 12
  BitmapBytes = 5
  NoMapBytes = 25
  MbdInfos <- SmallMaps
  Requests = {0, 1, 4, 9, 12}
  NULL = NULL
INVARIANTS TypeOK BlocksTile LiveProtected NothingLeaked FreeMerged GrowsOnlyIfFull
PROPERTIES CallReturns
