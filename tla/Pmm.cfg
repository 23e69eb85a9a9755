SPECIFICATION Spec
CONSTANTS
  PAGE_SIZE = 4
  WordBits = 4
  ByteBits = 2
  AddrMod = 64
  LowMem = 4
  KernelEnd = 9
  MbdRegions <- BootRegions
  MemoryMaps <- SmallMaps
INVARIANTS TypeOK HintSound PagesConserved
PROPERTIES RefinesPageAllocator
CHECK_DEADLOCK FALSE
