SPECIFICATION MCSpec
CONSTANTS
  Fan = 4
  IdentGb = 3
  UserGb = 1
  MmioGb = 2
  WinPages = 4
  FreeSets <- SmallFree
  Bars <- SmallBars
  Calls <- SomeCalls
  Pages <- SomePages
  Watched <- TouchedPages
INVARIANTS TablesSound MappingInEffect
PROPERTIES RefinesAddressSpace
