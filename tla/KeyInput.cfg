SPECIFICATION Spec
CONSTANTS
  Chars = {a, b}
  NUL = NUL
  NoKey = NoKey
  NoByte = NoByte
  INPUT_BUFFER_SIZE = 3
  ReportKeys = 2
  ReadLens = {0, 1, 2}
INVARIANTS TypeOK NoLostWakeup RingAccessExclusive ReadReturnsData
PROPERTIES RefinesCharQueue ReaderServed
