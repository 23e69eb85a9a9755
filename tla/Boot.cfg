SPECIFICATION BootSpec
CONSTANTS
  Cap = 4
  EntryBytes = 24
  Loaders <- SmallLoaders
  EpLength = 31
  LowEnd = 4
  Firmwares <- SmallFirmwares
  Platforms <- SmallPlatforms
  Wide = 16
  KbcTries = 3
  Pit = 7
  Delay = 3
  Hz = 100
  MinTicks = 2
  Addrs <- SmallAddrs
  FileAt = 8
  Files <- SmallFiles
  Buses = 2
  Slots = 2
  Funcs = 3
  Word = 256
  PageSize = 64
  Systems <- SmallSystems
  Request = 40
  Stale <- Leftover
  Devices <- SmallDevices
INVARIANTS LoaderRead FirmwareRead CalibrationBounds KeyboardFound ProgramLoaded
PROPERTIES CallsEnd
CHECK_DEADLOCK FALSE
