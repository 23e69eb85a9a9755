SPECIFICATION UserSpec
CONSTANTS
  Modes <- Displays
  CHAR = 2
  Printable <- Glyphs
  Others <- Tabs
  LINE_MAX = 6
  Keys <- Pressed
  Outputs <- Texts
  Places = 3
  Codes <- FourKeys
  Printing <- LetterKeys
  MaxGot = 2
  MAX_HANDLERS = 3
  Registered <- Chain
  VENDOR_MAX = 3
  HOST_MAX = 8
  BRAND_MAX = 4
  CPU_MAX = 5
  KERNEL_MAX = 3
  Characters <- Letters
  Version <- V035
  Machines <- SmallMachines
  Requests <- SmallRequests
INVARIANTS EchoShowsLine CallsAnswered PrintsMeaning PushedOnce
PROPERTIES RefinesTextScreen
CHECK_DEADLOCK FALSE
