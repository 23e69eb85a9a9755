SPECIFICATION Spec
CONSTANTS
  Pit = 7
  Delay = 3
  Hz = 100
  MinTicks = 2
PROPERTIES TimerTicks
CHECK_DEADLOCK FALSE
