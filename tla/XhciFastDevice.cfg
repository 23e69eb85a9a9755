SPECIFICATION SafetySpec
CONSTANTS
  RING_TRBS = 3
  Keys = {k1}
  MaxPortEvents = 1
  FastDevice = TRUE
  LateEvents = FALSE
INVARIANT ReadyMeansArmed
CHECK_DEADLOCK FALSE
