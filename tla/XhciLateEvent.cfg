SPECIFICATION SafetySpec
CONSTANTS
  RING_TRBS = 3
  Keys = {k1}
  MaxPortEvents = 1
  FastDevice = FALSE
  LateEvents = TRUE
INVARIANT ReadyMeansArmed
CHECK_DEADLOCK FALSE
