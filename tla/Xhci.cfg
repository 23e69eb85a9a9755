SPECIFICATION Spec
CONSTANTS
  RING_TRBS = 3
  Keys = {k1}
  MaxPortEvents = 1
  FastDevice = FALSE
  LateEvents = FALSE
INVARIANTS RingsInSync OwnCompletion ReportsInStep ReadyMeansArmed
PROPERTIES RunTerminates ReportProcessed
CHECK_DEADLOCK FALSE
