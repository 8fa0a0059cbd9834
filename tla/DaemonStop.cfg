SPECIFICATION Spec
CONSTANTS
  None = None
  BridgeLeg = {bridge}
  Budget <- ConfirmBudget
  intervalMs = 3
  maxBackoffMs = 30
  heartbeatStaleMs = 12
  watchdogIntervalMs = 2
  shutdownDeadlineMs = 1
  stopGraceMs = 3
  JitterDiv = 10
  MayHang = FALSE
  MaxErrors = 4
  MaxSignals = 1
INVARIANTS
  GoneWithinGrace
CHECK_DEADLOCK FALSE
