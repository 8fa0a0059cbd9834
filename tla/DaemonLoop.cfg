SPECIFICATION FairSpec
CONSTANTS
  None = None
  BridgeLeg = {bridge}
  Budget <- ShortBudget
  intervalMs = 2
  maxBackoffMs = 4
  heartbeatStaleMs = 7
  watchdogIntervalMs = 1
  shutdownDeadlineMs = 2
  stopGraceMs = 4
  JitterDiv = 2
  MayHang = TRUE
  MaxErrors = 2
  MaxSignals = 2
INVARIANTS
  TypeOK
  NoLostWake
  ShutdownBounded
  WatchdogSparesHealthyLoop
PROPERTIES
  ScanEnds
CHECK_DEADLOCK FALSE
