CONSTANTS
  None = None
  LastSeq = 3
  PageSize = 1
  MaxPages = 4
  BackstopPages = 4
  BACKFILL_COUNT = 1
  BackstopOn = TRUE
  Disorder = 1
  MaxScans = 2
  FaultKinds = {"fetch", "blip", "timeout", "dispatch", "restart"}
  MaxFaults = 2
SPECIFICATION FairSpec
INVARIANTS TypeOK NextScanRetries
PROPERTY EveryVaaDispatched
