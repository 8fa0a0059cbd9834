SPECIFICATION FairSpec
CONSTANTS
  LastSeq = 2
  PageSize = 1
  BACKFILL_COUNT = 1
  MaxPages = 2
  maxConcurrentRedeems = 1
  Recipient <- ProgramOwned
  Disorder = 0
  None = None
  FaultKinds = {}
  MaxFaults = 0
PROPERTY
  BrokenEndAsNoop
CHECK_DEADLOCK FALSE
