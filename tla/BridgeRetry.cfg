SPECIFICATION FairSpec
CONSTANTS
  LastSeq = 3
  PageSize = 1
  BACKFILL_COUNT = 1
  MaxPages = 3
  maxConcurrentRedeems = 1
  Recipient <- TwoChains
  Disorder = 0
  None = None
  FaultKinds = {"timeout"}
  MaxFaults = 1
INVARIANT
  ErrorsRetried
CHECK_DEADLOCK FALSE
