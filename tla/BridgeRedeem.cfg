SPECIFICATION FairSpec
CONSTANTS
  LastSeq = 3
  PageSize = 1
  BACKFILL_COUNT = 2
  MaxPages = 3
  maxConcurrentRedeems = 2
  Recipient <- Mixed
  Disorder = 1
  None = None
  FaultKinds = {"probe", "fetch", "read", "skew", "timeout", "abort", "crash"}
  MaxFaults = 1
INVARIANTS
  TypeOK
  NoDoomedTx
PROPERTY
  RedeemedInTheEnd
CHECK_DEADLOCK FALSE
