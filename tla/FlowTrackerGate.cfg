SPECIFICATION FairSpec
CONSTANTS
  None = None
  Flow = {f1, f2}
  Worker = {w1, w2}
  POISON_THRESHOLD = 3
  COOLDOWN_BASE = 1
  COOLDOWN_MAX = 2
  IN_FLIGHT_TIMEOUT = 2
  maxEntries = 2
  MaxListing = 3
  MaxClears = 1
  MaxRestarts = 1
INVARIANTS
  TypeOK
  NoDoubleDispatch
  QuarantineExact
PROPERTIES
  KeepsDispatching
