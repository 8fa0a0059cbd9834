CONSTANTS
  dep = dep  wdr = wdr  alien = alien
  x1 = x1  x2 = x2  p1 = p1  alice = alice  bob = bob
  NoFlow = NoFlow  None = None
  Wallet = {alice, bob}
  Pair = {p1}
  Message = {dep, wdr, alien}
  Transfer <- Sent
  Source <- Sources
  BridgeTx <- BridgeTxs
  Offer <- Vectors
  VenuePrice <- OnrePrice
  SignedAt = 0
  slippageBps = 1000
  BaseUnit = 1
  AssetUnit = 1
  PriceDenominator = 10
  YearlyScale = 10
  MAX_FEE_BPS = 1000
  FeeChoices <- NoFees
  RouterOutputs = {60, 110, 120}
  MaxGift <- NoGifts
  REFUND_TIMEOUT_SLOTS = 1
  LastReceiveSlot = 1
  TrimUnit <- NttUnits
  BACKSTOP_INTERVAL_MS = 1
  POISON_THRESHOLD = 5
  maxConcurrentAdvances = 1
  Scenarios <- OneAtATime
  FaultKinds = {"read", "limit", "timeout", "crash"}
  MaxFaults = 1
SPECIFICATION CrankFairSpec
INVARIANTS CrankTypeOK NeverAbandonsPending DepositsNeverQuarantined FloorReachable RecipientsMatch
PROPERTY SettledInTheEnd
CHECK_DEADLOCK FALSE
