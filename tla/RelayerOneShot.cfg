CONSTANTS
  m1 = m1  m2 = m2  m3 = m3  m4 = m4  p1 = p1  p2 = p2  alice = alice  bob = bob
  NoFlow = NoFlow
  TrimUnit <- AssetDust
  Wallet = {alice, bob}
  MAX_FEE_BPS = 1000
  REFUND_TIMEOUT_SLOTS = 1
  LastReceiveSlot = 1
  Message = {m1, m2}
  Pair = {p1}
  Transfer <- OneInbox
  FeeChoices <- NoFees
  RouterOutputs = {10}
  MaxGift <- NoGifts
SPECIFICATION Spec
INVARIANT OneShot
CHECK_DEADLOCK FALSE
