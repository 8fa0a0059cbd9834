CONSTANTS
  k1 = k1  k2 = k2    usdc = usdc  onyc = onyc  third = third
  None = None
  Default = Default
  Key = {k1,k2}
  Mint = {usdc, onyc, third}
  FeeInputs = {0,1,2}
  MAX_FEE_BPS = 1
  FEE_TIMELOCK_SLOTS = 2
  MaxSlot = 3
SPECIFICATION Spec
INVARIANTS TypeOK CustodySeparate ProposalIsCurrent NoticeKept LatestFeeWins
CHECK_DEADLOCK FALSE
SYMMETRY Interchangeable
