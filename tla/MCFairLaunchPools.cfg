SPECIFICATION Spec
CONSTANTS
  p1 = p1
  p2 = p2
  u1 = u1
  u2 = u2
  NoAddress = NoAddress
  Pools = {p1, p2}
  Accounts = {u1}
  PRECISION = 10
  BPS = 4
  CAP = 1000
  startBlock = 0
  InitialBonusEnd = 0
  InitialLockUpBps = 0
  PerBlocks = {3, 10}
  AllocPoints = {0, 1, 2}
  Amounts = {1}
  BadgeAmounts = {}
  Wallets = {0}
  Bonuses = {}
  MaxBlock = 2
  MaxStake = 1
  MaxOps = 2
  MaxBonuses = 0
SYMMETRY Symmetry
PROPERTIES
  RewardsOnlyByBlocks
