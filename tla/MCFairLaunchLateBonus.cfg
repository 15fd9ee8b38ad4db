SPECIFICATION Spec
CONSTANTS
  p1 = p1
  p2 = p2
  u1 = u1
  u2 = u2
  NoAddress = NoAddress
  Pools = {p1}
  Accounts = {u1, u2}
  PRECISION = 10
  BPS = 4
  CAP = 1000
  startBlock = 0
  InitialBonusEnd = 0
  InitialLockUpBps = 0
  PerBlocks = {10}
  AllocPoints = {1}
  Amounts = {1, 2}
  BadgeAmounts = {}
  Wallets = {0}
  Bonuses <- OneBonus
  MaxBlock = 4
  MaxStake = 3
  MaxOps = 3
  MaxBonuses = 1
SYMMETRY Symmetry
INVARIANTS
  LockWithinReward
