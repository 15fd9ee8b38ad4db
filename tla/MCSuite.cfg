SPECIFICATION SuiteSpec
CHECK_DEADLOCK FALSE
CONSTANTS
  BPS = 4
  Accounts = {u1, u2}
  Pools = {p1, p2}
  NoAddress = NoAddress
  lockupBps = 3
  startReleaseBlock = 1
  endReleaseBlock = 4
  huskyPerBlock = 7
  DummySupply = 10
  ACC_HUSKY_PRECISION = 10
  AllocPoints = {0, 1}
  Amounts = {1}
  StartBlocks = {1}
  MaxBlock = 3
  MaxStake = 2
  MaxSent = 1
  MaxOps = 3
  FullBps = 4
  fee = 9
  feeDenom = 10
  Ids = {id1, id2}
  InitialPair <- SmallPair
  InitialBounty = 1
  InitialVaultBounty = 2
  InitialMaxBounty = 2
  BaseAmounts = {0, 9}
  Debts = {4}
  FarmAmounts = {5}
  Rewards = {7}
  Trades = {8}
  Donations = {1}
  Bounties = {2}
  MaxCalls = 4
  MaxMoves = 2
  Claimants = {1, 2, 3, 4, 5}
  Inputs <- Tables
  WordSize = 2
  Withdrawals = {1}
  MaxTokens = 8
SYMMETRY Symmetry
INVARIANTS
  RewardDebtWithinOne
  RewardsBacked
  ReleaseNotAhead
  RewardsSetApart
  ClaimsExact
  ClaimsCovered
PROPERTIES
  OthersPendingNeverFalls
  PositionNeverFalls
