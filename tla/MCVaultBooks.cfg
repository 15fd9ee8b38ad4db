SPECIFICATION Spec

CHECK_DEADLOCK FALSE
CONSTANTS
  u1 = u1
  u2 = u2
  w1 = w1
  d1 = d1
  d2 = d2
  p1 = p1
  p2 = p2
  Users = {u1}
  Workers = {w1}
  NoAddress = NoAddress
  Configs <- MCConfigs
  DebtTokens = {d1}
  Pools = {p1}
  NoPool = NoPool
  StakeToken <- OneStakeToken
  FullUtilization = 4
  Year = 1
  BPS = 4
  WAD = 8
  TinyShares = 1
  BaseSupply = 6
  Principals = {1}
  Loans = {0, 3}
  Backs = {0, 4}
  MaxReturns = {2, 8}
  Deposits = {4}
  Values = {1}
  Outcomes = {TRUE}
  MaxStake = 20
  MaxDebt = 8
  MaxSupply = 8
  Shares = {1}
  HealthLevels = {3, 8}
  MaxTime = 1
  MaxPositions = 2
INVARIANTS
  DebtSharesConserved
  DebtShareAtLeastPar
  LendersWhole
PROPERTIES
  OthersDebtNeverFalls
  LenderPriceNeverFalls
  NotKillableAfterWork
