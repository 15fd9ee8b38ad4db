SPECIFICATION Spec
SYMMETRY UserSymmetry

CHECK_DEADLOCK FALSE
CONSTANTS
  u1 = u1
  u2 = u2
  w1 = w1
  d1 = d1
  d2 = d2
  p1 = p1
  p2 = p2
  Users = {u1, u2}
  Workers = {w1}
  NoAddress = NoAddress
  Configs <- OneConfig
  DebtTokens = {d1, d2}
  Pools = {p1, p2}
  NoPool = NoPool
  StakeToken <- MCStakeToken
  FullUtilization = 4
  Year = 1
  BPS = 4
  WAD = 8
  TinyShares = 1
  BaseSupply = 4
  Principals = {0}
  Loans = {0, 2}
  Backs = {0, 2}
  MaxReturns = {2}
  Deposits = {4}
  Values = {0}
  Outcomes = {TRUE, FALSE}
  MaxStake = 4
  MaxDebt = 4
  MaxSupply = 4
  Shares = {0}
  HealthLevels = {1, 8}
  MaxTime = 0
  MaxPositions = 2
INVARIANT StakeCoversDebt
