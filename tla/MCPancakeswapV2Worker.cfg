SPECIFICATION Spec
CHECK_DEADLOCK FALSE
CONSTANTS
  fee = 9
  feeDenom = 10
  Ids = {p1, p2}
  BPS = 10
  InitialPair <- SmallPair
  InitialBounty = 1
  InitialMaxBounty = 2
  BaseAmounts = {0, 60}
  Debts = {6}
  FarmAmounts = {5}
  LpAmounts = {3}
  Repayments = {4}
  Minima = {0}
  Rewards = {5}
  CakeSwaps = {6}
  Reinvestors = {r1}
  Bounties = {2, 3}
  StrategySets <- EveryStrategy
  Trades = {8}
  Donations = {1}
  MaxOps = 4
  MaxTrades = 1
  MaxSettings = 1
SYMMETRY Symmetry
INVARIANTS
  StakeCoversShares
  SqrtExact
PROPERTIES
  OthersBalanceNeverFalls
  CreditedInFull
  LiquidationPaysHealth
  LittleLeftBehind
