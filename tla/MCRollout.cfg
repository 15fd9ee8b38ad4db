SPECIFICATION MCSpec
CONSTANTS
  a1 = a1
  a2 = a2
  Accounts = {a1, a2}
  Operator = a1
  NoAddress = NoAddress
  Self = Self
  MINIMUM_DELAY = 1
  MAXIMUM_DELAY = 2
  GRACE_PERIOD = 1
  Delays = {0, 1, 2}
  Targets <- MCTargets
  Transactions <- MCTransactions
  MaxTime = 4
  EXACT_ETA = 3
  Scripts <- MCScripts
  MaxBatch = 2
  MaxRuns = 2
  MaxByHand = 1
  Plans <- MCPlans
INVARIANTS
  MinimumDelayRespected
  NoReplay
  PoolsLinked
  RecordTrue
  VaultsAsNamed
  LiveRecorded
  LeftoversBounded
PROPERTIES
  GovernanceIsAnnounced
  BatchClosed
  RolloutOrder
