SPECIFICATION Spec
CONSTANTS
  NumAccounts = 2
  CAP = 4
  MANUAL_MINT_LIMIT = 1
  InitialMint = 1
  startReleaseBlock = 2
  endReleaseBlock = 5
  Amounts = {1, 3}
  Delegatees = {}
  MaxBlock = 5
  MaxEverLocked = 4
  MaxVotes = 0
INVARIANTS
  ReleaseStartsAtStart
