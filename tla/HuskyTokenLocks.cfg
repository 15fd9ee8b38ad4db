SPECIFICATION FairSpec
CONSTANTS
  NumAccounts = 2
  CAP = 4
  MANUAL_MINT_LIMIT = 2
  InitialMint = 1
  startReleaseBlock = 2
  endReleaseBlock = 6
  Amounts = {1, 3}
  Delegatees = {}
  MaxBlock = 6
  MaxEverLocked = 4
  MaxVotes = 0
INVARIANTS
  LocksBacked
  UnlockNeverReverts
  NeverAheadOfLinear
PROPERTIES
  LocksReleased
