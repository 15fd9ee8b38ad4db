SPECIFICATION Spec
CONSTANTS
  NumAccounts = 2
  CAP = 1
  MANUAL_MINT_LIMIT = 1
  InitialMint = 1
  startReleaseBlock = 1
  endReleaseBlock = 2
  Amounts = {1}
  Delegatees = {1}
  MaxBlock = 5
  MaxEverLocked = 0
  MaxVotes = 2
INVARIANTS
  PriorVotesCorrect
