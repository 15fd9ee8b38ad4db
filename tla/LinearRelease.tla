---------------------------- MODULE LinearRelease ----------------------------
(***************************************************************************)
(* contracts/6/token/lockers/LinearRelease.sol: holds the part of          *)
(* FairLaunchV2's rewards that is released linearly between two blocks.    *)
(***************************************************************************)
EXTENDS LedgerMath, Functions

CONSTANTS Accounts, BPS, lockupBps, startReleaseBlock, endReleaseBlock

VARIABLES
    block,             \* block.number
    locks, lastUnlockBlock,
    lockerBalance,     \* token.balanceOf(locker)
    everLocked         \* history: all that was ever locked for an account

locker == <<locks, lastUnlockBlock, lockerBalance, everLocked>>

LockerInit ==
    /\ locks = [u \in Accounts |-> 0] /\ everLocked = [u \in Accounts |-> 0]
    /\ lastUnlockBlock = [u \in Accounts |-> 0]
    /\ lockerBalance = 0

calLockAmount(amount) == (amount * lockupBps) \div BPS

\* lock, called by FairLaunchV2, which sends the tokens.
lock(user, amount) ==
    /\ lockerBalance' = lockerBalance + amount
    /\ locks' = [locks EXCEPT ![user] = @ + amount]
    /\ everLocked' = [everLocked EXCEPT ![user] = @ + amount]
    /\ lastUnlockBlock' = [lastUnlockBlock EXCEPT
          ![user] = IF @ < startReleaseBlock THEN startReleaseBlock ELSE @]

pendingTokens(user) ==
    IF block < startReleaseBlock THEN 0
    ELSE IF block >= endReleaseBlock THEN locks[user]
    ELSE (locks[user] * (block - lastUnlockBlock[user]))
            \div (endReleaseBlock - lastUnlockBlock[user])

\* Mutant: the clock is not moved.
ClockKept(user) == lastUnlockBlock

LocksAfterClaim(user) == [locks EXCEPT ![user] = @ - pendingTokens(user)]
ClockAfterClaim(user) == [lastUnlockBlock EXCEPT ![user] = block]

claim(user) ==
    /\ locks[user] > 0
    /\ pendingTokens(user) <= lockerBalance
    /\ lockerBalance' = lockerBalance - pendingTokens(user)
    /\ locks' = LocksAfterClaim(user)
    /\ lastUnlockBlock' = ClockAfterClaim(user)
    /\ UNCHANGED everLocked

\* However often an account claims and is locked for again, what it has got is
\* not ahead of a linear release from the first block.
ReleaseNotAhead ==
    block < endReleaseBlock =>
        \A u \in Accounts :
            (everLocked[u] - locks[u]) * endReleaseBlock <= everLocked[u] * block
=============================================================================
