----------------------------- MODULE HuskyToken -----------------------------
(***************************************************************************)
(* contracts/6/token/HuskyToken.sol: the capped HUSKI token with its       *)
(* locks, released between two blocks, and its vote checkpoints.           *)
(*                                                                         *)
(* Addresses 1..NumAccounts are users and the owner (FairLaunch); Self is  *)
(* the token contract, which holds what is locked.  A transferFrom is a    *)
(* transfer its sender was allowed; allowances are left out.  The owner's  *)
(* lock and burn never name the token contract itself.                     *)
(***************************************************************************)
EXTENDS LedgerMath, Sequences, Functions

CONSTANTS
    NumAccounts,
    CAP, MANUAL_MINT_LIMIT,
    InitialMint,   \* minted by the constructor
    startReleaseBlock, endReleaseBlock,
    Amounts,       \* arguments of the operations
    Delegatees,    \* accounts that votes are delegated to
    MaxBlock,      \* bound on the chain
    MaxEverLocked, \* bound on what is locked over the whole run
    MaxVotes       \* bound on the votes of one account

ASSUME HuskyTokenAssumption ==
    /\ NumAccounts \in Nat \ {0}
    /\ CAP \in Nat /\ MANUAL_MINT_LIMIT \in Nat
    /\ MaxBlock \in Nat /\ MaxEverLocked \in Nat /\ MaxVotes \in Nat
    /\ startReleaseBlock \in Nat /\ endReleaseBlock \in Nat
    /\ endReleaseBlock > startReleaseBlock
    /\ InitialMint \in 0..MANUAL_MINT_LIMIT /\ InitialMint <= CAP
    /\ Amounts \subseteq Nat
    /\ Delegatees \subseteq 1..NumAccounts

Accounts == 1..NumAccounts
owner == 1
Self == NumAccounts + 1
Holders == 1..(NumAccounts + 1)
NoAddress == 0

VARIABLES
    block, balance,
    locks, lastUnlockBlock, totalLock, manualMinted,
    delegates, checkpoints,
    everLocked,   \* history: what was ever locked for an account
    votesAt       \* history: everyone's votes at the end of each past block

lockVars == <<locks, lastUnlockBlock, totalLock, everLocked>>
voteVars == <<delegates, checkpoints>>
vars == <<block, balance, manualMinted, lockVars, voteVars, votesAt>>

totalSupply == SumFunction(balance)

Moved(from, to, amount) ==
    LET debited == [balance EXCEPT ![from] = @ - amount]
    IN  [debited EXCEPT ![to] = @ + amount]
-----------------------------------------------------------------------------
\* Votes.  A checkpoint list is a sequence of [fromBlock, votes].
currentVotes(cps) == IF cps = <<>> THEN 0 ELSE cps[Len(cps)].votes

\* Mutant: a new block overwrites the last checkpoint.
WriteOverLast(cps, newVotes) ==
    IF cps # <<>>
    THEN [cps EXCEPT ![Len(cps)].votes = newVotes]
    ELSE Append(cps, [fromBlock |-> block, votes |-> newVotes])

writeCheckpoint(cps, newVotes) ==
    IF cps # <<>> /\ cps[Len(cps)].fromBlock = block
    THEN [cps EXCEPT ![Len(cps)].votes = newVotes]
    ELSE Append(cps, [fromBlock |-> block, votes |-> newVotes])

\* SafeMath's sub on the old representative's votes.
CanMoveDelegates(srcRep, dstRep, amount) ==
    srcRep # dstRep /\ amount > 0 =>
        /\ srcRep # NoAddress => amount <= currentVotes(checkpoints[srcRep])
        /\ dstRep # NoAddress => currentVotes(checkpoints[dstRep]) + amount <= MaxVotes

moveDelegates(srcRep, dstRep, amount) ==
    IF srcRep = dstRep \/ amount = 0 THEN checkpoints
    ELSE [a \in Holders |->
            CASE a = srcRep ->
                   writeCheckpoint(checkpoints[a], currentVotes(checkpoints[a]) - amount)
              [] a = dstRep ->
                   writeCheckpoint(checkpoints[a], currentVotes(checkpoints[a]) + amount)
              [] OTHER -> checkpoints[a]]

\* The binary search, on the zero-based indices of the code; w is <<lower, upper>>.
getPriorVotes(account, blockNumber) ==
    LET cps == checkpoints[account]
        n == Len(cps)
        at(i) == cps[i + 1]
        search[w \in (0..(n - 1)) \X (0..(n - 1))] ==
            LET center == w[2] - (w[2] - w[1]) \div 2
            IN  IF w[2] <= w[1] THEN at(w[1]).votes
                ELSE IF at(center).fromBlock = blockNumber THEN at(center).votes
                ELSE IF at(center).fromBlock < blockNumber THEN search[<<center, w[2]>>]
                ELSE search[<<w[1], center - 1>>]
    IN  IF n = 0 THEN 0
        ELSE IF at(n - 1).fromBlock <= blockNumber THEN at(n - 1).votes
        ELSE IF at(0).fromBlock > blockNumber THEN 0
        ELSE search[<<0, n - 1>>]
-----------------------------------------------------------------------------
Init ==
    /\ block = 0
    /\ balance = [a \in Holders |-> IF a = owner THEN InitialMint ELSE 0]
    /\ locks = [a \in Holders |-> 0]
    /\ lastUnlockBlock = [a \in Holders |-> 0]
    /\ totalLock = 0 /\ manualMinted = InitialMint
    /\ delegates = [a \in Holders |-> NoAddress]
    /\ checkpoints = [a \in Holders |-> <<>>]
    /\ everLocked = [a \in Holders |-> 0]
    /\ votesAt = [b \in 0..MaxBlock |-> [a \in Holders |-> 0]]

Tick ==
    /\ block < MaxBlock
    /\ block' = block + 1
    /\ votesAt' = [votesAt EXCEPT ![block] =
                      [a \in Holders |-> currentVotes(checkpoints[a])]]
    /\ UNCHANGED <<balance, manualMinted, lockVars, voteVars>>

mintTo(to, amount) ==
    /\ totalSupply + amount <= CAP
    /\ balance' = [balance EXCEPT ![to] = @ + amount]
    /\ CanMoveDelegates(NoAddress, delegates[to], amount)
    /\ checkpoints' = moveDelegates(NoAddress, delegates[to], amount)
    /\ UNCHANGED <<block, lockVars, delegates, votesAt>>

mint(to, amount) == mintTo(to, amount) /\ UNCHANGED manualMinted

manualMint(to, amount) ==
    /\ manualMinted + amount <= MANUAL_MINT_LIMIT
    /\ manualMinted' = manualMinted + amount
    /\ mintTo(to, amount)

burn(a, amount) ==
    /\ amount <= balance[a]
    /\ balance' = [balance EXCEPT ![a] = @ - amount]
    /\ UNCHANGED <<block, manualMinted, lockVars, voteVars, votesAt>>

transfer(from, to, amount) ==
    /\ amount <= balance[from]
    /\ balance' = Moved(from, to, amount)
    /\ CanMoveDelegates(delegates[from], delegates[to], amount)
    /\ checkpoints' = moveDelegates(delegates[from], delegates[to], amount)
    /\ UNCHANGED <<block, manualMinted, lockVars, delegates, votesAt>>

\* Mutant: the first release block is added instead of set.
AddsStart(last) == IF last < startReleaseBlock THEN startReleaseBlock + last ELSE last

\* lock and transferAll start the release no earlier than startReleaseBlock.
NotBeforeStart(last) == IF last < startReleaseBlock THEN startReleaseBlock ELSE last

lock(a, amount) ==
    /\ amount <= balance[a]
    /\ SumFunction(everLocked) + amount <= MaxEverLocked
    /\ balance' = Moved(a, Self, amount)
    /\ locks' = [locks EXCEPT ![a] = @ + amount]
    /\ totalLock' = totalLock + amount
    /\ lastUnlockBlock' = [lastUnlockBlock EXCEPT ![a] = NotBeforeStart(@)]
    /\ everLocked' = [everLocked EXCEPT ![a] = @ + amount]
    /\ UNCHANGED <<block, manualMinted, voteVars, votesAt>>

\* Mutant: the branch for the time after endReleaseBlock is missing.
CanUnlockNoEnd(a) ==
    IF block < startReleaseBlock \/ block >= endReleaseBlock THEN 0
    ELSE (locks[a] * (block - lastUnlockBlock[a])) \div (endReleaseBlock - lastUnlockBlock[a])

canUnlockAmount(a) ==
    CASE block < startReleaseBlock -> 0
      [] block >= endReleaseBlock -> locks[a]
      [] OTHER -> (locks[a] * (block - lastUnlockBlock[a]))
                    \div (endReleaseBlock - lastUnlockBlock[a])

\* Mutant: unlock pays but does not lower the lock.
LockKept(a, amount) == locks[a]

LockLeft(a, amount) == locks[a] - amount

\* Mutant: the release clock stands still.
ClockKept(a) == lastUnlockBlock[a]

ClockAfterUnlock(a) == block

unlock(a) ==
    LET amount == canUnlockAmount(a)
    IN  /\ locks[a] > 0
        /\ amount <= balance[Self] /\ amount <= locks[a] /\ amount <= totalLock
        /\ balance' = Moved(Self, a, amount)
        /\ locks' = [locks EXCEPT ![a] = LockLeft(a, amount)]
        /\ lastUnlockBlock' = [lastUnlockBlock EXCEPT ![a] = ClockAfterUnlock(a)]
        /\ totalLock' = totalLock - amount
        /\ UNCHANGED <<block, manualMinted, voteVars, everLocked, votesAt>>

Later(x, y) == IF x < y THEN y ELSE x

transferAll(a, to) ==
    /\ a # to
    /\ locks' = [locks EXCEPT ![to] = @ + locks[a], ![a] = 0]
    /\ lastUnlockBlock' =
          [lastUnlockBlock EXCEPT ![to] = Later(NotBeforeStart(@), lastUnlockBlock[a]),
                                  ![a] = 0]
    /\ balance' = Moved(a, to, balance[a])
    /\ everLocked' = [everLocked EXCEPT ![to] = @ + everLocked[a], ![a] = 0]
    /\ UNCHANGED <<block, manualMinted, totalLock, voteVars, votesAt>>

lockToOwner(a, amount) ==
    /\ amount <= balance[a]
    /\ balance' = Moved(a, owner, amount)
    /\ UNCHANGED <<block, manualMinted, lockVars, voteVars, votesAt>>

delegate(a, delegatee) ==
    /\ CanMoveDelegates(delegates[a], delegatee, balance[a])
    /\ delegates' = [delegates EXCEPT ![a] = delegatee]
    /\ checkpoints' = moveDelegates(delegates[a], delegatee, balance[a])
    /\ UNCHANGED <<block, balance, manualMinted, lockVars, votesAt>>

Next ==
    \/ Tick
    \/ \E a \in Accounts :
          \/ unlock(a)
          \/ \E to \in Holders : transferAll(a, to)
          \/ \E d \in Delegatees \cup {NoAddress} : delegate(a, d)
          \/ \E amount \in Amounts :
                \/ mint(a, amount)
                \/ manualMint(a, amount)
                \/ burn(a, amount)
                \/ lock(a, amount)
                \/ lockToOwner(a, amount)
                \/ \E to \in Holders : transfer(a, to, amount)

\* Blocks are produced, and every holder of a lock calls unlock again and again.
Fairness == WF_vars(Tick) /\ \A a \in Accounts : WF_vars(unlock(a))

Spec == Init /\ [][Next]_vars
FairSpec == Spec /\ Fairness
-----------------------------------------------------------------------------
\* Every variable keeps its type; manual minting stays within its limit.
TypeOK ==
    /\ block \in 0..MaxBlock
    /\ balance \in [Holders -> Nat]
    /\ locks \in [Holders -> Nat] /\ lastUnlockBlock \in [Holders -> Nat]
    /\ totalLock \in Nat /\ manualMinted \in 0..MANUAL_MINT_LIMIT
    /\ delegates \in [Holders -> Delegatees \cup {NoAddress}]
    /\ everLocked \in [Holders -> Nat]

\* The token contract holds every locked token and _totalLock is their sum, so
\* that no unlock fails for want of tokens, whoever unlocks or moves first.
LocksBacked == SumsTo(locks, NumAccounts + 1, totalLock) /\ totalLock <= balance[Self]

\* An account with a lock and a started release has a release clock that is not
\* ahead of the chain: canUnlockAmount neither underflows nor exceeds the lock,
\* whatever lock, unlock and transferAll did to _lastUnlockBlock before.
UnlockNeverReverts ==
    \A a \in Accounts :
        locks[a] > 0 /\ startReleaseBlock <= block
            => canUnlockAmount(a) \in 0..locks[a]

\* However often an account unlocks and merges locks, what it still holds
\* locked is never behind a linear release of all it ever locked over the
\* blocks from the first one to endReleaseBlock.
NeverAheadOfLinear ==
    \A a \in Accounts :
        block <= endReleaseBlock
            => everLocked[a] * (endReleaseBlock - block) <= locks[a] * endReleaseBlock

\* The release of HuskyToken runs from startReleaseBlock: what is unlocked
\* never exceeds the share of the blocks passed since then.
ReleaseStartsAtStart ==
    \A a \in Accounts :
        startReleaseBlock <= block /\ block <= endReleaseBlock
            => everLocked[a] * (endReleaseBlock - block)
                 <= locks[a] * (endReleaseBlock - startReleaseBlock)

\* getPriorVotes returns for every past block the votes the account had when
\* that block ended: later checkpoints never change it and the binary search
\* finds it.
PriorVotesCorrect ==
    \A a \in Accounts, b \in 0..MaxBlock :
        b < block => getPriorVotes(a, b) = votesAt[b][a]

\* Every lock is paid out in full again and again, once endReleaseBlock passes.
LocksReleased == \A a \in Accounts : []<>(locks[a] = 0)
=============================================================================
