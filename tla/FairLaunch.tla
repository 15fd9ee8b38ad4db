----------------------------- MODULE FairLaunch -----------------------------
(***************************************************************************)
(* contracts/6/token/FairLaunch.sol: pools of staked tokens that share the *)
(* HUSKI minted per block, with a bonus period whose reward is partly      *)
(* locked.  A pool is named by its stake token.  Badge points, which a     *)
(* deployment without an oracle does not mint, are left out, and so are    *)
(* the setters of addresses.  A harvester's wallet holds an arbitrary      *)
(* amount of HUSKI from Wallets when the bonus is locked from it.          *)
(***************************************************************************)
EXTENDS Integers, Functions, FiniteSets

CONSTANTS
    Pools, Accounts, NoAddress,
    PRECISION,       \* 1e12
    BPS,             \* 10000
    CAP,             \* HuskyToken.CAP
    startBlock, InitialBonusEnd, InitialLockUpBps, \* constructor arguments
    PerBlocks, AllocPoints, Amounts, BadgeAmounts, Wallets,
    Bonuses,         \* arguments of setBonus: [multiplier, endBlock, lockUpBps]
    MaxBlock, MaxStake, MaxOps, MaxBonuses  \* bounds

ASSUME FairLaunchAssumption ==
    /\ PRECISION \in Nat \ {0} /\ BPS \in Nat \ {0} /\ CAP \in Nat
    /\ startBlock \in Nat /\ InitialBonusEnd \in Nat /\ InitialLockUpBps \in Nat
    /\ PerBlocks \subseteq Nat /\ PerBlocks # {} /\ AllocPoints \subseteq Nat
    /\ Amounts \subseteq Nat /\ BadgeAmounts \subseteq Nat /\ Wallets \subseteq Nat
    /\ Bonuses \subseteq [multiplier : Nat, endBlock : Nat, lockUpBps : Nat]
    /\ MaxBlock \in Nat /\ MaxStake \in Nat /\ MaxOps \in Nat /\ MaxBonuses \in Nat
    /\ NoAddress \notin Accounts
    /\ IsFiniteSet(Pools) /\ IsFiniteSet(Accounts)

VARIABLES
    block,
    poolInfo,        \* per pool: added, allocPoint, lastRewardBlock, acc, accTilBonusEnd
    userInfo,        \* per pool and account: amount, rewardDebt, bonusDebt, fundedBy
    totalAllocPoint, huskyPerBlock, bonus,
    lpSupply,        \* the contract's balance of each stake token
    husky,           \* the contract's balance of HUSKI
    minted,          \* HUSKI in existence
    badgeLocked,     \* HUSKI the badge relayer keeps in the contract
    rewards,         \* history: HUSKI minted for the stakers
    ops, bonuses     \* history: reward debts rounded, bonuses set

settings == <<huskyPerBlock, bonus>>
vars == <<block, poolInfo, userInfo, totalAllocPoint, settings, lpSupply,
          husky, minted, rewards, badgeLocked, ops, bonuses>>

NoUser == [amount |-> 0, rewardDebt |-> 0, bonusDebt |-> 0, fundedBy |-> NoAddress]
NoPool == [added |-> FALSE, allocPoint |-> 0, lastRewardBlock |-> 0, acc |-> 0,
           accTilBonusEnd |-> 0]

Init ==
    /\ block = 0
    /\ poolInfo = [p \in Pools |-> NoPool]
    /\ userInfo = [p \in Pools |-> [u \in Accounts |-> NoUser]]
    /\ totalAllocPoint = 0
    /\ huskyPerBlock \in PerBlocks
    /\ bonus = [multiplier |-> 0, endBlock |-> InitialBonusEnd,
                lockUpBps |-> InitialLockUpBps]
    /\ lpSupply = [p \in Pools |-> 0]
    /\ husky = 0 /\ minted = 0 /\ rewards = 0 /\ badgeLocked = 0
    /\ ops = 0 /\ bonuses = 0
-----------------------------------------------------------------------------
getMultiplier(from, to) ==
    CASE to <= bonus.endBlock -> (to - from) * bonus.multiplier
      [] to > bonus.endBlock /\ from >= bonus.endBlock -> to - from
      [] OTHER -> (bonus.endBlock - from) * bonus.multiplier + (to - bonus.endBlock)

\* multiplier.mul(huskyPerBlock).mul(pool.allocPoint).div(totalAllocPoint)
Share(p, multiplier) ==
    (multiplier * huskyPerBlock * poolInfo[p].allocPoint) \div totalAllocPoint

huskyReward(p) == Share(p, getMultiplier(poolInfo[p].lastRewardBlock, block))

Due(p) == block > poolInfo[p].lastRewardBlock
Rewarding(p) == Due(p) /\ lpSupply[p] # 0
MintedBy(p) == IF Rewarding(p) THEN huskyReward(p) ELSE 0
DevShare(p) == MintedBy(p) \div 10

PerShare(reward, p) == (reward * PRECISION) \div lpSupply[p]

\* The part of the reward that falls before the bonus ends.
BonusPortion(p) ==
    CASE block <= bonus.endBlock -> huskyReward(p)
      [] block > bonus.endBlock /\ poolInfo[p].lastRewardBlock < bonus.endBlock ->
             Share(p, (bonus.endBlock - poolInfo[p].lastRewardBlock) * bonus.multiplier)
      [] OTHER -> 0

\* updatePool divides by totalAllocPoint and locks a part of what it has just
\* minted for the developer.
CanUpdate(p) ==
    Rewarding(p) => /\ totalAllocPoint > 0
                    /\ (BonusPortion(p) * bonus.lockUpBps) \div (10 * BPS) <= DevShare(p)

updatedPool(p) ==
    LET pool == poolInfo[p]
        acc == pool.acc + PerShare(huskyReward(p), p)
    IN  IF ~Due(p) THEN pool
        ELSE IF lpSupply[p] = 0 THEN [pool EXCEPT !.lastRewardBlock = block]
        ELSE [pool EXCEPT
                !.acc = acc,
                !.accTilBonusEnd = IF block <= bonus.endBlock THEN acc
                                   ELSE @ + PerShare(BonusPortion(p), p),
                !.lastRewardBlock = block]

\* The HUSKI minted by an update of the pools in P, which HuskyToken caps.
MintedFor(P) == SumFunctionOnSet([p \in P |-> MintedBy(p)], P)
MintedForDev(P) == SumFunctionOnSet([p \in P |-> DevShare(p)], P)

CanMint(P) == minted + MintedFor(P) + MintedForDev(P) <= CAP
Mints(P) ==
    /\ minted' = minted + MintedFor(P) + MintedForDev(P)
    /\ rewards' = rewards + MintedFor(P)

Added == {p \in Pools : poolInfo[p].added}
-----------------------------------------------------------------------------
\* user.amount.mul(accHuskyPerShare).div(1e12)
Entitled(amount, acc) == (amount * acc) \div PRECISION

\* Mutant: a debt is reset instead of brought up to date.
NoDebt(amount, acc) == 0

RewardDebt(amount, acc) == Entitled(amount, acc)
BonusDebt(amount, acc) == Entitled(amount, acc)

Resettled(user, pool, amount) ==
    [user EXCEPT !.amount = amount,
                 !.rewardDebt = RewardDebt(amount, pool.acc),
                 !.bonusDebt = BonusDebt(amount, pool.accTilBonusEnd)]

Pending(user, pool) == Entitled(user.amount, pool.acc) - user.rewardDebt
BonusOf(user, pool) == Entitled(user.amount, pool.accTilBonusEnd) - user.bonusDebt
BonusLock(user, pool) == (BonusOf(user, pool) * bonus.lockUpBps) \div BPS

\* _harvest, on the updated pool: the contract must hold the reward and the
\* wallet, with the reward, the HUSKI to lock.
CanHarvest(user, pool, held) ==
    /\ user.amount > 0
    /\ Pending(user, pool) <= held
    /\ \E wallet \in Wallets :
          BonusLock(user, pool) <= Pending(user, pool) + wallet

updatePool(p) ==
    /\ p \in Added /\ CanUpdate(p) /\ CanMint({p})
    /\ poolInfo' = [poolInfo EXCEPT ![p] = updatedPool(p)]
    /\ husky' = husky + MintedBy(p)
    /\ Mints({p})
    /\ UNCHANGED <<block, userInfo, totalAllocPoint, settings, lpSupply,
                   badgeLocked, ops, bonuses>>

\* massUpdatePools, its effect on HUSKI and its effect on the pools.
MassUpdate ==
    /\ \A p \in Added : CanUpdate(p)
    /\ CanMint(Added)
    /\ husky' = husky + MintedFor(Added)
    /\ Mints(Added)
MassUpdated == [p \in Pools |-> IF p \in Added THEN updatedPool(p) ELSE poolInfo[p]]

massUpdatePools ==
    /\ MassUpdate
    /\ poolInfo' = MassUpdated
    /\ UNCHANGED <<block, userInfo, totalAllocPoint, settings, lpSupply,
                   badgeLocked, ops, bonuses>>

\* Mutant: the stake arrives before the pool is updated.
TakesStakeFirst(p) == poolInfo[p]

PoolBeforeDeposit(p) == updatedPool(p)

deposit(sender, for, p, amount) ==
    LET user == userInfo[p][for]
        pool == PoolBeforeDeposit(p)
        held == husky + MintedBy(p)
        paid == IF user.amount > 0 THEN Pending(user, pool) ELSE 0
    IN  /\ ops < MaxOps /\ lpSupply[p] + amount <= MaxStake
        /\ user.fundedBy \in {NoAddress, sender}
        /\ p \in Added /\ CanUpdate(p) /\ CanMint({p})
        /\ user.amount > 0 => CanHarvest(user, pool, held)
        /\ poolInfo' = [poolInfo EXCEPT ![p] = pool]
        /\ userInfo' = [userInfo EXCEPT ![p][for] =
               [Resettled(user, pool, user.amount + amount) EXCEPT !.fundedBy = sender]]
        /\ lpSupply' = [lpSupply EXCEPT ![p] = @ + amount]
        /\ husky' = held - paid
        /\ Mints({p})
        /\ ops' = ops + 1
        /\ UNCHANGED <<block, totalAllocPoint, settings, badgeLocked, bonuses>>

\* withdraw, and withdrawAll for the whole amount.
withdraw(sender, for, p, amount) ==
    LET user == userInfo[p][for]
        pool == updatedPool(p)
        held == husky + MintedBy(p)
        left == user.amount - amount
    IN  /\ ops < MaxOps
        /\ user.fundedBy = sender /\ user.amount >= amount
        /\ CanUpdate(p) /\ CanMint({p})
        /\ CanHarvest(user, pool, held)
        /\ amount <= lpSupply[p]
        /\ poolInfo' = [poolInfo EXCEPT ![p] = pool]
        /\ userInfo' = [userInfo EXCEPT ![p][for] =
               [Resettled(user, pool, left) EXCEPT
                   !.fundedBy = IF left = 0 THEN NoAddress ELSE @]]
        /\ lpSupply' = [lpSupply EXCEPT ![p] = @ - amount]
        /\ husky' = held - Pending(user, pool)
        /\ Mints({p})
        /\ ops' = ops + 1
        /\ UNCHANGED <<block, totalAllocPoint, settings, badgeLocked, bonuses>>

harvest(u, p) ==
    LET user == userInfo[p][u]
        pool == updatedPool(p)
        held == husky + MintedBy(p)
    IN  /\ ops < MaxOps
        /\ p \in Added /\ CanUpdate(p) /\ CanMint({p})
        /\ CanHarvest(user, pool, held)
        /\ poolInfo' = [poolInfo EXCEPT ![p] = pool]
        /\ userInfo' = [userInfo EXCEPT ![p][u] = Resettled(user, pool, user.amount)]
        /\ husky' = held - Pending(user, pool)
        /\ Mints({p})
        /\ ops' = ops + 1
        /\ UNCHANGED <<block, totalAllocPoint, settings, lpSupply, badgeLocked, bonuses>>

AmountAfterEmergency(user) == 0

emergencyWithdraw(u, p) ==
    LET user == userInfo[p][u]
    IN  /\ user.fundedBy = u
        /\ user.amount <= lpSupply[p]
        /\ lpSupply' = [lpSupply EXCEPT ![p] = @ - user.amount]
        /\ userInfo' = [userInfo EXCEPT ![p][u] =
               [@ EXCEPT !.amount = AmountAfterEmergency(user), !.rewardDebt = 0,
                         !.fundedBy = NoAddress]]
        /\ UNCHANGED <<block, poolInfo, totalAllocPoint, settings, husky, minted, rewards,
                       badgeLocked, ops, bonuses>>
-----------------------------------------------------------------------------
addPool(p, allocPoint, withUpdate) ==
    /\ IF withUpdate THEN MassUpdate ELSE UNCHANGED <<husky, minted, rewards>>
    /\ p \notin Added
    /\ totalAllocPoint' = totalAllocPoint + allocPoint
    /\ poolInfo' = [(IF withUpdate THEN MassUpdated ELSE poolInfo) EXCEPT ![p] =
          [NoPool EXCEPT !.added = TRUE, !.allocPoint = allocPoint,
              !.lastRewardBlock = IF block > startBlock THEN block ELSE startBlock]]
    /\ UNCHANGED <<block, userInfo, settings, lpSupply, badgeLocked, ops, bonuses>>

\* Mutant: _withUpdate is obeyed, and is false.
SetPoolNoUpdate(p, allocPoint) ==
    /\ p \in Added
    /\ totalAllocPoint' = totalAllocPoint - poolInfo[p].allocPoint + allocPoint
    /\ poolInfo' = [poolInfo EXCEPT ![p].allocPoint = allocPoint]
    /\ UNCHANGED <<block, userInfo, settings, lpSupply, husky, minted, rewards,
                   badgeLocked, ops, bonuses>>

setPool(p, allocPoint) ==
    /\ p \in Added
    /\ MassUpdate
    /\ totalAllocPoint' = totalAllocPoint - poolInfo[p].allocPoint + allocPoint
    /\ poolInfo' = [MassUpdated EXCEPT ![p].allocPoint = allocPoint]
    /\ UNCHANGED <<block, userInfo, settings, lpSupply, badgeLocked, ops, bonuses>>

setHuskyPerBlock(n) ==
    /\ huskyPerBlock' = n
    /\ UNCHANGED <<block, poolInfo, userInfo, totalAllocPoint, bonus, lpSupply,
                   husky, minted, rewards, badgeLocked, ops, bonuses>>

setBonus(b) ==
    /\ bonuses < MaxBonuses
    /\ b.endBlock > block /\ b.multiplier > 1
    /\ bonus' = b
    /\ bonuses' = bonuses + 1
    /\ UNCHANGED <<block, poolInfo, userInfo, totalAllocPoint, huskyPerBlock,
                   lpSupply, husky, minted, rewards, badgeLocked, ops>>

\* The badge relayer keeps locked HUSKI in the contract and pays it back, a
\* tenth of it to the developer; it never unlocks more than it locked.
lockToOwner(amount) ==
    /\ ops < MaxOps
    /\ husky' = husky + amount
    /\ badgeLocked' = badgeLocked + amount
    /\ ops' = ops + 1
    /\ UNCHANGED <<block, poolInfo, userInfo, totalAllocPoint, settings, lpSupply,
                   minted, rewards, bonuses>>

\* safeHuskyTransfer
HuskyAfterTransfer(balance, amount) == IF amount > balance THEN 0 ELSE balance - amount

unlockFromOwner(amount) ==
    LET returnHusky == amount \div 10
    IN  /\ amount <= badgeLocked
        /\ husky' = HuskyAfterTransfer(HuskyAfterTransfer(husky, returnHusky),
                                       amount - returnHusky)
        /\ badgeLocked' = badgeLocked - amount
        /\ UNCHANGED <<block, poolInfo, userInfo, totalAllocPoint, settings, lpSupply,
                       minted, rewards, ops, bonuses>>

\* Anyone may send stake tokens to the contract.
Donate(p, amount) ==
    /\ lpSupply[p] + amount <= MaxStake
    /\ lpSupply' = [lpSupply EXCEPT ![p] = @ + amount]
    /\ UNCHANGED <<block, poolInfo, userInfo, totalAllocPoint, settings, husky, minted, rewards,
                   badgeLocked, ops, bonuses>>

Tick ==
    /\ block < MaxBlock
    /\ block' = block + 1
    /\ UNCHANGED <<poolInfo, userInfo, totalAllocPoint, settings, lpSupply, husky,
                   minted, rewards, badgeLocked, ops, bonuses>>

Next ==
    \/ Tick
    \/ massUpdatePools
    \/ \E n \in PerBlocks : setHuskyPerBlock(n)
    \/ \E b \in Bonuses : setBonus(b)
    \/ \E amount \in BadgeAmounts : lockToOwner(amount) \/ unlockFromOwner(amount)
    \/ \E p \in Pools :
          \/ updatePool(p)
          \/ \E a \in AllocPoints : setPool(p, a) \/ \E w \in BOOLEAN : addPool(p, a, w)
          \/ \E amount \in Amounts : Donate(p, amount)
          \/ \E u \in Accounts :
                \/ harvest(u, p)
                \/ emergencyWithdraw(u, p)
                \/ \E for \in Accounts, amount \in Amounts :
                      deposit(u, for, p, amount) \/ withdraw(u, for, p, amount)

Spec == Init /\ [][Next]_vars
-----------------------------------------------------------------------------
PoolPending(p) ==
    SumFunctionOnSet([u \in Accounts |-> Pending(userInfo[p][u], poolInfo[p])], Accounts)
TotalPending == SumFunctionOnSet([p \in Pools |-> PoolPending(p)], Pools)

\* The HUSKI in the contract, less what the badges keep there, pays every
\* pending reward of every pool but for at most one unit for each time a reward
\* debt was rounded down.
SolventUpToDust == TotalPending <= husky - badgeLocked + ops

\* The rewards of past blocks: those minted and those the next updates mint.
Unminted(p) == IF p \in Added /\ totalAllocPoint > 0 THEN MintedBy(p) ELSE 0
RewardsSoFar == rewards + SumFunctionOnSet([p \in Pools |-> Unminted(p)], Pools)

\* Rewards grow with blocks only: while the rate and the bonus stay as they
\* are, no deposit, withdrawal, update or change of the pools' weights adds to
\* what past blocks have paid and still have to pay.
RewardsOnlyByBlocks ==
    [][block' = block /\ UNCHANGED settings /\ (poolInfo' # poolInfo \/ userInfo' # userInfo)
         => RewardsSoFar' <= RewardsSoFar]_vars

\* pendingHusky
pendingHusky(p, u) ==
    LET pool == IF totalAllocPoint > 0 THEN updatedPool(p) ELSE poolInfo[p]
    IN  Pending(userInfo[p][u], pool)

\* Somebody sent stake tokens to the contract: the pool's supply rises, and no
\* record with it.
Gifted(p) == lpSupply'[p] > lpSupply[p] /\ UNCHANGED <<poolInfo, userInfo>>

\* While the block, the settings and the pools' weights stay, no step of anybody
\* lowers what an account that keeps its stake could harvest from a pool, with one
\* exception: pendingHusky and updatePool divide by lpToken.balanceOf(this), so stake
\* tokens sent to the contract dilute the blocks since the pool's last update.  What
\* the account had earned by that update stays, and no other pool feels the gift.
OthersRewardNeverFalls ==
    [][block' = block /\ UNCHANGED <<settings, totalAllocPoint>>
         => \A p \in Pools, u \in Accounts :
               userInfo'[p][u] = userInfo[p][u]
                   => pendingHusky(p, u)' >= IF Gifted(p)
                                             THEN Pending(userInfo[p][u], poolInfo[p])
                                             ELSE pendingHusky(p, u)]_vars

\* The bonus to lock is a part of the reward just paid, so that no harvest,
\* deposit or withdrawal depends on what else is in the user's wallet.
LockWithinReward ==
    \A p \in Pools, u \in Accounts :
        userInfo[p][u].amount > 0
            => BonusLock(userInfo[p][u], poolInfo[p]) <= Pending(userInfo[p][u], poolInfo[p])
=============================================================================
