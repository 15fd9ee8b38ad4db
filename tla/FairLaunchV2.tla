---------------------------- MODULE FairLaunchV2 ----------------------------
(***************************************************************************)
(* contracts/6/token/FairLaunchV2.sol: distributes over its own pools the  *)
(* HUSKI it earns as the only staker of a dummy token in FairLaunch's      *)
(* master pool; a pool's rewards may go through a LinearRelease locker.    *)
(*                                                                         *)
(* FairLaunch pays huskyPerBlock for every block, in the arithmetic of its *)
(* own accHuskyPerShare (external here; see FairLaunch).  Stake tokens are *)
(* not HUSKI, and anyone may send some to the contract.                    *)
(***************************************************************************)
EXTENDS LinearRelease, FiniteSets

CONSTANTS
    Pools, NoAddress,
    huskyPerBlock, DummySupply, ACC_HUSKY_PRECISION,
    AllocPoints, Amounts, StartBlocks,
    MaxBlock, MaxStake, MaxSent, MaxOps     \* bounds

VARIABLES
    pools, users, totalAllocPoint,
    stake,             \* stakeTokens[pid].balanceOf(this)
    husky,             \* HUSKY.balanceOf(this)
    v1Acc, v1Block,    \* FairLaunch: accHuskyPerShare and lastRewardBlock
    steady,            \* history: setPool has only met pools that were up to date
    ops                \* history: calls that change a stake or a weight, or harvest

rewards == <<husky, v1Acc, v1Block>>
vars == <<pools, users, totalAllocPoint, stake, rewards, locker, block, steady, ops>>

\* Amounts, weights and blocks are unsigned; there is a dummy token to stake.
ASSUME FairLaunchV2Assumption ==
    /\ IsFiniteSet(Pools) /\ IsFiniteSet(Accounts)
    /\ BPS \in Nat \ {0} /\ DummySupply \in Nat \ {0} /\ ACC_HUSKY_PRECISION \in Nat \ {0}
    /\ {huskyPerBlock, lockupBps, startReleaseBlock, endReleaseBlock} \subseteq Nat
    /\ AllocPoints \cup Amounts \cup StartBlocks \subseteq Nat

NoPool == [added |-> FALSE, allocPoint |-> 0, lastRewardBlock |-> 0,
           accHuskyPerShare |-> 0, locked |-> FALSE]
NoUser == [amount |-> 0, rewardDebt |-> 0, fundedBy |-> NoAddress]

Init ==
    /\ pools = [p \in Pools |-> NoPool] /\ totalAllocPoint = 0
    /\ users = [p \in Pools |-> [u \in Accounts |-> NoUser]]
    /\ stake = [p \in Pools |-> 0]
    /\ husky = 0 /\ v1Acc = 0 /\ v1Block = 0 /\ block = 0
    /\ LockerInit
    /\ steady = TRUE /\ ops = 0
-----------------------------------------------------------------------------
Times(amount, acc) == (amount * acc) \div ACC_HUSKY_PRECISION

\* harvestFromFairLaunchV1, as FairLaunch.deposit(this, MASTER_PID, 0) computes it.
v1AccNow ==
    v1Acc + ((block - v1Block) * huskyPerBlock * ACC_HUSKY_PRECISION) \div DummySupply
FromV1 == Times(DummySupply, v1AccNow) - Times(DummySupply, v1Acc)

harvestFromFairLaunchV1 == v1Acc' = v1AccNow /\ v1Block' = block

\* The pool after updatePool, with supply staked.
RewardClock(p) == IF block > pools[p].lastRewardBlock THEN block ELSE pools[p].lastRewardBlock

AccAt(p, supply) ==
    LET pool   == pools[p]
        reward == ((block - pool.lastRewardBlock) * huskyPerBlock * pool.allocPoint
                     * ACC_HUSKY_PRECISION) \div totalAllocPoint
    IN  IF block > pool.lastRewardBlock /\ supply > 0 /\ totalAllocPoint > 0
        THEN pool.accHuskyPerShare + reward \div supply
        ELSE pool.accHuskyPerShare

Updated(p, supply) ==
    [pools[p] EXCEPT !.accHuskyPerShare = AccAt(p, supply), !.lastRewardBlock = RewardClock(p)]

updatePool(p) == Updated(p, stake[p])

\* What u can harvest from p, given the pool's accHuskyPerShare.  pendingHusky is
\* the view, which reverts when its division by totalAllocPoint does.
Pending(p, u, acc) == Times(users[p][u].amount, acc) - users[p][u].rewardDebt
pendingHusky(p, u) == Pending(p, u, updatePool(p).accHuskyPerShare)

Called == ops < MaxOps /\ ops' = ops + 1

massUpdatePools(pids) ==
    /\ \A p \in pids : pools[p].added
    /\ pools' = [p \in Pools |-> IF p \in pids THEN updatePool(p) ELSE pools[p]]
    /\ harvestFromFairLaunchV1 /\ husky' = husky + FromV1
    /\ UNCHANGED <<users, totalAllocPoint, stake, locker, block, steady, ops>>

\* The pool a deposit computes the reward debt with.
\* Mutant: the stake comes in first.
PoolAfterStake(p, amount) == Updated(p, stake[p] + amount)

PoolBeforeStake(p, amount) == updatePool(p)

\* Mutant: the reward debt of the new stake is left out.
DebtKept(user, amount, acc) == user.rewardDebt

DebtAfterDeposit(user, amount, acc) == user.rewardDebt + Times(amount, acc)

deposit(sender, for, p, amount) ==
    LET user == users[p][for]
        pool == PoolBeforeStake(p, amount)
    IN  /\ Called
        /\ pools[p].added
        /\ user.fundedBy \in {NoAddress, sender}
        /\ user.amount + amount <= MaxStake
        /\ pools' = [pools EXCEPT ![p] = pool]
        /\ users' = [users EXCEPT ![p][for] =
              [amount     |-> user.amount + amount,
               rewardDebt |-> DebtAfterDeposit(user, amount, pool.accHuskyPerShare),
               fundedBy   |-> sender]]
        /\ stake' = [stake EXCEPT ![p] = @ + amount]
        /\ harvestFromFairLaunchV1 /\ husky' = husky + FromV1
        /\ UNCHANGED <<totalAllocPoint, locker, block, steady>>

\* _harvest: pending HUSKI leaves, a part of it to the locker.
Harvest(p, to, acc) ==
    LET pending == Pending(p, to, acc)
        locked  == IF pools[p].locked THEN calLockAmount(pending) ELSE 0
    IN  /\ pending \in 0..(husky + FromV1)
        /\ harvestFromFairLaunchV1 /\ husky' = husky + FromV1 - pending
        /\ IF pending > 0 /\ pools[p].locked THEN lock(to, locked) ELSE UNCHANGED locker

\* Mutant: the debt of the part withdrawn stays.
DebtNotLowered(user, amount, acc) == Times(user.amount, acc)

DebtAfterWithdraw(user, amount, acc) == Times(user.amount, acc) - Times(amount, acc)

withdraw(sender, for, p, amount) ==
    LET user == users[p][for]
        acc  == updatePool(p).accHuskyPerShare
    IN  /\ Called
        /\ user.fundedBy = sender /\ amount <= user.amount
        /\ Harvest(p, for, acc)
        /\ pools' = [pools EXCEPT ![p] = updatePool(p)]
        /\ users' = [users EXCEPT ![p][for] =
              [amount     |-> user.amount - amount,
               rewardDebt |-> DebtAfterWithdraw(user, amount, acc),
               fundedBy   |-> IF user.amount = amount THEN NoAddress ELSE sender]]
        /\ stake' = [stake EXCEPT ![p] = @ - amount]
        /\ UNCHANGED <<totalAllocPoint, block, steady>>

harvest(sender, p) ==
    LET acc == updatePool(p).accHuskyPerShare
    IN  /\ Called
        /\ pools[p].added
        /\ Harvest(p, sender, acc)
        /\ pools' = [pools EXCEPT ![p] = updatePool(p)]
        /\ users' = [users EXCEPT ![p][sender].rewardDebt = Times(users[p][sender].amount, acc)]
        /\ UNCHANGED <<totalAllocPoint, stake, block, steady>>

\* Without an update: the pending reward is forfeited.
emergencyWithdraw(sender, p) ==
    /\ Called
    /\ users[p][sender].fundedBy = sender
    /\ stake' = [stake EXCEPT ![p] = @ - users[p][sender].amount]
    /\ users' = [users EXCEPT ![p][sender] = NoUser]
    /\ UNCHANGED <<pools, totalAllocPoint, rewards, locker, block, steady>>

claimLock(user) ==
    /\ claim(user)
    /\ UNCHANGED <<pools, users, totalAllocPoint, stake, rewards, block, steady, ops>>

addPool(p, allocPoint, startBlock, locked) ==
    /\ ~pools[p].added
    /\ pools' = [pools EXCEPT ![p] =
          [NoPool EXCEPT !.added = TRUE, !.allocPoint = allocPoint, !.locked = locked,
                         !.lastRewardBlock = IF block > startBlock THEN block ELSE startBlock]]
    /\ totalAllocPoint' = totalAllocPoint + allocPoint
    /\ UNCHANGED <<users, stake, rewards, locker, block, steady, ops>>

setPool(p, allocPoint, locked) ==
    /\ Called
    /\ pools[p].added
    /\ pools' = [pools EXCEPT ![p] =
          [updatePool(p) EXCEPT !.allocPoint = allocPoint, !.locked = locked]]
    /\ totalAllocPoint' = totalAllocPoint - pools[p].allocPoint + allocPoint
    /\ harvestFromFairLaunchV1 /\ husky' = husky + FromV1
    /\ steady' = (steady /\ \A q \in Pools \ {p} :
                     pools[q].added => pools[q].lastRewardBlock >= block)
    /\ UNCHANGED <<users, stake, locker, block>>

\* The stake tokens the contract has beyond the stakes on record.
Sent == SumFunctionOnSet([p \in Pools |->
            stake[p] - SumFunctionOnSet([u \in Accounts |-> users[p][u].amount], Accounts)], Pools)

\* A transfer of stake tokens that is no deposit: updatePool and pendingHusky go by
\* stakeTokens[pid].balanceOf(this).
SendStake(p, amount) ==
    /\ Sent + amount <= MaxSent
    /\ stake' = [stake EXCEPT ![p] = @ + amount]
    /\ UNCHANGED <<pools, users, totalAllocPoint, rewards, locker, block, steady, ops>>

Tick ==
    /\ block < MaxBlock /\ block' = block + 1
    /\ UNCHANGED <<pools, users, totalAllocPoint, stake, rewards, locker, steady, ops>>

Next ==
    \/ Tick
    \/ \E pids \in SUBSET Pools \ {{}} : massUpdatePools(pids)
    \/ \E sender, for \in Accounts, p \in Pools, amount \in Amounts :
          deposit(sender, for, p, amount) \/ withdraw(sender, for, p, amount)
    \/ \E sender \in Accounts, p \in Pools : harvest(sender, p) \/ emergencyWithdraw(sender, p)
    \/ \E user \in Accounts : claimLock(user)
    \/ \E p \in Pools, amount \in Amounts : SendStake(p, amount)
    \/ \E p \in Pools, a \in AllocPoints, locked \in BOOLEAN :
          setPool(p, a, locked) \/ \E start \in StartBlocks : addPool(p, a, start, locked)

Spec == Init /\ [][Next]_vars
-----------------------------------------------------------------------------
\* Partial withdrawals round the reward debt up by at most one: no stake is
\* blocked by a reward debt that more than one unit of reward has to make up.
RewardDebtWithinOne ==
    \A p \in Pools, u \in Accounts :
        users[p][u].rewardDebt
            <= Times(users[p][u].amount, pools[p].accHuskyPerShare) + 1

\* What the rounding of FairLaunch's own accHuskyPerShare has kept back so far.
V1Dust == huskyPerBlock * block - Times(DummySupply, v1AccNow)

Harvestable(p, u) == IF pendingHusky(p, u) > 0 THEN pendingHusky(p, u) ELSE 0
PoolHarvestable(p) == SumFunctionOnSet([u \in Accounts |-> Harvestable(p, u)], Accounts)

\* While the weights only change when every other pool is up to date, what the
\* accounts can harvest is there, but for one unit a call and FairLaunch's dust:
\* the require of _harvest ("wtf not enough husky") does not refuse a reward.
RewardsBacked ==
    steady => SumFunctionOnSet([p \in Pools |-> PoolHarvestable(p)], Pools)
                <= husky + FromV1 + V1Dust + ops

\* Somebody sent stake tokens to the contract: its balance rises, and no record with it.
Gifted(p) == stake'[p] > stake[p] /\ UNCHANGED <<pools, users>>

\* While the weights stay, no step of anybody lowers what an account that keeps its
\* stake can harvest, with one exception: stake tokens sent to the contract dilute
\* the blocks since the pool's last update.  What the account had earned by that
\* update stays, and no other pool feels the gift.
OthersPendingNeverFalls ==
    [][totalAllocPoint' = totalAllocPoint =>
         \A p \in Pools, u \in Accounts :
             users'[p][u] = users[p][u]
                 => pendingHusky(p, u)' >= IF Gifted(p)
                                           THEN Pending(p, u, pools[p].accHuskyPerShare)
                                           ELSE pendingHusky(p, u)]_vars
=============================================================================
