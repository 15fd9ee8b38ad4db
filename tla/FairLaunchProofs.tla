-------------------------- MODULE FairLaunchProofs --------------------------
(***************************************************************************)
(* Proofs about FairLaunch.  SolventUpToDust is not inductive: floors of   *)
(* pending rewards do not add up.  What adds up is a claim before it is    *)
(* rounded, amount * acc - PRECISION * rewardDebt, and the invariant says  *)
(* that the claims of all accounts, in units of 1 / PRECISION, are covered *)
(* by the HUSKI in the contract but for one unit for each rounded debt.    *)
(* It needs that no claim is negative (acc only grows) and that the stakes *)
(* of a pool are within its lpSupply, which acc is raised in terms of.     *)
(* LockWithinReward needs BonusInv: accTilBonusEnd follows acc until the   *)
(* bonus ends, and an account has two equal debts or was settled after it. *)
(***************************************************************************)
EXTENDS FairLaunch, LedgerMathProofs

PoolRecord == [added : BOOLEAN, allocPoint : Nat, lastRewardBlock : Nat, acc : Nat,
               accTilBonusEnd : Nat]
UserRecord == [amount : Nat, rewardDebt : Nat, bonusDebt : Nat,
               fundedBy : Accounts \cup {NoAddress}]

TypeOK ==
    /\ block \in Nat
    /\ poolInfo \in [Pools -> PoolRecord]
    /\ userInfo \in [Pools -> [Accounts -> UserRecord]]
    /\ totalAllocPoint \in Nat /\ huskyPerBlock \in Nat
    /\ bonus \in [multiplier : Nat, endBlock : Nat, lockUpBps : Nat]
    /\ lpSupply \in [Pools -> Nat]
    /\ husky \in Nat /\ rewards \in Nat /\ badgeLocked \in Nat /\ ops \in Nat

\* A claim, before rounding, and the sums over the accounts of a pool.
Claim(user, acc) == user.amount * acc - PRECISION * user.rewardDebt
Claims(users, acc) == SumFunctionOnSet([u \in Accounts |-> Claim(users[u], acc)], Accounts)
Stakes(users) == SumFunctionOnSet([u \in Accounts |-> users[u].amount], Accounts)
PoolClaims(p) == Claims(userInfo[p], poolInfo[p].acc)
TotalClaims == SumFunctionOnSet([p \in Pools |-> PoolClaims(p)], Pools)

\* A pool nobody added holds no stake and has paid nothing.
PoolsWellFormed ==
    \A p \in Pools : ~poolInfo[p].added =>
        /\ poolInfo[p].acc = 0 /\ poolInfo[p].allocPoint = 0
        /\ \A u \in Accounts : userInfo[p][u].amount = 0

StakesHeld == \A p \in Pools : Stakes(userInfo[p]) <= lpSupply[p]

ClaimsNotNegative ==
    \A p \in Pools, u \in Accounts : Claim(userInfo[p][u], poolInfo[p].acc) >= 0

\* What the contract holds for the claims, with one unit for each rounded debt.
Cover(held, locked, dust) == PRECISION * (held - locked + dust)
ClaimsCovered == TotalClaims <= Cover(husky, badgeLocked, ops)

WeightsAddUp ==
    totalAllocPoint = SumFunctionOnSet([p \in Pools |-> poolInfo[p].allocPoint], Pools)

IInv ==
    /\ TypeOK /\ PoolsWellFormed /\ StakesHeld /\ ClaimsNotNegative
    /\ ClaimsCovered /\ WeightsAddUp
-----------------------------------------------------------------------------
(* The sums over the accounts of one pool. *)

\* A claim before rounding is an integer; ClaimsNotNegative is about reachable states.
LEMMA ClaimType ==
    ASSUME NEW user \in UserRecord, NEW acc \in Nat
    PROVE  Claim(user, acc) \in Int
<1>1. PRECISION \in Int /\ user.amount \in Int /\ user.rewardDebt \in Int
  BY FairLaunchAssumption DEF UserRecord
<1> QED BY <1>1 DEF Claim

\* Raising acc by inc raises the claims by inc for each unit staked.
LEMMA ClaimsGrow ==
    ASSUME NEW users \in [Accounts -> UserRecord], NEW acc \in Nat, NEW inc \in Nat,
           NEW supply \in Nat, Stakes(users) <= supply
    PROVE  /\ Claims(users, acc) \in Int
           /\ Claims(users, acc + inc) \in Int
           /\ Claims(users, acc + inc) <= Claims(users, acc) + inc * supply
<1> DEFINE before == [u \in Accounts |-> Claim(users[u], acc)]
           after  == [u \in Accounts |-> Claim(users[u], acc + inc)]
           stakes == [u \in Accounts |-> users[u].amount]
<1>1. ASSUME NEW u \in Accounts
      PROVE  /\ users[u].amount \in Nat /\ Claim(users[u], acc) \in Int
             /\ Claim(users[u], acc + inc) \in Int
             /\ Claim(users[u], acc + inc) = inc * users[u].amount + Claim(users[u], acc)
  <2>1. users[u] \in UserRecord
    OBVIOUS
  <2>2. PRECISION \in Int /\ users[u].amount \in Nat /\ users[u].rewardDebt \in Int
    BY <2>1, FairLaunchAssumption DEF UserRecord
  <2>3. acc + inc \in Nat
    OBVIOUS
  <2> QED BY <2>1, <2>2, <2>3, ClaimType DEF Claim
<1>2. Bounded(after, inc, stakes, before, Accounts) /\ NatOn(stakes, Accounts)
  BY <1>1 DEF Bounded, NatOn
<1>3. /\ \A u \in Accounts : before[u] \in Int
      /\ \A u \in Accounts : after[u] \in Int
  BY <1>1
<1>4. IsFiniteSet(Accounts) /\ inc \in Int
  BY FairLaunchAssumption
<1>5. /\ Claims(users, acc) = SumFunctionOnSet(before, Accounts)
      /\ Claims(users, acc + inc) = SumFunctionOnSet(after, Accounts)
      /\ Stakes(users) = SumFunctionOnSet(stakes, Accounts)
  BY DEF Claims, Stakes
<1> HIDE DEF before, after, stakes
<1>6. Claims(users, acc) \in Int /\ Claims(users, acc + inc) \in Int /\ Stakes(users) \in Nat
  BY <1>2, <1>3, <1>4, <1>5, SumStep, SumOfNats
<1>7. Claims(users, acc + inc) <= inc * Stakes(users) + Claims(users, acc)
  BY <1>2, <1>4, <1>5, SumOrder
<1>8. inc * Stakes(users) <= inc * supply
  BY <1>6
<1>9. inc * Stakes(users) \in Int /\ inc * supply \in Int
  BY <1>6
<1> QED BY <1>6, <1>7, <1>8, <1>9

\* new is users with u's record replaced.
Replaced(new, users, u, user) == new = [users EXCEPT ![u] = user]

\* Replacing one account's record changes the sums by that account's part.
LEMMA SettleSums ==
    ASSUME NEW users \in [Accounts -> UserRecord], NEW acc \in Nat, NEW u \in Accounts,
           NEW user \in UserRecord, NEW new, Replaced(new, users, u, user)
    PROVE  /\ Claims(new, acc) = Claims(users, acc) - Claim(users[u], acc) + Claim(user, acc)
           /\ Stakes(new) = Stakes(users) - users[u].amount + user.amount
           /\ Stakes(users) \in Nat /\ users[u].amount <= Stakes(users)
           /\ Claims(users, acc) \in Int
<1> DEFINE claims == [v \in Accounts |-> Claim(users[v], acc)]
           newClaims == [v \in Accounts |-> Claim(new[v], acc)]
           stakes == [v \in Accounts |-> users[v].amount]
           newStakes == [v \in Accounts |-> new[v].amount]
<1>1. new \in [Accounts -> UserRecord] /\ new[u] = user
      /\ \A v \in Accounts : v # u => new[v] = users[v]
  BY DEF Replaced
<1>2. IsFiniteSet(Accounts)
  BY FairLaunchAssumption
<1>3. /\ Claims(users, acc) = SumFunctionOnSet(claims, Accounts)
      /\ Claims(new, acc) = SumFunctionOnSet(newClaims, Accounts)
      /\ Stakes(users) = SumFunctionOnSet(stakes, Accounts)
      /\ Stakes(new) = SumFunctionOnSet(newStakes, Accounts)
  BY DEF Claims, Stakes
<1>4. ASSUME NEW v \in Accounts
      PROVE  /\ claims[v] = Claim(users[v], acc) /\ newClaims[v] = Claim(new[v], acc)
             /\ stakes[v] = users[v].amount /\ newStakes[v] = new[v].amount
             /\ claims[v] \in Int /\ newClaims[v] \in Int
             /\ stakes[v] \in Nat /\ newStakes[v] \in Nat
             /\ v # u => claims[v] = newClaims[v] /\ stakes[v] = newStakes[v]
  <2>1. users[v] \in UserRecord /\ new[v] \in UserRecord
    BY <1>1
  <2>2. users[v].amount \in Nat /\ new[v].amount \in Nat
    BY <2>1 DEF UserRecord
  <2>3. Claim(users[v], acc) \in Int /\ Claim(new[v], acc) \in Int
    BY <2>1, ClaimType
  <2> QED BY <1>1, <2>2, <2>3
<1> HIDE DEF claims, newClaims, stakes, newStakes
<1>5. Differ(claims, newClaims, Accounts, u)
  BY <1>4 DEF Differ
<1>6. Differ(stakes, newStakes, Accounts, u) /\ NatOn(stakes, Accounts)
  BY <1>4 DEF Differ, NatOn
<1>7. /\ SumFunctionOnSet(claims, Accounts) \in Int
      /\ SumFunctionOnSet(newClaims, Accounts)
           = SumFunctionOnSet(claims, Accounts) - claims[u] + newClaims[u]
  BY <1>2, <1>5, SumChange
<1>8. SumFunctionOnSet(newStakes, Accounts)
        = SumFunctionOnSet(stakes, Accounts) - stakes[u] + newStakes[u]
  BY <1>2, <1>6, SumChange
<1>9. SumFunctionOnSet(stakes, Accounts) \in Nat
      /\ stakes[u] <= SumFunctionOnSet(stakes, Accounts)
  BY <1>2, <1>6, SumOfNats
<1> QED BY <1>1, <1>3, <1>4, <1>7, <1>8, <1>9
-----------------------------------------------------------------------------
(* updatePool. *)

\* A pool's part of the rewards of past blocks is a natural number.
LEMMA ShareType ==
    ASSUME TypeOK, NEW p \in Pools, totalAllocPoint > 0, NEW m \in Nat
    PROVE  Share(p, m) \in Nat
<1>1. huskyPerBlock \in Nat /\ poolInfo[p].allocPoint \in Nat /\ totalAllocPoint \in Nat \ {0}
  BY DEF TypeOK, PoolRecord
<1>2. m * huskyPerBlock \in Nat
  BY <1>1
<1>3. m * huskyPerBlock * poolInfo[p].allocPoint \in Nat
  BY <1>1, <1>2
<1> QED BY <1>1, <1>3, FloorBounds DEF Share

\* The blocks since the last update, weighted with the bonus, are a natural number.
LEMMA MultiplierType ==
    ASSUME TypeOK, NEW from \in Nat, block > from
    PROVE  /\ getMultiplier(from, block) \in Nat
           /\ block > bonus.endBlock /\ from < bonus.endBlock
                => (bonus.endBlock - from) * bonus.multiplier \in Nat
<1>1. block \in Nat /\ bonus.endBlock \in Nat /\ bonus.multiplier \in Nat
  BY DEF TypeOK
<1>2. CASE block <= bonus.endBlock
  <2>1. block - from \in Nat
    BY <1>1
  <2>2. (block - from) * bonus.multiplier \in Nat
    BY <1>1, <2>1
  <2> QED BY <1>1, <1>2, <2>2 DEF getMultiplier
<1>3. CASE ~(block <= bonus.endBlock) /\ from >= bonus.endBlock
  BY <1>1, <1>3 DEF getMultiplier
<1>4. CASE ~(block <= bonus.endBlock) /\ ~(from >= bonus.endBlock)
  <2>1. bonus.endBlock - from \in Nat /\ block - bonus.endBlock \in Nat
    BY <1>1, <1>4
  <2>2. (bonus.endBlock - from) * bonus.multiplier \in Nat
    BY <1>1, <2>1
  <2>3. getMultiplier(from, block)
          = (bonus.endBlock - from) * bonus.multiplier + (block - bonus.endBlock)
    BY <1>1, <1>4 DEF getMultiplier
  <2> QED BY <2>1, <2>2, <2>3
<1> QED BY <1>2, <1>3, <1>4

\* The reward of a due pool and the bonus in it are natural numbers.
LEMMA RewardType ==
    ASSUME TypeOK, NEW p \in Pools, Due(p), totalAllocPoint > 0
    PROVE  huskyReward(p) \in Nat /\ BonusPortion(p) \in Nat
<1>1. block \in Nat /\ poolInfo[p].lastRewardBlock \in Nat /\ bonus.endBlock \in Nat
  BY DEF TypeOK, PoolRecord
<1>2. block > poolInfo[p].lastRewardBlock
  BY DEF Due
<1>3. huskyReward(p) \in Nat
  BY <1>1, <1>2, MultiplierType, ShareType DEF huskyReward
<1>4. BonusPortion(p) \in Nat
  <2>1. CASE block <= bonus.endBlock
    BY <2>1, <1>1, <1>3 DEF BonusPortion
  <2>2. CASE ~(block <= bonus.endBlock) /\ poolInfo[p].lastRewardBlock < bonus.endBlock
    <3> DEFINE m == (bonus.endBlock - poolInfo[p].lastRewardBlock) * bonus.multiplier
    <3>1. m \in Nat
      BY <1>1, <1>2, <2>2, MultiplierType
    <3> HIDE DEF m
    <3>2. Share(p, m) \in Nat
      BY <3>1, ShareType
    <3> QED BY <3>2, <2>2, <1>1 DEF BonusPortion, m
  <2>3. CASE ~(block <= bonus.endBlock) /\ ~(poolInfo[p].lastRewardBlock < bonus.endBlock)
    BY <2>3, <1>1 DEF BonusPortion
  <2> QED BY <2>1, <2>2, <2>3
<1> QED BY <1>3, <1>4

\* An update raises acc by what the reward is worth per share, rounded down: the
\* claims of the pool grow by no more than the HUSKI that is minted for them.
LEMMA UpdatedFacts ==
    ASSUME TypeOK, StakesHeld, NEW p \in Pools, Rewarding(p) => totalAllocPoint > 0
    PROVE  /\ MintedBy(p) \in Nat
           /\ updatedPool(p) \in PoolRecord
           /\ updatedPool(p).added = poolInfo[p].added
           /\ updatedPool(p).allocPoint = poolInfo[p].allocPoint
           /\ updatedPool(p).lastRewardBlock >= block
           /\ updatedPool(p).acc >= poolInfo[p].acc
           /\ PoolClaims(p) \in Int
           /\ Claims(userInfo[p], updatedPool(p).acc) \in Int
           /\ Claims(userInfo[p], updatedPool(p).acc) <= PoolClaims(p) + PRECISION * MintedBy(p)
<1> DEFINE pool == poolInfo[p]
<1>1. /\ pool \in PoolRecord /\ pool.acc \in Nat /\ pool.lastRewardBlock \in Nat
      /\ block \in Nat /\ lpSupply[p] \in Nat /\ userInfo[p] \in [Accounts -> UserRecord]
      /\ Stakes(userInfo[p]) <= lpSupply[p] /\ PRECISION \in Nat \ {0}
  BY FairLaunchAssumption DEF TypeOK, PoolRecord, StakesHeld
<1>2. PoolClaims(p) \in Int /\ PoolClaims(p) = Claims(userInfo[p], pool.acc)
  BY <1>1, ClaimsGrow DEF PoolClaims
<1>3. CASE ~Rewarding(p)
  <2>1. MintedBy(p) = 0
    BY <1>3 DEF MintedBy
  <2>2. CASE ~Due(p)
    <3>1. updatedPool(p) = pool
      BY <2>2 DEF updatedPool
    <3>2. pool.lastRewardBlock >= block
      BY <2>2, <1>1 DEF Due
    <3> QED BY <3>1, <3>2, <2>1, <1>1, <1>2
  <2>3. CASE Due(p) /\ lpSupply[p] = 0
    <3>1. updatedPool(p) = [pool EXCEPT !.lastRewardBlock = block]
      BY <2>3 DEF updatedPool
    <3>2. /\ updatedPool(p) \in PoolRecord /\ updatedPool(p).acc = pool.acc
          /\ updatedPool(p).added = pool.added /\ updatedPool(p).allocPoint = pool.allocPoint
          /\ updatedPool(p).lastRewardBlock = block
      BY <3>1, <1>1 DEF PoolRecord
    <3> QED BY <3>2, <2>1, <1>1, <1>2
  <2> QED BY <2>2, <2>3, <1>3 DEF Rewarding
<1>4. CASE Rewarding(p)
  <2> DEFINE reward == huskyReward(p)
             inc == PerShare(reward, p)
             til == IF block <= bonus.endBlock THEN pool.acc + inc
                    ELSE pool.accTilBonusEnd + PerShare(BonusPortion(p), p)
  <2>1. Due(p) /\ lpSupply[p] \in Nat \ {0} /\ totalAllocPoint > 0
    BY <1>1, <1>4 DEF Rewarding
  <2>2. reward \in Nat /\ BonusPortion(p) \in Nat /\ MintedBy(p) = reward
    BY <2>1, <1>4, RewardType DEF MintedBy
  <2>3. ASSUME NEW r \in Nat
        PROVE  PerShare(r, p) \in Nat /\ lpSupply[p] * PerShare(r, p) <= r * PRECISION
    <3>1. r * PRECISION \in Nat
      BY <1>1
    <3> QED BY <3>1, <2>1, FloorBounds DEF PerShare
  <2>4. inc \in Nat /\ lpSupply[p] * inc <= reward * PRECISION
    BY <2>2, <2>3
  <2>5. til \in Nat
    <3>1. pool.accTilBonusEnd \in Nat /\ PerShare(BonusPortion(p), p) \in Nat
      BY <1>1, <2>2, <2>3 DEF PoolRecord
    <3> QED BY <3>1, <2>4, <1>1
  <2>6. updatedPool(p) = [pool EXCEPT !.acc = pool.acc + inc, !.accTilBonusEnd = til,
                                      !.lastRewardBlock = block]
    <3>1. updatedPool(p) = [pool EXCEPT !.acc = pool.acc + inc,
             !.accTilBonusEnd = IF block <= bonus.endBlock THEN pool.acc + inc
                                ELSE @ + PerShare(BonusPortion(p), p),
             !.lastRewardBlock = block]
      BY <2>1 DEF updatedPool
    <3> QED BY <3>1, <1>1 DEF PoolRecord
  <2> HIDE DEF inc, til, reward
  <2>7. pool.acc + inc \in Nat
    BY <1>1, <2>4
  <2>8. /\ updatedPool(p) \in PoolRecord /\ updatedPool(p).acc = pool.acc + inc
        /\ updatedPool(p).added = pool.added /\ updatedPool(p).allocPoint = pool.allocPoint
        /\ updatedPool(p).lastRewardBlock = block
    BY <2>5, <2>6, <2>7, <1>1 DEF PoolRecord
  <2>9. /\ Claims(userInfo[p], pool.acc + inc) \in Int
        /\ Claims(userInfo[p], pool.acc + inc) <= Claims(userInfo[p], pool.acc) + inc * lpSupply[p]
    BY <1>1, <2>4, ClaimsGrow
  <2>10. inc * lpSupply[p] <= PRECISION * reward
    BY <1>1, <2>2, <2>4
  <2>11. inc * lpSupply[p] \in Int /\ PRECISION * reward \in Int
    BY <1>1, <2>2, <2>4
  <2>12. Claims(userInfo[p], pool.acc + inc) <= PoolClaims(p) + PRECISION * reward
    BY <1>2, <2>9, <2>10, <2>11
  <2>13. pool.acc + inc >= pool.acc
    BY <1>1, <2>4
  <2> QED BY <1>1, <1>2, <2>2, <2>8, <2>9, <2>12, <2>13
<1> QED BY <1>3, <1>4

\* The same where the code lets the update happen.
LEMMA UpdateFacts ==
    ASSUME TypeOK, StakesHeld, NEW p \in Pools, CanUpdate(p)
    PROVE  /\ MintedBy(p) \in Nat
           /\ updatedPool(p) \in PoolRecord
           /\ updatedPool(p).added = poolInfo[p].added
           /\ updatedPool(p).allocPoint = poolInfo[p].allocPoint
           /\ updatedPool(p).lastRewardBlock >= block
           /\ updatedPool(p).acc >= poolInfo[p].acc
           /\ PoolClaims(p) \in Int
           /\ Claims(userInfo[p], updatedPool(p).acc) \in Int
           /\ Claims(userInfo[p], updatedPool(p).acc) <= PoolClaims(p) + PRECISION * MintedBy(p)
<1>1. Rewarding(p) => totalAllocPoint > 0
  BY DEF CanUpdate
<1> QED BY <1>1, UpdatedFacts
-----------------------------------------------------------------------------
(* The steps. *)

\* So is the sum of the claims on a pool.
LEMMA PoolClaimsType ==
    ASSUME TypeOK, NEW p \in Pools
    PROVE  PoolClaims(p) \in Int
<1>1. userInfo[p] \in [Accounts -> UserRecord] /\ poolInfo[p].acc \in Nat
  BY DEF TypeOK, PoolRecord
<1> DEFINE claims == [u \in Accounts |-> Claim(userInfo[p][u], poolInfo[p].acc)]
<1>2. \A u \in Accounts : claims[u] \in Int
  BY <1>1, ClaimType
<1>3. SumFunctionOnSet(claims, Accounts) \in Int
  BY <1>2, FairLaunchAssumption, SumStep
<1> QED BY <1>3 DEF PoolClaims, Claims

\* A step that touches one pool changes the total by that pool's claims.
LEMMA TotalChange ==
    ASSUME TypeOK, TypeOK', NEW p \in Pools,
           \A q \in Pools : q # p => /\ userInfo'[q] = userInfo[q]
                                     /\ poolInfo'[q].acc = poolInfo[q].acc
    PROVE  /\ TotalClaims \in Int
           /\ TotalClaims' = TotalClaims - PoolClaims(p) + PoolClaims(p)'
<1> DEFINE before == [q \in Pools |-> PoolClaims(q)]
           after  == [q \in Pools |-> PoolClaims(q)']
<1>1. ASSUME NEW q \in Pools
      PROVE  /\ PoolClaims(q) \in Int /\ PoolClaims(q)' \in Int
             /\ q # p => PoolClaims(q)' = PoolClaims(q)
  <2>1. PoolClaims(q) \in Int
    BY PoolClaimsType
  <2>2. PoolClaims(q)' \in Int
    <3>1. userInfo'[q] \in [Accounts -> UserRecord] /\ poolInfo'[q].acc \in Nat
      BY DEF TypeOK, PoolRecord
    <3> DEFINE claims == [u \in Accounts |-> Claim(userInfo'[q][u], poolInfo'[q].acc)]
    <3>2. \A u \in Accounts : claims[u] \in Int
      BY <3>1, ClaimType
    <3>3. SumFunctionOnSet(claims, Accounts) \in Int
      BY <3>2, FairLaunchAssumption, SumStep
    <3> QED BY <3>3 DEF PoolClaims, Claims
  <2>3. q # p => PoolClaims(q)' = PoolClaims(q)
    BY DEF PoolClaims
  <2> QED BY <2>1, <2>2, <2>3
<1>2. Differ(before, after, Pools, p) /\ before[p] = PoolClaims(p) /\ after[p] = PoolClaims(p)'
  BY <1>1 DEF Differ
<1>3. TotalClaims = SumFunctionOnSet(before, Pools) /\ TotalClaims' = SumFunctionOnSet(after, Pools)
  BY DEF TotalClaims
<1>4. IsFiniteSet(Pools)
  BY FairLaunchAssumption
<1> HIDE DEF before, after
<1>5. /\ SumFunctionOnSet(before, Pools) \in Int
      /\ SumFunctionOnSet(after, Pools) = SumFunctionOnSet(before, Pools) - before[p] + after[p]
  BY <1>2, <1>4, SumChange
<1> QED BY <1>2, <1>3, <1>5

\* An update of one pool mints what that pool's blocks are owed.
LEMMA MintedForOne ==
    ASSUME NEW p, MintedBy(p) \in Int
    PROVE  MintedFor({p}) = MintedBy(p)
<1> DEFINE f == [q \in {p} |-> MintedBy(q)]
<1>1. f[p] = MintedBy(p)
  OBVIOUS
<1> HIDE DEF f
<1>2. SumFunctionOnSet(f, {p}) = f[p]
  BY <1>1, SumOfOne
<1> QED BY <1>1, <1>2 DEF MintedFor, f

\* What the contract holds for claims, after m was minted, n paid and a debt rounded.
LEMMA CoverGrows ==
    ASSUME NEW h \in Nat, NEW b \in Nat, NEW o \in Nat, NEW m \in Nat, NEW n \in Nat,
           NEW h1, NEW o1, h1 = (h + m) - n, o1 = o + 1
    PROVE  /\ Cover(h1, b, o1) = Cover(h, b, o) + PRECISION * m - PRECISION * n + PRECISION
           /\ Cover(h, b, o) \in Int
<1> DEFINE had == h - b + o
<1>1. h1 - b + o1 = had + ((m - n) + 1) /\ had \in Int
  OBVIOUS
<1>2. PRECISION \in Int
  BY FairLaunchAssumption
<1>3. Cover(h, b, o) = PRECISION * had /\ Cover(h1, b, o1) = PRECISION * (had + ((m - n) + 1))
  BY <1>1 DEF Cover
<1> HIDE DEF had
<1>4. PRECISION * ((m - n) + 1) = PRECISION * m - PRECISION * n + PRECISION
  BY <1>2, Distribute
<1>5. PRECISION * (had + ((m - n) + 1)) = PRECISION * had + PRECISION * ((m - n) + 1)
  BY <1>1, <1>2, Distribute
<1>6. PRECISION * had \in Int /\ PRECISION * m \in Int /\ PRECISION * n \in Int
  BY <1>1, <1>2
<1> QED BY <1>2, <1>3, <1>4, <1>5, <1>6

\* The same for a step that settles an account with pool p.
LEMMA CoverSettles ==
    ASSUME NEW p, NEW paid \in Nat, MintedBy(p) \in Nat,
           husky \in Nat, badgeLocked \in Nat, ops \in Nat,
           husky' = (husky + MintedBy(p)) - paid, ops' = ops + 1, badgeLocked' = badgeLocked
    PROVE  Cover(husky', badgeLocked', ops')
             = Cover(husky, badgeLocked, ops) + PRECISION * MintedBy(p) - PRECISION * paid
                 + PRECISION
BY CoverGrows

\* deposit, withdraw and harvest: the pool is updated, the account is paid no
\* more than its claim, its record replaced by user, and the stakes held become
\* supply.
Settles(p, u, user, paid, supply) ==
    /\ poolInfo[p].added /\ CanUpdate(p)
    /\ user.rewardDebt = Entitled(user.amount, updatedPool(p).acc)
    /\ PRECISION * paid <= Claim(userInfo[p][u], updatedPool(p).acc)
    /\ paid <= husky + MintedBy(p)
    /\ supply - user.amount = lpSupply[p] - userInfo[p][u].amount
    /\ poolInfo' = [poolInfo EXCEPT ![p] = updatedPool(p)]
    /\ userInfo' = [userInfo EXCEPT ![p][u] = user]
    /\ lpSupply' = [lpSupply EXCEPT ![p] = supply]
    /\ husky' = (husky + MintedBy(p)) - paid
    /\ rewards' = rewards + MintedFor({p}) /\ ops' = ops + 1
    /\ UNCHANGED <<block, totalAllocPoint, settings, badgeLocked>>

\* Such a step sets the reward debt to what the account is entitled to, rounded
\* down, which leaves it a claim of less than one unit.
LEMMA SettleStep ==
    ASSUME IInv, NEW p \in Pools, NEW u \in Accounts, NEW user \in UserRecord,
           NEW paid \in Nat, NEW supply \in Nat, Settles(p, u, user, paid, supply)
    PROVE  IInv'
<1> USE DEF Settles
<1> DEFINE pool == updatedPool(p)
           old == userInfo[p][u]
           users == [userInfo[p] EXCEPT ![u] = user]
<1>1. TypeOK /\ StakesHeld
  BY DEF IInv
<1>2. /\ MintedBy(p) \in Nat /\ pool \in PoolRecord
      /\ pool.added = poolInfo[p].added /\ pool.allocPoint = poolInfo[p].allocPoint
      /\ pool.acc >= poolInfo[p].acc
      /\ PoolClaims(p) \in Int /\ Claims(userInfo[p], pool.acc) \in Int
      /\ Claims(userInfo[p], pool.acc) <= PoolClaims(p) + PRECISION * MintedBy(p)
  BY <1>1, UpdateFacts
<1>3. /\ poolInfo \in [Pools -> PoolRecord] /\ userInfo \in [Pools -> [Accounts -> UserRecord]]
      /\ lpSupply \in [Pools -> Nat] /\ userInfo[p] \in [Accounts -> UserRecord]
      /\ old \in UserRecord /\ old.amount \in Nat /\ user.amount \in Nat /\ pool.acc \in Nat
      /\ husky \in Nat /\ badgeLocked \in Nat /\ ops \in Nat /\ rewards \in Nat
      /\ PRECISION \in Nat \ {0}
  BY <1>1, <1>2, FairLaunchAssumption DEF TypeOK, PoolRecord, UserRecord
<1> HIDE DEF pool
<1>4. /\ poolInfo' = [poolInfo EXCEPT ![p] = pool] /\ poolInfo'[p] = pool
      /\ \A q \in Pools : q # p => poolInfo'[q] = poolInfo[q]
  BY <1>3 DEF pool
<1>5. /\ userInfo'[p] = users
      /\ \A q \in Pools : q # p => userInfo'[q] = userInfo[q]
      /\ \A v \in Accounts : v # u => userInfo'[p][v] = userInfo[p][v]
      /\ userInfo'[p][u] = user
  BY <1>3
<1>6. TypeOK'
  <2>1. poolInfo' \in [Pools -> PoolRecord]
    BY <1>2, <1>3, <1>4
  <2>2. userInfo' \in [Pools -> [Accounts -> UserRecord]]
    BY <1>3
  <2>3. lpSupply' \in [Pools -> Nat]
    BY <1>3
  <2>4. husky' \in Nat /\ ops' \in Nat
    BY <1>2, <1>3
  <2>5. rewards' \in Nat
    BY <1>2, <1>3, MintedForOne
  <2> QED BY <1>1, <2>1, <2>2, <2>3, <2>4, <2>5 DEF TypeOK, settings
<1>7. /\ Claims(users, pool.acc)
           = Claims(userInfo[p], pool.acc) - Claim(old, pool.acc) + Claim(user, pool.acc)
      /\ Stakes(users) = Stakes(userInfo[p]) - old.amount + user.amount
      /\ Stakes(userInfo[p]) \in Nat /\ old.amount <= Stakes(userInfo[p])
  <2>1. Replaced(users, userInfo[p], u, user)
    BY DEF Replaced
  <2> HIDE DEF users
  <2> QED BY <2>1, <1>3, SettleSums
<1>8. Claim(user, pool.acc) \in 0..(PRECISION - 1)
  <2> DEFINE x == user.amount * pool.acc
             d == x \div PRECISION
  <2>1. x \in Nat
    BY <1>3
  <2> HIDE DEF x
  <2>2. d \in Nat /\ PRECISION * d <= x /\ x < PRECISION * d + PRECISION
    BY <2>1, <1>3, FloorBounds
  <2>3. Claim(user, pool.acc) = x - PRECISION * d
    BY DEF Claim, Entitled, x, pool
  <2>4. PRECISION * d \in Int
    BY <2>2, <1>3
  <2> HIDE DEF d
  <2> QED BY <2>1, <2>2, <2>3, <2>4, <1>3
<1>9. StakesHeld'
  <2> SUFFICES ASSUME NEW q \in Pools PROVE Stakes(userInfo'[q]) <= lpSupply'[q]
    BY DEF StakesHeld, Stakes
  <2>1. CASE q = p
    <3>1. Stakes(userInfo[p]) <= lpSupply[p] /\ lpSupply[p] \in Nat
      BY <1>1, <1>3 DEF StakesHeld
    <3>2. lpSupply'[p] = supply
      BY <1>3
    <3>3. Stakes(userInfo'[p]) = Stakes(userInfo[p]) - old.amount + user.amount
      BY <1>5, <1>7
    <3> QED BY <2>1, <3>1, <3>2, <3>3, <1>3, <1>7
  <2>2. CASE q # p
    BY <2>2, <1>1, <1>3, <1>5 DEF StakesHeld
  <2> QED BY <2>1, <2>2
<1>10. PoolsWellFormed'
  <2> SUFFICES ASSUME NEW q \in Pools, ~poolInfo'[q].added
               PROVE  /\ poolInfo'[q].acc = 0 /\ poolInfo'[q].allocPoint = 0
                      /\ \A v \in Accounts : userInfo'[q][v].amount = 0
    BY DEF PoolsWellFormed
  <2>1. q # p
    BY <1>2, <1>4
  <2> QED BY <2>1, <1>4, <1>5 DEF IInv, PoolsWellFormed
<1>11. ClaimsNotNegative'
  <2> SUFFICES ASSUME NEW q \in Pools, NEW v \in Accounts
               PROVE  Claim(userInfo'[q][v], poolInfo'[q].acc) >= 0
    BY DEF ClaimsNotNegative, Claim
  <2>1. CASE q # p
    BY <2>1, <1>4, <1>5 DEF IInv, ClaimsNotNegative
  <2>2. CASE q = p /\ v = u
    BY <2>2, <1>4, <1>5, <1>8, <1>3
  <2>3. CASE q = p /\ v # u
    <3> DEFINE other == userInfo[p][v]
    <3>1. other \in UserRecord /\ other.amount \in Nat /\ other.rewardDebt \in Nat
          /\ poolInfo[p].acc \in Nat
      BY <1>3 DEF UserRecord, PoolRecord
    <3>2. Claim(other, poolInfo[p].acc) >= 0
      BY DEF IInv, ClaimsNotNegative
    <3>3. other.amount * pool.acc >= other.amount * poolInfo[p].acc
      BY <3>1, <1>2, <1>3, MulMono
    <3>4. /\ other.amount * pool.acc \in Int /\ other.amount * poolInfo[p].acc \in Int
          /\ PRECISION * other.rewardDebt \in Int
      BY <3>1, <1>3
    <3>5. Claim(other, pool.acc) >= 0
      BY <3>2, <3>3, <3>4 DEF Claim
    <3> QED BY <2>3, <3>5, <1>4, <1>5
  <2> QED BY <2>1, <2>2, <2>3
<1>12. ClaimsCovered'
  <2>1. TotalClaims \in Int /\ TotalClaims' = TotalClaims - PoolClaims(p) + PoolClaims(p)'
    BY <1>1, <1>4, <1>5, <1>6, TotalChange
  <2>2. PoolClaims(p)' = Claims(users, pool.acc)
    BY <1>4, <1>5 DEF PoolClaims, Claims
  <2>3. Claim(old, pool.acc) \in Int
    BY <1>3, ClaimType
  <2>4. PRECISION * paid \in Int /\ PRECISION * MintedBy(p) \in Int
        /\ PRECISION * paid <= Claim(old, pool.acc)
    BY <1>2, <1>3 DEF pool
  <2>5. TotalClaims' <= TotalClaims + PRECISION * MintedBy(p) - PRECISION * paid + PRECISION
    BY <2>1, <2>2, <2>3, <2>4, <1>2, <1>3, <1>7, <1>8
  <2>6. Cover(husky', badgeLocked', ops')
          = Cover(husky, badgeLocked, ops) + PRECISION * MintedBy(p)
              - PRECISION * paid + PRECISION
    <3>1. badgeLocked' = badgeLocked
      OBVIOUS
    <3>2. PRECISION \in Nat /\ MintedBy(p) \in Nat /\ husky' = (husky + MintedBy(p)) - paid
      BY <1>2, <1>3
    <3> QED BY <3>1, <3>2, <1>3, CoverSettles
  <2>7. TotalClaims <= Cover(husky, badgeLocked, ops)
        /\ Cover(husky, badgeLocked, ops) \in Int
    BY <1>3 DEF IInv, ClaimsCovered, Cover
  <2>8. TotalClaims' <= Cover(husky', badgeLocked', ops')
    <3>1. TotalClaims' \in Int
      BY <2>1, <2>2, <2>3, <1>2, <1>7, <1>8, <1>3
    <3> QED BY <2>1, <2>4, <2>5, <2>6, <2>7, <3>1, <1>3
  <2> QED BY <2>8 DEF ClaimsCovered, Cover
<1>13. WeightsAddUp'
  <2> DEFINE a == [q \in Pools |-> poolInfo[q].allocPoint]
             b == [q \in Pools |-> poolInfo'[q].allocPoint]
  <2>1. a = b
    BY <1>2, <1>4
  <2> QED BY <2>1 DEF IInv, WeightsAddUp
<1> QED BY <1>6, <1>9, <1>10, <1>11, <1>12, <1>13 DEF IInv

\* A claim grows with acc.
LEMMA ClaimMono ==
    ASSUME NEW user \in UserRecord, NEW a \in Nat, NEW b \in Nat, a <= b
    PROVE  Claim(user, a) <= Claim(user, b)
<1>1. user.amount \in Nat /\ user.rewardDebt \in Nat /\ PRECISION \in Nat
  BY FairLaunchAssumption DEF UserRecord
<1>2. user.amount * a <= user.amount * b /\ user.amount * a \in Nat /\ user.amount * b \in Nat
  BY <1>1, MulMono
<1>3. PRECISION * user.rewardDebt \in Int
  BY <1>1
<1> QED BY <1>2, <1>3 DEF Claim

\* The pending reward is the claim rounded down.
LEMMA PendingFloor ==
    ASSUME NEW user \in UserRecord, NEW pool, pool.acc \in Nat, Claim(user, pool.acc) >= 0
    PROVE  /\ Pending(user, pool) \in Nat
           /\ PRECISION * Pending(user, pool) <= Claim(user, pool.acc)
           /\ user.amount = 0 => Pending(user, pool) = 0
<1> DEFINE x == user.amount * pool.acc
           e == x \div PRECISION
           d == user.rewardDebt
<1>1. x \in Nat /\ d \in Nat /\ PRECISION \in Nat \ {0} /\ (user.amount = 0 => x = 0)
  BY FairLaunchAssumption DEF UserRecord
<1>2. Pending(user, pool) = e - d /\ Claim(user, pool.acc) = x - PRECISION * d
  BY DEF Pending, Entitled, Claim
<1> HIDE DEF x, d
<1>3. e \in Nat /\ PRECISION * e <= x /\ x < PRECISION * e + PRECISION /\ (x = 0 => e = 0)
  BY <1>1, FloorBounds
<1> HIDE DEF e
<1>4. PRECISION * e \in Int /\ PRECISION * d \in Int
  BY <1>1, <1>3
<1>5. PRECISION * d < PRECISION * e + PRECISION
  BY <1>1, <1>2, <1>3, <1>4
<1>6. d <= e
  <2> SUFFICES ASSUME d >= e + 1 PROVE FALSE
    BY <1>1, <1>3
  <2>1. PRECISION * (e + 1) <= PRECISION * d
    BY <1>1, <1>3, MulMono
  <2>2. PRECISION * (e + 1) = PRECISION * e + PRECISION
    BY <1>1, <1>3
  <2> QED BY <2>1, <2>2, <1>4, <1>5, <1>1
<1>7. PRECISION * (e - d) = PRECISION * e - PRECISION * d
  BY <1>1, <1>3, Distribute
<1>8. PRECISION * (e - d) <= x - PRECISION * d
  BY <1>1, <1>3, <1>4, <1>7
<1> QED BY <1>1, <1>2, <1>3, <1>6, <1>8

\* An account's claim on the updated pool: what _harvest pays of it.
LEMMA HarvestFacts ==
    ASSUME IInv, NEW p \in Pools, NEW u \in Accounts, CanUpdate(p)
    PROVE  /\ MintedBy(p) \in Nat /\ updatedPool(p).acc \in Nat /\ updatedPool(p) \in PoolRecord
           /\ userInfo[p][u] \in UserRecord /\ userInfo[p][u].amount \in Nat
           /\ Claim(userInfo[p][u], updatedPool(p).acc) >= 0
           /\ Pending(userInfo[p][u], updatedPool(p)) \in Nat
           /\ PRECISION * Pending(userInfo[p][u], updatedPool(p))
                <= Claim(userInfo[p][u], updatedPool(p).acc)
<1>1. /\ MintedBy(p) \in Nat /\ updatedPool(p) \in PoolRecord
      /\ updatedPool(p).acc >= poolInfo[p].acc
  BY UpdateFacts DEF IInv
<1>2. /\ updatedPool(p).acc \in Nat /\ poolInfo[p].acc \in Nat
      /\ userInfo[p][u] \in UserRecord /\ userInfo[p][u].amount \in Nat
  BY <1>1 DEF IInv, TypeOK, PoolRecord, UserRecord
<1>3. Claim(userInfo[p][u], poolInfo[p].acc) >= 0
  BY DEF IInv, ClaimsNotNegative
<1>4. /\ Claim(userInfo[p][u], poolInfo[p].acc) \in Int
      /\ Claim(userInfo[p][u], updatedPool(p).acc) \in Int
      /\ Claim(userInfo[p][u], poolInfo[p].acc) <= Claim(userInfo[p][u], updatedPool(p).acc)
  BY <1>1, <1>2, ClaimType, ClaimMono
<1>5. Claim(userInfo[p][u], updatedPool(p).acc) >= 0
  BY <1>3, <1>4
<1> QED BY <1>1, <1>2, <1>5, PendingFloor

\* The record of an account that has been settled.
LEMMA ResettledFacts ==
    ASSUME NEW user \in UserRecord, NEW pool \in PoolRecord, NEW amount \in Nat
    PROVE  /\ Resettled(user, pool, amount) \in UserRecord
           /\ Resettled(user, pool, amount).amount = amount
           /\ Resettled(user, pool, amount).rewardDebt = Entitled(amount, pool.acc)
<1>1. amount * pool.acc \in Nat /\ amount * pool.accTilBonusEnd \in Nat
      /\ PRECISION \in Nat \ {0}
  BY FairLaunchAssumption DEF PoolRecord
<1>2. Entitled(amount, pool.acc) \in Nat /\ Entitled(amount, pool.accTilBonusEnd) \in Nat
  BY <1>1, FloorBounds DEF Entitled
<1> DEFINE a == Entitled(amount, pool.acc)
           b == Entitled(amount, pool.accTilBonusEnd)
<1>3. Resettled(user, pool, amount) =
        [user EXCEPT !.amount = amount, !.rewardDebt = a, !.bonusDebt = b]
  BY DEF Resettled, RewardDebt, BonusDebt
<1> HIDE DEF a, b
<1>4. [user EXCEPT !.amount = amount, !.rewardDebt = a, !.bonusDebt = b] \in UserRecord
  BY <1>2 DEF UserRecord, a, b
<1>5. /\ [user EXCEPT !.amount = amount, !.rewardDebt = a, !.bonusDebt = b].amount = amount
      /\ [user EXCEPT !.amount = amount, !.rewardDebt = a, !.bonusDebt = b].rewardDebt = a
  BY DEF UserRecord
<1> QED BY <1>3, <1>4, <1>5 DEF a

\* harvest keeps the invariant.
LEMMA HarvestInv ==
    ASSUME IInv, NEW u \in Accounts, NEW p \in Pools, harvest(u, p)
    PROVE  IInv'
<1> DEFINE old == userInfo[p][u]
           pool == updatedPool(p)
           user == Resettled(old, pool, old.amount)
           paid == Pending(old, pool)
           supply == lpSupply[p]
<1>1. p \in Added /\ CanUpdate(p)
  BY DEF harvest
<1>2. /\ MintedBy(p) \in Nat /\ pool \in PoolRecord /\ old \in UserRecord /\ old.amount \in Nat
      /\ paid \in Nat /\ PRECISION * paid <= Claim(old, pool.acc)
  BY <1>1, HarvestFacts
<1>3. user \in UserRecord /\ user.amount = old.amount
      /\ user.rewardDebt = Entitled(user.amount, pool.acc)
  BY <1>2, ResettledFacts
<1>4. supply \in Nat /\ lpSupply \in [Pools -> Nat]
  BY DEF IInv, TypeOK
<1>5. paid <= husky + MintedBy(p)
  BY DEF harvest, CanHarvest
<1>6. lpSupply' = [lpSupply EXCEPT ![p] = supply]
  BY <1>4 DEF harvest
<1>7. /\ poolInfo' = [poolInfo EXCEPT ![p] = pool]
      /\ userInfo' = [userInfo EXCEPT ![p][u] = user]
      /\ husky' = (husky + MintedBy(p)) - paid
      /\ rewards' = rewards + MintedFor({p}) /\ ops' = ops + 1
      /\ UNCHANGED <<block, totalAllocPoint, settings, badgeLocked>>
  BY DEF harvest, Mints
<1>8. poolInfo[p].added
  BY <1>1 DEF Added
<1>9. supply - user.amount = lpSupply[p] - old.amount
  BY <1>3
<1> HIDE DEF user
<1>10. Settles(p, u, user, paid, supply)
  BY <1>1, <1>2, <1>3, <1>5, <1>6, <1>7, <1>8, <1>9 DEF Settles
<1> HIDE DEF paid, supply, pool, old
<1> QED BY <1>2, <1>3, <1>4, <1>10, SettleStep

\* deposit keeps the invariant: a deposit into a new account pays nothing.
LEMMA DepositInv ==
    ASSUME IInv, NEW sender \in Accounts, NEW for \in Accounts, NEW p \in Pools,
           NEW amount \in Amounts, deposit(sender, for, p, amount)
    PROVE  IInv'
<1> DEFINE old == userInfo[p][for]
           pool == updatedPool(p)
           res == Resettled(old, pool, old.amount + amount)
           user == [res EXCEPT !.fundedBy = sender]
           paid == IF old.amount > 0 THEN Pending(old, pool) ELSE 0
           supply == lpSupply[p] + amount
<1>1. p \in Added /\ CanUpdate(p) /\ amount \in Nat
  BY FairLaunchAssumption DEF deposit
<1>2. /\ MintedBy(p) \in Nat /\ pool \in PoolRecord /\ old \in UserRecord /\ old.amount \in Nat
      /\ Pending(old, pool) \in Nat /\ PRECISION * Pending(old, pool) <= Claim(old, pool.acc)
      /\ Claim(old, pool.acc) >= 0
  BY <1>1, HarvestFacts
<1>3. PRECISION \in Nat /\ husky \in Nat
  BY FairLaunchAssumption DEF IInv, TypeOK
<1>4. paid \in Nat /\ PRECISION * paid <= Claim(old, pool.acc)
  BY <1>2, <1>3
<1>5. res \in UserRecord /\ res.amount = old.amount + amount
      /\ res.rewardDebt = Entitled(res.amount, pool.acc)
  <2> DEFINE total == old.amount + amount
  <2>1. total \in Nat
    BY <1>1, <1>2
  <2> HIDE DEF total
  <2>2. LET r == Resettled(old, pool, total)
        IN  r \in UserRecord /\ r.amount = total /\ r.rewardDebt = Entitled(total, pool.acc)
    BY <1>2, <2>1, ResettledFacts
  <2> QED BY <2>2 DEF total
<1>6. user \in UserRecord /\ user.amount = old.amount + amount
      /\ user.rewardDebt = Entitled(user.amount, pool.acc)
  <2> HIDE DEF res, pool, old
  <2> QED BY <1>5 DEF UserRecord
<1>7. supply \in Nat /\ lpSupply \in [Pools -> Nat]
  BY <1>1 DEF IInv, TypeOK
<1>8. paid <= husky + MintedBy(p)
  BY <1>2, <1>3 DEF deposit, CanHarvest, PoolBeforeDeposit
<1>9. /\ poolInfo' = [poolInfo EXCEPT ![p] = pool]
      /\ userInfo' = [userInfo EXCEPT ![p][for] = user]
      /\ lpSupply' = [lpSupply EXCEPT ![p] = supply]
      /\ husky' = (husky + MintedBy(p)) - paid
      /\ rewards' = rewards + MintedFor({p}) /\ ops' = ops + 1
      /\ UNCHANGED <<block, totalAllocPoint, settings, badgeLocked>>
  BY DEF deposit, Mints, PoolBeforeDeposit
<1>10. poolInfo[p].added
  BY <1>1 DEF Added
<1>11. supply - user.amount = lpSupply[p] - old.amount
  BY <1>1, <1>2, <1>6, <1>7
<1> HIDE DEF user, paid
<1>12. Settles(p, for, user, paid, supply)
  BY <1>1, <1>4, <1>6, <1>8, <1>9, <1>10, <1>11 DEF Settles
<1> HIDE DEF supply, pool, old, res
<1> QED BY <1>4, <1>6, <1>7, <1>12, SettleStep

\* withdraw keeps the invariant: the account has a stake, so its pool was added.
LEMMA WithdrawInv ==
    ASSUME IInv, NEW sender \in Accounts, NEW for \in Accounts, NEW p \in Pools,
           NEW amount \in Amounts, withdraw(sender, for, p, amount)
    PROVE  IInv'
<1> DEFINE old == userInfo[p][for]
           pool == updatedPool(p)
           left == old.amount - amount
           res == Resettled(old, pool, left)
           user == [res EXCEPT !.fundedBy = IF left = 0 THEN NoAddress ELSE @]
           paid == Pending(old, pool)
           supply == lpSupply[p] - amount
<1>1. CanUpdate(p) /\ amount \in Nat
  BY FairLaunchAssumption DEF withdraw
<1>2. /\ MintedBy(p) \in Nat /\ pool \in PoolRecord /\ old \in UserRecord /\ old.amount \in Nat
      /\ paid \in Nat /\ PRECISION * paid <= Claim(old, pool.acc)
  BY <1>1, HarvestFacts
<1>3. old.amount >= amount /\ amount <= lpSupply[p] /\ old.amount > 0
      /\ paid <= husky + MintedBy(p)
  BY DEF withdraw, CanHarvest
<1>4. left \in Nat /\ supply \in Nat /\ lpSupply \in [Pools -> Nat]
  BY <1>1, <1>2, <1>3 DEF IInv, TypeOK
<1>5. poolInfo[p].added
  BY <1>2, <1>3 DEF IInv, PoolsWellFormed
<1>6. res \in UserRecord /\ res.amount = left /\ res.rewardDebt = Entitled(left, pool.acc)
  BY <1>2, <1>4, ResettledFacts
<1>7. user \in UserRecord /\ user.amount = left
      /\ user.rewardDebt = Entitled(user.amount, pool.acc)
  <2> HIDE DEF res, pool, old, left
  <2> QED BY <1>6 DEF UserRecord
<1>8. /\ poolInfo' = [poolInfo EXCEPT ![p] = pool]
      /\ userInfo' = [userInfo EXCEPT ![p][for] = user]
      /\ lpSupply' = [lpSupply EXCEPT ![p] = supply]
      /\ husky' = (husky + MintedBy(p)) - paid
      /\ rewards' = rewards + MintedFor({p}) /\ ops' = ops + 1
      /\ UNCHANGED <<block, totalAllocPoint, settings, badgeLocked>>
  BY DEF withdraw, Mints
<1>9. supply - user.amount = lpSupply[p] - old.amount
  BY <1>1, <1>2, <1>4, <1>7
<1> HIDE DEF user
<1>10. Settles(p, for, user, paid, supply)
  BY <1>1, <1>2, <1>3, <1>5, <1>7, <1>8, <1>9 DEF Settles
<1> HIDE DEF supply, pool, old, res, paid
<1> QED BY <1>2, <1>4, <1>7, <1>10, SettleStep
-----------------------------------------------------------------------------
(* The steps that update pools and touch no account. *)

\* The pools of P are updated, the HUSKI for it minted, and nothing is paid.
Updates(P) ==
    /\ P \subseteq Pools
    /\ \A q \in P : CanUpdate(q)
    /\ \A q \in Pools : poolInfo'[q].acc = IF q \in P THEN updatedPool(q).acc ELSE poolInfo[q].acc
    /\ husky' = husky + MintedFor(P)
    /\ UNCHANGED <<userInfo, lpSupply, badgeLocked, ops>>

\* What is minted for the pools of P, as a sum over all pools.
MintFor(P) == [q \in Pools |-> IF q \in P THEN MintedBy(q) ELSE 0]

\* It is a natural number and the same sum as over the pools of P.
LEMMA MintedForType ==
    ASSUME IInv, NEW P, P \subseteq Pools, \A q \in P : CanUpdate(q)
    PROVE  /\ MintedFor(P) \in Nat /\ NatOn(MintFor(P), Pools)
           /\ SumFunctionOnSet(MintFor(P), Pools) = MintedFor(P)
<1> DEFINE f == [q \in P |-> MintedBy(q)]
           g == MintFor(P)
<1>1. \A q \in P : MintedBy(q) \in Nat
  BY UpdateFacts DEF IInv
<1>2. /\ \A q \in P : f[q] \in Int /\ g[q] = f[q]
      /\ \A q \in Pools : q \notin P => g[q] = 0
      /\ NatOn(g, Pools)
  BY <1>1 DEF MintFor, NatOn
<1>3. IsFiniteSet(Pools)
  BY FairLaunchAssumption
<1> HIDE DEF f, g
<1>4. SumFunctionOnSet(g, Pools) = SumFunctionOnSet(f, P)
  BY <1>2, <1>3, SumExtend
<1>5. SumFunctionOnSet(g, Pools) \in Nat
  BY <1>2, <1>3, SumOfNats
<1> QED BY <1>2, <1>4, <1>5 DEF f, g, MintedFor

\* The cover grows with what is minted.
LEMMA CoverMints ==
    ASSUME NEW h \in Nat, NEW b \in Nat, NEW o \in Nat, NEW m \in Int,
           NEW h1, h1 = h + m
    PROVE  /\ Cover(h1, b, o) = Cover(h, b, o) + PRECISION * m
           /\ Cover(h, b, o) \in Int /\ PRECISION * m \in Int
<1> DEFINE had == h - b + o
<1>1. h1 - b + o = had + m /\ had \in Int
  OBVIOUS
<1>2. PRECISION \in Int
  BY FairLaunchAssumption
<1>3. Cover(h, b, o) = PRECISION * had /\ Cover(h1, b, o) = PRECISION * (had + m)
  BY <1>1 DEF Cover
<1> HIDE DEF had
<1> QED BY <1>1, <1>2, <1>3, Distribute

\* Such a step keeps every claim non-negative and covered: the claims of each
\* pool grow by no more than what is minted for it.
LEMMA UpdateStep ==
    ASSUME IInv, TypeOK', NEW P, Updates(P)
    PROVE  StakesHeld' /\ ClaimsNotNegative' /\ ClaimsCovered'
<1>1. TypeOK /\ StakesHeld /\ P \subseteq Pools /\ \A q \in P : CanUpdate(q)
  BY DEF IInv, Updates
<1>2. /\ husky \in Nat /\ badgeLocked \in Nat /\ ops \in Nat /\ PRECISION \in Nat
      /\ badgeLocked' = badgeLocked /\ ops' = ops /\ husky' = husky + MintedFor(P)
      /\ userInfo' = userInfo /\ lpSupply' = lpSupply
  BY <1>1, FairLaunchAssumption DEF TypeOK, Updates
<1>3. MintedFor(P) \in Nat /\ NatOn(MintFor(P), Pools)
      /\ SumFunctionOnSet(MintFor(P), Pools) = MintedFor(P)
  BY <1>1, MintedForType
<1>4. StakesHeld'
  BY <1>1, <1>2 DEF StakesHeld, Stakes
<1>5. ASSUME NEW q \in Pools
      PROVE  /\ poolInfo[q].acc \in Nat /\ poolInfo'[q].acc \in Nat
             /\ poolInfo'[q].acc >= poolInfo[q].acc
             /\ PoolClaims(q) \in Int /\ PoolClaims(q)' \in Int
             /\ PoolClaims(q)' <= PRECISION * MintFor(P)[q] + PoolClaims(q)
  <2>1. poolInfo[q].acc \in Nat /\ poolInfo'[q].acc \in Nat /\ PoolClaims(q) \in Int
    BY <1>1, PoolClaimsType DEF TypeOK, PoolRecord
  <2>2. PoolClaims(q)' = Claims(userInfo[q], poolInfo'[q].acc)
    BY <1>2 DEF PoolClaims, Claims
  <2>3. CASE q \in P
    <3>1. /\ poolInfo'[q].acc = updatedPool(q).acc /\ MintFor(P)[q] = MintedBy(q)
      BY <2>3 DEF Updates, MintFor
    <3>2. /\ updatedPool(q).acc >= poolInfo[q].acc
          /\ Claims(userInfo[q], updatedPool(q).acc) \in Int
          /\ Claims(userInfo[q], updatedPool(q).acc) <= PoolClaims(q) + PRECISION * MintedBy(q)
          /\ MintedBy(q) \in Nat
      BY <1>1, <2>3, UpdateFacts
    <3>3. PRECISION * MintedBy(q) \in Int
      BY <3>2, <1>2
    <3> QED BY <2>1, <2>2, <3>1, <3>2, <3>3
  <2>4. CASE q \notin P
    <3>1. /\ poolInfo'[q].acc = poolInfo[q].acc /\ MintFor(P)[q] = 0
      BY <2>4 DEF Updates, MintFor
    <3>2. PoolClaims(q)' = PoolClaims(q)
      BY <2>2, <3>1 DEF PoolClaims
    <3> QED BY <2>1, <3>1, <3>2, <1>2
  <2> QED BY <2>3, <2>4
<1>6. ClaimsNotNegative'
  <2> SUFFICES ASSUME NEW q \in Pools, NEW u \in Accounts
               PROVE  Claim(userInfo'[q][u], poolInfo'[q].acc) >= 0
    BY DEF ClaimsNotNegative, Claim
  <2>1. userInfo[q][u] \in UserRecord
    BY <1>1 DEF TypeOK
  <2>2. Claim(userInfo[q][u], poolInfo[q].acc) >= 0
    BY DEF IInv, ClaimsNotNegative
  <2>3. /\ Claim(userInfo[q][u], poolInfo[q].acc) \in Int
        /\ Claim(userInfo[q][u], poolInfo'[q].acc) \in Int
        /\ Claim(userInfo[q][u], poolInfo[q].acc) <= Claim(userInfo[q][u], poolInfo'[q].acc)
    BY <1>5, <2>1, ClaimType, ClaimMono
  <2> QED BY <1>2, <2>2, <2>3
<1>7. ClaimsCovered'
  <2> DEFINE before == [q \in Pools |-> PoolClaims(q)]
             after  == [q \in Pools |-> PoolClaims(q)']
  <2>1. Bounded(after, PRECISION, MintFor(P), before, Pools)
    BY <1>3, <1>5 DEF Bounded, NatOn
  <2>2. TotalClaims = SumFunctionOnSet(before, Pools) /\ TotalClaims' = SumFunctionOnSet(after, Pools)
    BY DEF TotalClaims
  <2>3. /\ \A q \in Pools : before[q] \in Int
        /\ \A q \in Pools : after[q] \in Int
    BY <1>5
  <2> HIDE DEF before, after
  <2>4. IsFiniteSet(Pools) /\ PRECISION \in Int
    BY FairLaunchAssumption
  <2>5. TotalClaims' <= PRECISION * MintedFor(P) + TotalClaims
    BY <2>1, <2>2, <2>4, <1>3, SumOrder
  <2>6. TotalClaims \in Int /\ TotalClaims' \in Int
    BY <2>2, <2>3, <2>4, SumStep
  <2>7. TotalClaims <= Cover(husky, badgeLocked, ops)
    BY DEF IInv, ClaimsCovered
  <2>8. /\ Cover(husky', badgeLocked', ops')
             = Cover(husky, badgeLocked, ops) + PRECISION * MintedFor(P)
        /\ Cover(husky, badgeLocked, ops) \in Int /\ PRECISION * MintedFor(P) \in Int
    <3> DEFINE m == MintedFor(P)
    <3>1. m \in Int /\ husky' = husky + m
      BY <1>2, <1>3
    <3> HIDE DEF m
    <3>2. /\ Cover(husky', badgeLocked, ops) = Cover(husky, badgeLocked, ops) + PRECISION * m
          /\ Cover(husky, badgeLocked, ops) \in Int /\ PRECISION * m \in Int
      BY <3>1, <1>2, CoverMints
    <3> QED BY <3>2, <1>2 DEF m
  <2>9. TotalClaims' <= Cover(husky', badgeLocked', ops')
    BY <2>5, <2>6, <2>7, <2>8
  <2> QED BY <2>9 DEF ClaimsCovered, Cover
<1> QED BY <1>4, <1>6, <1>7

\* Changing one pool's weight and the total by as much keeps their sum.
LEMMA WeightStep ==
    ASSUME IInv, NEW p \in Pools, poolInfo' \in [Pools -> PoolRecord],
           \A q \in Pools : q # p => poolInfo'[q].allocPoint = poolInfo[q].allocPoint,
           totalAllocPoint' = totalAllocPoint - poolInfo[p].allocPoint + poolInfo'[p].allocPoint
    PROVE  WeightsAddUp' /\ totalAllocPoint' \in Nat
<1> DEFINE f == [q \in Pools |-> poolInfo[q].allocPoint]
           g == [q \in Pools |-> poolInfo'[q].allocPoint]
<1>1. \A q \in Pools : poolInfo[q].allocPoint \in Nat /\ poolInfo'[q].allocPoint \in Nat
  BY DEF IInv, TypeOK, PoolRecord
<1>2. NatOn(g, Pools) /\ Differ(f, g, Pools, p)
      /\ f[p] = poolInfo[p].allocPoint /\ g[p] = poolInfo'[p].allocPoint
  BY <1>1 DEF NatOn, Differ
<1>3. totalAllocPoint = SumFunctionOnSet(f, Pools)
  BY DEF IInv, WeightsAddUp
<1>4. WeightsAddUp' <=> totalAllocPoint' = SumFunctionOnSet(g, Pools)
  BY DEF WeightsAddUp
<1>5. IsFiniteSet(Pools)
  BY FairLaunchAssumption
<1> HIDE DEF f, g
<1>6. SumFunctionOnSet(g, Pools) = SumFunctionOnSet(f, Pools) - f[p] + g[p]
  BY <1>2, <1>5, SumChange
<1>7. SumFunctionOnSet(g, Pools) \in Nat
  BY <1>2, <1>5, SumOfNats
<1> QED BY <1>2, <1>3, <1>4, <1>6, <1>7

\* updatePool keeps the invariant.
LEMMA UpdatePoolInv ==
    ASSUME IInv, NEW p \in Pools, updatePool(p)
    PROVE  IInv'
<1>1. TypeOK /\ StakesHeld /\ poolInfo[p].added /\ CanUpdate(p)
  BY DEF IInv, updatePool, Added
<1>2. /\ MintedBy(p) \in Nat /\ updatedPool(p) \in PoolRecord
      /\ updatedPool(p).added = poolInfo[p].added
      /\ updatedPool(p).allocPoint = poolInfo[p].allocPoint
  BY <1>1, UpdateFacts
<1>3. MintedFor({p}) = MintedBy(p)
  BY <1>2, MintedForOne
<1>4. poolInfo \in [Pools -> PoolRecord] /\ poolInfo' = [poolInfo EXCEPT ![p] = updatedPool(p)]
  BY <1>1 DEF TypeOK, updatePool
<1>5. /\ poolInfo' \in [Pools -> PoolRecord] /\ poolInfo'[p] = updatedPool(p)
      /\ \A q \in Pools : q # p => poolInfo'[q] = poolInfo[q]
  BY <1>2, <1>4
<1>6. UNCHANGED <<block, userInfo, totalAllocPoint, settings, lpSupply, badgeLocked, ops>>
      /\ husky' = husky + MintedBy(p) /\ rewards' = rewards + MintedFor({p})
  BY DEF updatePool, Mints
<1>7. TypeOK'
  BY <1>1, <1>2, <1>3, <1>5, <1>6 DEF TypeOK, settings
<1>8. Updates({p})
  BY <1>1, <1>3, <1>5, <1>6 DEF Updates
<1>9. StakesHeld' /\ ClaimsNotNegative' /\ ClaimsCovered'
  BY <1>7, <1>8, UpdateStep
<1>10. PoolsWellFormed'
  BY <1>1, <1>2, <1>5, <1>6 DEF IInv, PoolsWellFormed
<1>11. totalAllocPoint' = totalAllocPoint - poolInfo[p].allocPoint + poolInfo'[p].allocPoint
  BY <1>1, <1>2, <1>5, <1>6 DEF TypeOK, PoolRecord
<1>12. WeightsAddUp'
  BY <1>5, <1>11, WeightStep
<1> QED BY <1>7, <1>9, <1>10, <1>12 DEF IInv

\* The pools after massUpdatePools: weights and flags stay.
LEMMA MassUpdatedFacts ==
    ASSUME IInv, MassUpdate
    PROVE  /\ MassUpdated \in [Pools -> PoolRecord]
           /\ MintedFor(Added) \in Nat /\ Added \subseteq Pools
           /\ \A q \in Added : CanUpdate(q)
           /\ \A q \in Pools :
                /\ MassUpdated[q].added = poolInfo[q].added
                /\ MassUpdated[q].allocPoint = poolInfo[q].allocPoint
                /\ MassUpdated[q].acc = IF q \in Added THEN updatedPool(q).acc
                                        ELSE poolInfo[q].acc
                /\ q \notin Added => MassUpdated[q] = poolInfo[q]
<1>1. Added \subseteq Pools /\ \A q \in Added : CanUpdate(q)
  BY DEF Added, MassUpdate
<1>2. ASSUME NEW q \in Added
      PROVE  /\ updatedPool(q) \in PoolRecord /\ updatedPool(q).added = poolInfo[q].added
             /\ updatedPool(q).allocPoint = poolInfo[q].allocPoint
  BY <1>1, UpdateFacts DEF IInv
<1>3. \A q \in Pools : poolInfo[q] \in PoolRecord
  BY DEF IInv, TypeOK
<1>4. MintedFor(Added) \in Nat
  BY <1>1, MintedForType
<1>5. \A q \in Pools : MassUpdated[q] = IF q \in Added THEN updatedPool(q) ELSE poolInfo[q]
  BY DEF MassUpdated
<1>6. MassUpdated \in [Pools -> PoolRecord]
  BY <1>2, <1>3 DEF MassUpdated
<1> QED BY <1>1, <1>2, <1>4, <1>5, <1>6

\* massUpdatePools keeps the invariant.
LEMMA MassUpdatePoolsInv ==
    ASSUME IInv, massUpdatePools
    PROVE  IInv'
<1>1. MassUpdate /\ poolInfo' = MassUpdated /\ TypeOK
      /\ UNCHANGED <<block, userInfo, totalAllocPoint, settings, lpSupply, badgeLocked, ops>>
      /\ husky' = husky + MintedFor(Added) /\ rewards' = rewards + MintedFor(Added)
  BY DEF massUpdatePools, MassUpdate, Mints, IInv
<1>2. /\ poolInfo' \in [Pools -> PoolRecord]
      /\ MintedFor(Added) \in Nat /\ Added \subseteq Pools
      /\ \A q \in Added : CanUpdate(q)
      /\ \A q \in Pools :
           /\ poolInfo'[q].added = poolInfo[q].added
           /\ poolInfo'[q].allocPoint = poolInfo[q].allocPoint
           /\ poolInfo'[q].acc = IF q \in Added THEN updatedPool(q).acc ELSE poolInfo[q].acc
           /\ q \notin Added => poolInfo'[q] = poolInfo[q]
  BY <1>1, MassUpdatedFacts
<1>3. TypeOK'
  BY <1>1, <1>2 DEF TypeOK, settings
<1>4. Updates(Added)
  BY <1>1, <1>2 DEF Updates
<1>5. StakesHeld' /\ ClaimsNotNegative' /\ ClaimsCovered'
  BY <1>3, <1>4, UpdateStep
<1>6. PoolsWellFormed'
  BY <1>1, <1>2 DEF IInv, PoolsWellFormed, Added
<1>7. WeightsAddUp'
  <2> DEFINE a == [q \in Pools |-> poolInfo[q].allocPoint]
             b == [q \in Pools |-> poolInfo'[q].allocPoint]
  <2>1. a = b
    BY <1>2
  <2> QED BY <2>1, <1>1 DEF IInv, WeightsAddUp
<1> QED BY <1>3, <1>5, <1>6, <1>7 DEF IInv

\* setPool keeps the invariant.
LEMMA SetPoolInv ==
    ASSUME IInv, NEW p \in Pools, NEW a \in AllocPoints, setPool(p, a)
    PROVE  IInv'
<1> DEFINE mid == MassUpdated
<1>1. MassUpdate /\ poolInfo' = [mid EXCEPT ![p].allocPoint = a] /\ TypeOK
      /\ UNCHANGED <<block, userInfo, settings, lpSupply, badgeLocked, ops>>
      /\ husky' = husky + MintedFor(Added) /\ rewards' = rewards + MintedFor(Added)
      /\ totalAllocPoint' = totalAllocPoint - poolInfo[p].allocPoint + a
      /\ poolInfo[p].added /\ a \in Nat
  BY FairLaunchAssumption DEF setPool, MassUpdate, Mints, IInv, Added
<1>2. /\ mid \in [Pools -> PoolRecord]
      /\ MintedFor(Added) \in Nat /\ Added \subseteq Pools
      /\ \A q \in Added : CanUpdate(q)
      /\ \A q \in Pools :
           /\ mid[q].added = poolInfo[q].added
           /\ mid[q].allocPoint = poolInfo[q].allocPoint
           /\ mid[q].acc = IF q \in Added THEN updatedPool(q).acc ELSE poolInfo[q].acc
  BY <1>1, MassUpdatedFacts
<1> HIDE DEF mid
<1>3. /\ poolInfo' \in [Pools -> PoolRecord]
      /\ poolInfo'[p] = [mid[p] EXCEPT !.allocPoint = a]
      /\ \A q \in Pools : q # p => poolInfo'[q] = mid[q]
  BY <1>1, <1>2 DEF PoolRecord
<1>4. mid[p] \in PoolRecord
  BY <1>2
<1>5. poolInfo'[p].acc = mid[p].acc /\ poolInfo'[p].added = mid[p].added
      /\ poolInfo'[p].allocPoint = a
  BY <1>3, <1>4 DEF PoolRecord
<1>6. \A q \in Pools : q # p => poolInfo'[q].allocPoint = poolInfo[q].allocPoint
  BY <1>2, <1>3
<1>7. WeightsAddUp' /\ totalAllocPoint' \in Nat
  BY <1>1, <1>3, <1>5, <1>6, WeightStep
<1>8. TypeOK'
  BY <1>1, <1>2, <1>3, <1>7 DEF TypeOK, settings
<1>9. Updates(Added)
  BY <1>1, <1>2, <1>3, <1>5 DEF Updates
<1>10. StakesHeld' /\ ClaimsNotNegative' /\ ClaimsCovered'
  BY <1>8, <1>9, UpdateStep
<1>11. PoolsWellFormed'
  BY <1>1, <1>2, <1>3, <1>5 DEF IInv, PoolsWellFormed, Added
<1> QED BY <1>7, <1>8, <1>10, <1>11 DEF IInv

\* addPool keeps the invariant, with or without an update of the other pools.
LEMMA AddPoolInv ==
    ASSUME IInv, NEW p \in Pools, NEW a \in AllocPoints, NEW w \in BOOLEAN, addPool(p, a, w)
    PROVE  IInv'
<1> DEFINE mid == IF w THEN MassUpdated ELSE poolInfo
           P == IF w THEN Added ELSE {}
           new == [NoPool EXCEPT !.added = TRUE, !.allocPoint = a,
                     !.lastRewardBlock = IF block > startBlock THEN block ELSE startBlock]
<1>1. TypeOK /\ UNCHANGED <<block, userInfo, settings, lpSupply, badgeLocked, ops>>
      /\ poolInfo' = [mid EXCEPT ![p] = new]
      /\ totalAllocPoint' = totalAllocPoint + a
      /\ ~poolInfo[p].added /\ a \in Nat /\ block \in Nat /\ startBlock \in Nat
  BY FairLaunchAssumption DEF addPool, IInv, Added, TypeOK
<1>2. new \in PoolRecord /\ new.added /\ new.allocPoint = a /\ new.acc = 0
  BY <1>1 DEF NoPool, PoolRecord
<1>3. /\ mid \in [Pools -> PoolRecord]
      /\ MintedFor(P) \in Nat /\ P \subseteq Pools /\ P \subseteq Added
      /\ \A q \in P : CanUpdate(q)
      /\ \A q \in Pools :
           /\ mid[q].added = poolInfo[q].added
           /\ mid[q].allocPoint = poolInfo[q].allocPoint
           /\ mid[q].acc = IF q \in P THEN updatedPool(q).acc ELSE poolInfo[q].acc
      /\ husky' = husky + MintedFor(P) /\ rewards' = rewards + MintedFor(P)
  <2>1. CASE w
    <3>1. MassUpdate /\ husky' = husky + MintedFor(Added)
          /\ rewards' = rewards + MintedFor(Added)
      BY <2>1 DEF addPool, MassUpdate, Mints
    <3> QED BY <2>1, <3>1, MassUpdatedFacts
  <2>2. CASE ~w
    <3>1. husky' = husky /\ rewards' = rewards
      BY <2>2 DEF addPool
    <3> DEFINE none == [q \in {} |-> MintedBy(q)]
    <3>2. IsFiniteSet({}) /\ \A q \in {} : none[q] = 0
      BY FS_EmptySet
    <3>3. MintedFor({}) = SumFunctionOnSet(none, {})
      BY DEF MintedFor
    <3> HIDE DEF none
    <3>4. MintedFor({}) = 0
      BY <3>2, <3>3, SumOfZeros
    <3>5. husky \in Nat /\ rewards \in Nat /\ poolInfo \in [Pools -> PoolRecord]
      BY <1>1 DEF TypeOK
    <3> QED BY <2>2, <3>1, <3>4, <3>5
  <2> QED BY <2>1, <2>2
<1> HIDE DEF mid, new, P
<1>4. /\ poolInfo' \in [Pools -> PoolRecord] /\ poolInfo'[p] = new
      /\ \A q \in Pools : q # p => poolInfo'[q] = mid[q]
  BY <1>1, <1>2, <1>3
<1>5. poolInfo[p].acc = 0 /\ poolInfo[p].allocPoint = 0 /\ p \notin Added
  BY <1>1 DEF IInv, PoolsWellFormed, Added
<1>6. totalAllocPoint' = totalAllocPoint - poolInfo[p].allocPoint + poolInfo'[p].allocPoint
  BY <1>1, <1>2, <1>4, <1>5 DEF TypeOK
<1>7. \A q \in Pools : q # p => poolInfo'[q].allocPoint = poolInfo[q].allocPoint
  BY <1>3, <1>4
<1>8. WeightsAddUp' /\ totalAllocPoint' \in Nat
  BY <1>4, <1>6, <1>7, WeightStep
<1>9. TypeOK'
  BY <1>1, <1>3, <1>4, <1>8 DEF TypeOK, settings
<1>10. Updates(P)
  BY <1>1, <1>2, <1>3, <1>4, <1>5 DEF Updates
<1>11. StakesHeld' /\ ClaimsNotNegative' /\ ClaimsCovered'
  BY <1>9, <1>10, UpdateStep
<1>12. PoolsWellFormed'
  BY <1>1, <1>2, <1>3, <1>4 DEF IInv, PoolsWellFormed, Added
<1> QED BY <1>8, <1>9, <1>11, <1>12 DEF IInv

\* emergencyWithdraw keeps the invariant: the account leaves its claim behind.
LEMMA EmergencyWithdrawInv ==
    ASSUME IInv, NEW u \in Accounts, NEW p \in Pools, emergencyWithdraw(u, p)
    PROVE  IInv'
<1> DEFINE old == userInfo[p][u]
           user == [old EXCEPT !.amount = 0, !.rewardDebt = 0, !.fundedBy = NoAddress]
           users == [userInfo[p] EXCEPT ![u] = user]
           acc == poolInfo[p].acc
<1>1. TypeOK /\ old.amount <= lpSupply[p]
      /\ lpSupply' = [lpSupply EXCEPT ![p] = @ - old.amount]
      /\ userInfo' = [userInfo EXCEPT ![p][u] = user]
      /\ UNCHANGED <<block, poolInfo, totalAllocPoint, settings, husky, rewards,
                     badgeLocked, ops>>
  BY DEF emergencyWithdraw, IInv, AmountAfterEmergency
<1>2. /\ userInfo \in [Pools -> [Accounts -> UserRecord]] /\ lpSupply \in [Pools -> Nat]
      /\ userInfo[p] \in [Accounts -> UserRecord] /\ old \in UserRecord /\ old.amount \in Nat
      /\ acc \in Nat /\ PRECISION \in Nat /\ husky \in Nat /\ badgeLocked \in Nat /\ ops \in Nat
  BY <1>1, FairLaunchAssumption DEF TypeOK, UserRecord, PoolRecord
<1>3. user \in UserRecord /\ user.amount = 0 /\ user.rewardDebt = 0
  <2> HIDE DEF old
  <2> QED BY <1>2 DEF UserRecord
<1> HIDE DEF user
<1>4. Claim(user, acc) = 0
  BY <1>2, <1>3 DEF Claim
<1>5. /\ userInfo'[p] = users /\ userInfo'[p][u] = user
      /\ \A q \in Pools : q # p => userInfo'[q] = userInfo[q]
      /\ \A v \in Accounts : v # u => userInfo'[p][v] = userInfo[p][v]
  BY <1>1, <1>2
<1>6. TypeOK'
  <2>1. userInfo' \in [Pools -> [Accounts -> UserRecord]]
    BY <1>1, <1>2, <1>3
  <2>2. lpSupply' \in [Pools -> Nat]
    <3>1. lpSupply[p] - old.amount \in Nat
      BY <1>1, <1>2
    <3> QED BY <1>1, <1>2, <3>1
  <2> QED BY <1>1, <2>1, <2>2 DEF TypeOK, settings
<1>7. /\ Claims(users, acc) = Claims(userInfo[p], acc) - Claim(old, acc) + Claim(user, acc)
      /\ Stakes(users) = Stakes(userInfo[p]) - old.amount + user.amount
      /\ Stakes(userInfo[p]) \in Nat /\ old.amount <= Stakes(userInfo[p])
      /\ Claims(userInfo[p], acc) \in Int
  <2>1. Replaced(users, userInfo[p], u, user)
    BY DEF Replaced
  <2> HIDE DEF users, old, acc
  <2>2. old = userInfo[p][u]
    BY DEF old
  <2> QED BY <2>1, <2>2, <1>2, <1>3, SettleSums
<1>8. Claim(old, acc) \in Int /\ Claim(old, acc) >= 0
  BY <1>2, ClaimType DEF IInv, ClaimsNotNegative
<1>9. StakesHeld'
  <2> SUFFICES ASSUME NEW q \in Pools PROVE Stakes(userInfo'[q]) <= lpSupply'[q]
    BY DEF StakesHeld, Stakes
  <2>1. CASE q = p
    <3>1. Stakes(userInfo[p]) <= lpSupply[p] /\ lpSupply[p] \in Nat
      BY <1>2 DEF StakesHeld, IInv
    <3>2. lpSupply'[p] = lpSupply[p] - old.amount
      BY <1>1, <1>2
    <3>3. Stakes(userInfo'[p]) = Stakes(userInfo[p]) - old.amount + 0
      BY <1>3, <1>5, <1>7
    <3> HIDE DEF old
    <3> QED BY <2>1, <3>1, <3>2, <3>3, <1>2, <1>7
  <2>2. CASE q # p
    BY <2>2, <1>1, <1>2, <1>5 DEF StakesHeld, IInv
  <2> QED BY <2>1, <2>2
<1>10. PoolsWellFormed'
  BY <1>1, <1>3, <1>5 DEF IInv, PoolsWellFormed
<1>11. ClaimsNotNegative'
  <2> SUFFICES ASSUME NEW q \in Pools, NEW v \in Accounts
               PROVE  Claim(userInfo'[q][v], poolInfo[q].acc) >= 0
    BY <1>1 DEF ClaimsNotNegative, Claim
  <2>1. CASE q = p /\ v = u
    BY <2>1, <1>4, <1>5
  <2>2. CASE ~(q = p /\ v = u)
    BY <2>2, <1>5 DEF IInv, ClaimsNotNegative
  <2> QED BY <2>1, <2>2
<1>12. ClaimsCovered'
  <2>1. TotalClaims \in Int /\ TotalClaims' = TotalClaims - PoolClaims(p) + PoolClaims(p)'
    BY <1>1, <1>5, <1>6, TotalChange
  <2>2. PoolClaims(p)' = Claims(users, acc) /\ PoolClaims(p) = Claims(userInfo[p], acc)
    BY <1>1, <1>5 DEF PoolClaims, Claims
  <2>3. TotalClaims' <= TotalClaims /\ TotalClaims' \in Int
    BY <2>1, <2>2, <1>4, <1>7, <1>8
  <2>4. TotalClaims <= Cover(husky, badgeLocked, ops) /\ Cover(husky, badgeLocked, ops) \in Int
    BY <1>2 DEF IInv, ClaimsCovered, Cover
  <2>5. TotalClaims' <= Cover(husky, badgeLocked, ops)
    BY <2>1, <2>3, <2>4
  <2> QED BY <2>5, <1>1 DEF ClaimsCovered, Cover
<1>13. WeightsAddUp'
  BY <1>1 DEF IInv, WeightsAddUp
<1> QED BY <1>6, <1>9, <1>10, <1>11, <1>12, <1>13 DEF IInv
-----------------------------------------------------------------------------
(* The remaining steps and the theorems. *)

\* Steps that leave claims and stakes alone and lower no cover.
LEMMA QuietStep ==
    ASSUME IInv, TypeOK', UNCHANGED <<poolInfo, userInfo, totalAllocPoint>>,
           \A q \in Pools : lpSupply[q] <= lpSupply'[q],
           husky - badgeLocked + ops <= husky' - badgeLocked' + ops'
    PROVE  IInv'
<1>1. PoolsWellFormed' /\ WeightsAddUp' /\ ClaimsNotNegative'
  BY DEF IInv, PoolsWellFormed, WeightsAddUp, ClaimsNotNegative, Claim
<1>2. StakesHeld'
  <2> SUFFICES ASSUME NEW q \in Pools PROVE Stakes(userInfo[q]) <= lpSupply'[q]
    BY DEF StakesHeld, Stakes
  <2>1. userInfo[q] \in [Accounts -> UserRecord] /\ lpSupply[q] \in Nat /\ lpSupply'[q] \in Nat
    BY DEF IInv, TypeOK
  <2> DEFINE stakes == [v \in Accounts |-> userInfo[q][v].amount]
  <2>2. NatOn(stakes, Accounts) /\ IsFiniteSet(Accounts)
    BY <2>1, FairLaunchAssumption DEF NatOn, UserRecord
  <2>3. SumFunctionOnSet(stakes, Accounts) \in Nat
    <3> HIDE DEF stakes
    <3> QED BY <2>2, SumOfNats
  <2>4. Stakes(userInfo[q]) \in Nat /\ Stakes(userInfo[q]) <= lpSupply[q]
    BY <2>3 DEF IInv, StakesHeld, Stakes
  <2> QED BY <2>1, <2>4
<1>3. ClaimsCovered'
  <2> DEFINE x == husky - badgeLocked + ops
             y == husky' - badgeLocked' + ops'
             d == y - x
  <2>1. x \in Int /\ y \in Int /\ d \in Nat /\ y = x + d /\ PRECISION \in Nat
    <3>1. /\ husky \in Nat /\ badgeLocked \in Nat /\ ops \in Nat
          /\ husky' \in Nat /\ badgeLocked' \in Nat /\ ops' \in Nat
      BY DEF IInv, TypeOK
    <3>2. x <= y
      BY Zenon
    <3>3. husky - badgeLocked \in Int /\ husky' - badgeLocked' \in Int
      BY <3>1
    <3>4. x \in Int /\ y \in Int
      BY <3>1, <3>3
    <3> HIDE DEF x, y
    <3>5. d \in Nat /\ y = x + d
      BY <3>2, <3>4
    <3> QED BY <3>4, <3>5, FairLaunchAssumption
  <2>2. TotalClaims <= PRECISION * x /\ TotalClaims' = TotalClaims
    BY DEF IInv, ClaimsCovered, Cover, TotalClaims, PoolClaims, Claims, Claim
  <2>3. ClaimsCovered' <=> TotalClaims' <= PRECISION * y
    BY DEF ClaimsCovered, Cover
  <2>4. TotalClaims \in Int
    <3> DEFINE f == [q \in Pools |-> PoolClaims(q)]
    <3>1. \A q \in Pools : f[q] \in Int
      BY PoolClaimsType DEF IInv
    <3>2. TotalClaims = SumFunctionOnSet(f, Pools) /\ IsFiniteSet(Pools)
      BY FairLaunchAssumption DEF TotalClaims
    <3> HIDE DEF f
    <3> QED BY <3>1, <3>2, SumStep
  <2> HIDE DEF x, y, d
  <2>5. PRECISION * y = PRECISION * x + PRECISION * d /\ PRECISION * x \in Int
    BY <2>1, Distribute
  <2>6. PRECISION * d \in Nat
    BY <2>1
  <2> QED BY <2>2, <2>3, <2>4, <2>5, <2>6
<1> QED BY <1>1, <1>2, <1>3 DEF IInv

\* safeHuskyTransfer never takes more than it is asked for.
LEMMA TransferFacts ==
    ASSUME NEW balance \in Nat, NEW amount \in Nat
    PROVE  /\ HuskyAfterTransfer(balance, amount) \in Nat
           /\ balance <= HuskyAfterTransfer(balance, amount) + amount
BY DEF HuskyAfterTransfer

\* The constructor establishes the invariant.
LEMMA InvInit == Init => IInv
<1> SUFFICES ASSUME Init PROVE IInv
  OBVIOUS
<1>1. TypeOK
  BY FairLaunchAssumption DEF Init, TypeOK, PoolRecord, UserRecord, NoPool, NoUser
<1>2. PoolsWellFormed
  BY DEF Init, PoolsWellFormed, NoPool, NoUser
<1>3. ASSUME NEW p \in Pools, NEW u \in Accounts
      PROVE  /\ Claim(userInfo[p][u], poolInfo[p].acc) = 0 /\ userInfo[p][u].amount = 0
             /\ poolInfo[p].allocPoint = 0
  BY FairLaunchAssumption DEF Init, Claim, NoUser, NoPool
<1>4. IsFiniteSet(Pools) /\ IsFiniteSet(Accounts)
  BY FairLaunchAssumption
<1>5. ASSUME NEW p \in Pools
      PROVE  PoolClaims(p) = 0 /\ Stakes(userInfo[p]) = 0
  <2> DEFINE claims == [u \in Accounts |-> Claim(userInfo[p][u], poolInfo[p].acc)]
             stakes == [u \in Accounts |-> userInfo[p][u].amount]
  <2>1. /\ \A u \in Accounts : claims[u] = 0
        /\ \A u \in Accounts : stakes[u] = 0
    BY <1>3
  <2>2. PoolClaims(p) = SumFunctionOnSet(claims, Accounts)
        /\ Stakes(userInfo[p]) = SumFunctionOnSet(stakes, Accounts)
    BY DEF PoolClaims, Claims, Stakes
  <2> HIDE DEF claims, stakes
  <2> QED BY <2>1, <2>2, <1>4, SumOfZeros
<1>6. StakesHeld
  BY <1>5 DEF StakesHeld, Init
<1>7. ClaimsNotNegative
  BY <1>3 DEF ClaimsNotNegative
<1>8. ClaimsCovered
  <2> DEFINE claims == [p \in Pools |-> PoolClaims(p)]
  <2>1. \A p \in Pools : claims[p] = 0
    BY <1>5
  <2>2. TotalClaims = SumFunctionOnSet(claims, Pools)
    BY DEF TotalClaims
  <2> HIDE DEF claims
  <2>3. TotalClaims = 0
    BY <2>1, <2>2, <1>4, SumOfZeros
  <2> QED BY <2>3, FairLaunchAssumption DEF ClaimsCovered, Cover, Init
<1>9. WeightsAddUp
  <2> DEFINE weights == [p \in Pools |-> poolInfo[p].allocPoint]
  <2>1. \A p \in Pools : weights[p] = 0
    BY DEF Init, NoPool
  <2>2. WeightsAddUp <=> totalAllocPoint = SumFunctionOnSet(weights, Pools)
    BY DEF WeightsAddUp
  <2> HIDE DEF weights
  <2> QED BY <2>1, <2>2, <1>4, SumOfZeros DEF Init
<1> QED BY <1>1, <1>2, <1>6, <1>7, <1>8, <1>9 DEF IInv

\* Every step keeps the invariant.
LEMMA InvNext == IInv /\ [Next]_vars => IInv'
<1> SUFFICES ASSUME IInv, [Next]_vars PROVE IInv'
  OBVIOUS
<1>1. TypeOK /\ block \in Nat /\ husky \in Nat /\ badgeLocked \in Nat /\ ops \in Nat
      /\ lpSupply \in [Pools -> Nat]
  BY DEF IInv, TypeOK
<1>2. ASSUME NEW q \in Pools PROVE lpSupply[q] <= lpSupply[q]
  BY <1>1
<1>3. CASE Tick
  <2>1. TypeOK'
    BY <1>1, <1>3 DEF Tick, TypeOK, settings
  <2>2. UNCHANGED <<poolInfo, userInfo, totalAllocPoint, lpSupply, husky, badgeLocked, ops>>
    BY <1>3 DEF Tick
  <2> QED BY <2>1, <2>2, <1>1, <1>2, QuietStep
<1>4. CASE massUpdatePools
  BY <1>4, MassUpdatePoolsInv
<1>5. ASSUME NEW n \in PerBlocks, setHuskyPerBlock(n) PROVE IInv'
  <2>1. TypeOK'
    BY <1>1, <1>5, FairLaunchAssumption DEF setHuskyPerBlock, TypeOK
  <2>2. UNCHANGED <<poolInfo, userInfo, totalAllocPoint, lpSupply, husky, badgeLocked, ops>>
    BY <1>5 DEF setHuskyPerBlock
  <2> QED BY <2>1, <2>2, <1>1, <1>2, QuietStep
<1>6. ASSUME NEW b \in Bonuses, setBonus(b) PROVE IInv'
  <2>1. TypeOK'
    BY <1>1, <1>6, FairLaunchAssumption DEF setBonus, TypeOK
  <2>2. UNCHANGED <<poolInfo, userInfo, totalAllocPoint, lpSupply, husky, badgeLocked, ops>>
    BY <1>6 DEF setBonus
  <2> QED BY <2>1, <2>2, <1>1, <1>2, QuietStep
<1>7. ASSUME NEW amount \in BadgeAmounts, lockToOwner(amount) PROVE IInv'
  <2>1. amount \in Nat /\ husky' = husky + amount /\ badgeLocked' = badgeLocked + amount
        /\ ops' = ops + 1 /\ UNCHANGED <<poolInfo, userInfo, totalAllocPoint, lpSupply>>
    BY <1>7, FairLaunchAssumption DEF lockToOwner
  <2>2. TypeOK'
    BY <1>1, <1>7, <2>1 DEF lockToOwner, TypeOK, settings
  <2>3. husky - badgeLocked + ops <= husky' - badgeLocked' + ops'
    BY <2>1, <1>1
  <2> QED BY <2>1, <2>2, <2>3, <1>2, QuietStep
<1>8. ASSUME NEW amount \in BadgeAmounts, unlockFromOwner(amount) PROVE IInv'
  <2> DEFINE part == amount \div 10
             mid == HuskyAfterTransfer(husky, part)
             end == HuskyAfterTransfer(mid, amount - part)
  <2>1. amount \in Nat /\ amount <= badgeLocked
        /\ husky' = end /\ badgeLocked' = badgeLocked - amount
        /\ UNCHANGED <<poolInfo, userInfo, totalAllocPoint, lpSupply, ops>>
    BY <1>8, FairLaunchAssumption DEF unlockFromOwner
  <2>2. part \in Nat /\ amount - part \in Nat
    BY <2>1
  <2>3. mid \in Nat /\ husky <= mid + part /\ end \in Nat /\ mid <= end + (amount - part)
    <3> HIDE DEF part
    <3>1. mid \in Nat /\ husky <= mid + part
      BY <2>2, <1>1, TransferFacts
    <3> DEFINE rest == amount - part
    <3>2. rest \in Nat
      BY <2>2
    <3> HIDE DEF mid, rest
    <3>3. HuskyAfterTransfer(mid, rest) \in Nat /\ mid <= HuskyAfterTransfer(mid, rest) + rest
      BY <3>1, <3>2, TransferFacts
    <3> QED BY <3>1, <3>3 DEF rest
  <2> HIDE DEF part, mid, end
  <2>4. TypeOK'
    BY <1>1, <1>8, <2>1, <2>3 DEF unlockFromOwner, TypeOK, settings
  <2>5. husky - badgeLocked + ops <= husky' - badgeLocked' + ops'
    BY <2>1, <2>2, <2>3, <1>1
  <2> QED BY <2>1, <2>4, <2>5, <1>2, QuietStep
<1>9. ASSUME NEW p \in Pools, NEW amount \in Amounts, Donate(p, amount) PROVE IInv'
  <2>1. amount \in Nat /\ lpSupply' = [lpSupply EXCEPT ![p] = @ + amount]
        /\ UNCHANGED <<poolInfo, userInfo, totalAllocPoint, husky, badgeLocked, ops>>
    BY <1>9, FairLaunchAssumption DEF Donate
  <2>2. lpSupply' \in [Pools -> Nat] /\ \A q \in Pools : lpSupply[q] <= lpSupply'[q]
    BY <2>1, <1>1
  <2>3. TypeOK'
    BY <1>1, <1>9, <2>2 DEF Donate, TypeOK, settings
  <2>4. husky - badgeLocked + ops <= husky' - badgeLocked' + ops'
    BY <2>1, <1>1
  <2> QED BY <2>1, <2>2, <2>3, <2>4, QuietStep
<1>10. CASE UNCHANGED vars
  <2>1. UNCHANGED <<poolInfo, userInfo, totalAllocPoint, lpSupply, husky, badgeLocked, ops>>
    BY <1>10 DEF vars
  <2>2. TypeOK'
    BY <1>10, <1>1 DEF vars, TypeOK, settings
  <2> QED BY <2>1, <2>2, <1>1, <1>2, QuietStep
<1> QED BY <1>3, <1>4, <1>5, <1>6, <1>7, <1>8, <1>9, <1>10, UpdatePoolInv, SetPoolInv, AddPoolInv,
           HarvestInv, EmergencyWithdrawInv, DepositInv, WithdrawInv DEF Next

\* The invariant implies solvency: the pending rewards are claims rounded down.
LEMMA InvSolvent == IInv => SolventUpToDust
<1> SUFFICES ASSUME IInv PROVE SolventUpToDust
  OBVIOUS
<1>1. PRECISION \in Nat \ {0} /\ PRECISION \in Int /\ IsFiniteSet(Pools) /\ IsFiniteSet(Accounts)
      /\ husky \in Nat /\ badgeLocked \in Nat /\ ops \in Nat
  BY FairLaunchAssumption DEF IInv, TypeOK
<1>2. ASSUME NEW p \in Pools
      PROVE  /\ PoolPending(p) \in Int /\ PoolClaims(p) \in Int
             /\ PRECISION * PoolPending(p) <= PoolClaims(p)
  <2> DEFINE pending == [u \in Accounts |-> Pending(userInfo[p][u], poolInfo[p])]
             claims == [u \in Accounts |-> Claim(userInfo[p][u], poolInfo[p].acc)]
  <2>1. ASSUME NEW u \in Accounts
        PROVE  /\ pending[u] \in Int /\ claims[u] \in Int
               /\ PRECISION * pending[u] <= claims[u]
    <3>1. userInfo[p][u] \in UserRecord /\ poolInfo[p].acc \in Nat
          /\ Claim(userInfo[p][u], poolInfo[p].acc) >= 0
      BY DEF IInv, TypeOK, PoolRecord, ClaimsNotNegative
    <3>2. /\ Pending(userInfo[p][u], poolInfo[p]) \in Nat
          /\ PRECISION * Pending(userInfo[p][u], poolInfo[p])
               <= Claim(userInfo[p][u], poolInfo[p].acc)
          /\ Claim(userInfo[p][u], poolInfo[p].acc) \in Int
      BY <3>1, PendingFloor, ClaimType
    <3> QED BY <3>2
  <2>2. PoolPending(p) = SumFunctionOnSet(pending, Accounts)
        /\ PoolClaims(p) = SumFunctionOnSet(claims, Accounts)
    BY DEF PoolPending, PoolClaims, Claims
  <2> HIDE DEF pending, claims
  <2>3. ScaledBelow(PRECISION, pending, claims, Accounts)
    BY <2>1 DEF ScaledBelow
  <2> QED BY <2>2, <2>3, <1>1, SumScaled
<1> DEFINE pending == [p \in Pools |-> PoolPending(p)]
           claims == [p \in Pools |-> PoolClaims(p)]
<1>3. ScaledBelow(PRECISION, pending, claims, Pools)
  BY <1>2 DEF ScaledBelow
<1>4. TotalPending = SumFunctionOnSet(pending, Pools)
      /\ TotalClaims = SumFunctionOnSet(claims, Pools)
  BY DEF TotalPending, TotalClaims
<1> HIDE DEF pending, claims
<1>5. PRECISION * TotalPending <= TotalClaims /\ TotalPending \in Int /\ TotalClaims \in Int
  BY <1>1, <1>3, <1>4, SumScaled
<1> DEFINE held == husky - badgeLocked + ops
<1>6. held \in Int /\ TotalClaims <= PRECISION * held
  BY <1>1 DEF IInv, ClaimsCovered, Cover
<1> HIDE DEF held
<1>7. PRECISION * TotalPending <= PRECISION * held
  BY <1>1, <1>5, <1>6
<1>8. TotalPending <= held
  BY <1>1, <1>5, <1>6, <1>7, MulCancel
<1> QED BY <1>8 DEF held, SolventUpToDust

\* The inductive invariant holds of every behaviour of the contract.
LEMMA Invariance == Spec => []IInv
<1> QED BY InvInit, InvNext, PTL DEF Spec

\* FairLaunch is solvent: in every reachable state the HUSKI it holds, less what
\* the badges keep there, pays all pending rewards of all pools, but for one unit
\* for each reward debt that was rounded down (_harvest, deposit, withdraw).
THEOREM Solvent == Spec => []SolventUpToDust
<1> QED BY Invariance, InvSolvent, PTL
-----------------------------------------------------------------------------
(* What an account could harvest. *)

\* The reward per share that pendingHusky uses, as of this block.
Acc(p) == IF totalAllocPoint > 0 THEN updatedPool(p).acc ELSE poolInfo[p].acc

\* pendingHusky in terms of Acc.
LEMMA PendingAcc ==
    ASSUME NEW p, NEW u
    PROVE  pendingHusky(p, u) = Entitled(userInfo[p][u].amount, Acc(p)) - userInfo[p][u].rewardDebt
BY DEF pendingHusky, Pending, Acc

\* What an account is entitled to grows with the reward per share.
LEMMA EntitledMono ==
    ASSUME NEW amount \in Nat, NEW a \in Nat, NEW b \in Nat, a <= b \/ amount = 0
    PROVE  /\ Entitled(amount, a) \in Nat /\ Entitled(amount, b) \in Nat
           /\ Entitled(amount, a) <= Entitled(amount, b)
<1> DEFINE x == amount * a
           y == amount * b
<1>1. x \in Nat /\ y \in Nat /\ x <= y /\ PRECISION \in Nat \ {0}
  <2>1. PRECISION \in Nat \ {0}
    BY FairLaunchAssumption
  <2>2. CASE a <= b
    BY <2>1, <2>2, MulMono
  <2>3. CASE amount = 0
    BY <2>1, <2>3
  <2> QED BY <2>2, <2>3
<1> HIDE DEF x, y
<1>2. x \div PRECISION \in Nat /\ y \div PRECISION \in Nat /\ x \div PRECISION <= y \div PRECISION
  BY <1>1, FloorBounds, DivMono
<1> QED BY <1>2 DEF Entitled, x, y

\* Acc is a natural number.
LEMMA AccType ==
    ASSUME TypeOK, StakesHeld, NEW p \in Pools
    PROVE  Acc(p) \in Nat
<1>1. CASE totalAllocPoint > 0
  <2>1. updatedPool(p) \in PoolRecord
    BY <1>1, UpdatedFacts
  <2> QED BY <2>1, <1>1 DEF Acc, PoolRecord
<1>2. CASE ~(totalAllocPoint > 0)
  BY <1>2 DEF Acc, TypeOK, PoolRecord
<1> QED BY <1>1, <1>2

AccNat == \A p \in Pools : Acc(p) \in Nat

\* The reward per share is a natural number in every pool.
LEMMA AccTypes == IInv => AccNat
BY AccType DEF IInv, AccNat

AccSettled == \A p \in Pools : poolInfo[p].acc \in Nat /\ poolInfo[p].acc <= Acc(p)

\* The reward per share never lies below the one of the last update.
LEMMA AccAboveSettled == IInv => AccSettled
<1> SUFFICES ASSUME IInv, NEW p \in Pools
             PROVE  poolInfo[p].acc \in Nat /\ poolInfo[p].acc <= Acc(p)
  BY DEF AccSettled
<1>1. TypeOK /\ StakesHeld /\ poolInfo[p].acc \in Nat
  BY DEF IInv, TypeOK, PoolRecord
<1>2. CASE totalAllocPoint > 0
  <2>1. updatedPool(p).acc >= poolInfo[p].acc /\ updatedPool(p) \in PoolRecord
    BY <1>1, <1>2, UpdatedFacts
  <2> QED BY <1>1, <1>2, <2>1 DEF Acc, PoolRecord
<1>3. CASE ~(totalAllocPoint > 0)
  BY <1>1, <1>3 DEF Acc
<1> QED BY <1>2, <1>3

\* Where an update may happen it brings the pool to Acc.
LEMMA AccOfUpdate ==
    ASSUME TypeOK, StakesHeld, NEW p \in Pools, CanUpdate(p)
    PROVE  updatedPool(p).acc = Acc(p)
<1>1. CASE totalAllocPoint > 0
  BY <1>1 DEF Acc
<1>2. CASE ~(totalAllocPoint > 0)
  <2>1. ~Due(p) \/ lpSupply[p] = 0
    BY <1>2 DEF CanUpdate, Rewarding
  <2>2. updatedPool(p).acc = poolInfo[p].acc
    <3>1. poolInfo[p] \in PoolRecord
      BY DEF TypeOK
    <3> QED BY <2>1, <3>1 DEF updatedPool, PoolRecord
  <2> QED BY <1>2, <2>2 DEF Acc
<1> QED BY <1>1, <1>2

\* A pool that is up to date needs no update.
LEMMA AccFresh ==
    ASSUME NEW p \in Pools, TypeOK', poolInfo'[p].lastRewardBlock >= block'
    PROVE  Acc(p)' = poolInfo'[p].acc /\ ~Due(p)'
<1>1. poolInfo'[p].lastRewardBlock \in Nat /\ block' \in Nat
  BY DEF TypeOK, PoolRecord
<1>2. ~Due(p)'
  BY <1>1 DEF Due
<1>3. updatedPool(p)' = poolInfo'[p]
  BY <1>2 DEF updatedPool
<1> QED BY <1>2, <1>3 DEF Acc

\* Acc depends on the pool, its supply, the weights, the block and the settings.
LEMMA AccSame ==
    ASSUME NEW p \in Pools, poolInfo'[p] = poolInfo[p], lpSupply'[p] = lpSupply[p],
           UNCHANGED <<block, totalAllocPoint, settings>>
    PROVE  Acc(p)' = Acc(p)
<1>1. bonus' = bonus /\ huskyPerBlock' = huskyPerBlock
  BY DEF settings
<1>2. huskyReward(p)' = huskyReward(p) /\ BonusPortion(p)' = BonusPortion(p)
  BY <1>1 DEF huskyReward, BonusPortion, Share, getMultiplier
<1>3. updatedPool(p)' = updatedPool(p)
  BY <1>1, <1>2 DEF updatedPool, Due, PerShare
<1> QED BY <1>3 DEF Acc

\* A smaller supply earns more per share.
LEMMA AccOfLess ==
    ASSUME TypeOK, TypeOK', NEW p \in Pools, poolInfo'[p] = poolInfo[p],
           lpSupply'[p] <= lpSupply[p], lpSupply'[p] # 0,
           UNCHANGED <<block, totalAllocPoint, settings>>
    PROVE  Acc(p) <= Acc(p)'
<1>1. bonus' = bonus /\ huskyPerBlock' = huskyPerBlock /\ totalAllocPoint' = totalAllocPoint
      /\ block' = block
  BY DEF settings
<1>2. huskyReward(p)' = huskyReward(p) /\ Due(p)' = Due(p)
  BY <1>1 DEF huskyReward, Share, getMultiplier, Due
<1>3. /\ lpSupply[p] \in Nat \ {0} /\ lpSupply'[p] \in Nat \ {0} /\ PRECISION \in Nat
      /\ poolInfo[p] \in PoolRecord /\ poolInfo'[p] \in PoolRecord /\ poolInfo[p].acc \in Nat
  BY FairLaunchAssumption DEF TypeOK, PoolRecord
<1>4. CASE totalAllocPoint > 0 /\ Due(p)
  <2> DEFINE x == huskyReward(p) * PRECISION
  <2>1. x \in Nat
    <3>1. huskyReward(p) \in Nat
      BY <1>4, RewardType
    <3> QED BY <3>1, <1>3
  <2>2. PerShare(huskyReward(p), p) = x \div lpSupply[p]
        /\ PerShare(huskyReward(p), p)' = x \div lpSupply'[p]
    BY <1>2 DEF PerShare
  <2> HIDE DEF x
  <2>3. /\ x \div lpSupply[p] <= x \div lpSupply'[p]
        /\ x \div lpSupply[p] \in Nat /\ x \div lpSupply'[p] \in Nat
    BY <2>1, <1>3, DivAnti, FloorBounds
  <2>4. updatedPool(p).acc = poolInfo[p].acc + PerShare(huskyReward(p), p)
    BY <1>3, <1>4 DEF updatedPool, PoolRecord
  <2>5. updatedPool(p)'.acc = poolInfo'[p].acc + PerShare(huskyReward(p), p)'
    BY <1>2, <1>3, <1>4 DEF updatedPool, PoolRecord
  <2> QED BY <2>2, <2>3, <2>4, <2>5, <1>1, <1>3, <1>4 DEF Acc
<1>5. CASE ~(totalAllocPoint > 0 /\ Due(p))
  <2>1. Acc(p) = poolInfo[p].acc /\ Acc(p)' = poolInfo'[p].acc
    BY <1>1, <1>2, <1>5 DEF Acc, updatedPool
  <2> QED BY <2>1, <1>3
<1> QED BY <1>4, <1>5

\* A pool that a step brings up to date keeps its Acc.
Renewed(p) ==
    /\ CanUpdate(p) /\ block' = block
    /\ poolInfo'[p].acc = updatedPool(p).acc
    /\ poolInfo'[p].lastRewardBlock = updatedPool(p).lastRewardBlock

\* An update writes down the reward per share that was due anyway.
LEMMA AccRenewed ==
    ASSUME IInv, IInv', NEW p \in Pools, Renewed(p)
    PROVE  Acc(p)' = Acc(p) /\ ~Due(p)'
<1>1. TypeOK /\ StakesHeld /\ TypeOK' /\ CanUpdate(p)
  BY DEF IInv, Renewed
<1>2. updatedPool(p).lastRewardBlock >= block
  BY <1>1, UpdateFacts
<1>3. poolInfo'[p].lastRewardBlock >= block'
  BY <1>2 DEF Renewed
<1>4. updatedPool(p).acc = Acc(p)
  BY <1>1, AccOfUpdate
<1> QED BY <1>1, <1>3, <1>4, AccFresh DEF Renewed

\* The pools a step that settles or updates p leaves as they are.
OnlyPool(p) ==
    /\ Renewed(p)
    /\ \A q \in Pools : q # p => poolInfo'[q] = poolInfo[q] /\ lpSupply'[q] = lpSupply[q]
    /\ UNCHANGED <<block, totalAllocPoint, settings>>

\* deposit, withdraw, harvest and updatePool touch the pool they are called for.
LEMMA OnePoolSteps ==
    ASSUME IInv, NEW p \in Pools,
           \/ updatePool(p)
           \/ \E u \in Accounts :
                 \/ harvest(u, p)
                 \/ \E for \in Accounts, amount \in Amounts :
                       deposit(u, for, p, amount) \/ withdraw(u, for, p, amount)
    PROVE  OnlyPool(p) /\ rewards' = rewards + MintedFor({p}) /\ p \in Added
<1>1. poolInfo \in [Pools -> PoolRecord] /\ lpSupply \in [Pools -> Nat]
  BY DEF IInv, TypeOK
<1>2. ASSUME poolInfo' = [poolInfo EXCEPT ![p] = updatedPool(p)], CanUpdate(p), NEW n,
             lpSupply' = [lpSupply EXCEPT ![p] = n],
             UNCHANGED <<block, totalAllocPoint, settings>>
      PROVE  OnlyPool(p)
  BY <1>1, <1>2 DEF OnlyPool, Renewed
<1>3. CASE updatePool(p)
  <2>1. lpSupply' = [lpSupply EXCEPT ![p] = lpSupply[p]]
    BY <1>1, <1>3 DEF updatePool
  <2> QED BY <2>1, <1>2, <1>3 DEF updatePool, Mints
<1>4. ASSUME NEW u \in Accounts, harvest(u, p)
      PROVE  OnlyPool(p) /\ rewards' = rewards + MintedFor({p}) /\ p \in Added
  <2>1. lpSupply' = [lpSupply EXCEPT ![p] = lpSupply[p]]
    BY <1>1, <1>4 DEF harvest
  <2> QED BY <2>1, <1>2, <1>4 DEF harvest, Mints
<1>5. ASSUME NEW u \in Accounts, NEW for \in Accounts, NEW amount \in Amounts,
             deposit(u, for, p, amount)
      PROVE  OnlyPool(p) /\ rewards' = rewards + MintedFor({p}) /\ p \in Added
  <2>1. lpSupply' = [lpSupply EXCEPT ![p] = lpSupply[p] + amount]
    BY <1>5 DEF deposit
  <2> QED BY <2>1, <1>2, <1>5 DEF deposit, Mints, PoolBeforeDeposit
<1>6. ASSUME NEW u \in Accounts, NEW for \in Accounts, NEW amount \in Amounts,
             withdraw(u, for, p, amount)
      PROVE  OnlyPool(p) /\ rewards' = rewards + MintedFor({p}) /\ p \in Added
  <2>1. lpSupply' = [lpSupply EXCEPT ![p] = lpSupply[p] - amount]
    BY <1>6 DEF withdraw
  <2>2. userInfo[p][for].amount > 0 /\ userInfo[p][for].amount \in Nat
    BY <1>6 DEF withdraw, CanHarvest, IInv, TypeOK, UserRecord
  <2>3. p \in Added
    BY <2>2 DEF IInv, PoolsWellFormed, Added
  <2> QED BY <2>1, <2>3, <1>2, <1>6 DEF withdraw, Mints
<1> QED BY <1>3, <1>4, <1>5, <1>6

\* massUpdatePools brings every added pool up to date.
LEMMA MassRenews ==
    ASSUME IInv, MassUpdate, NEW q \in Pools, block' = block,
           poolInfo'[q] = MassUpdated[q]
    PROVE  (q \in Added => Renewed(q)) /\ (q \notin Added => poolInfo'[q] = poolInfo[q])
BY DEF MassUpdate, MassUpdated, Renewed

\* No step lowers the reward per share of a stake that stays, but for a gift.
AccKept == \A p \in Pools, u \in Accounts :
              userInfo'[p][u] = userInfo[p][u] /\ ~Gifted(p)
                  => Acc(p) = Acc(p)' \/ Acc(p) <= Acc(p)' \/ userInfo[p][u].amount = 0

\* Every action keeps to AccKept while time, weights and settings stand still.
LEMMA AccKeptStep ==
    ASSUME IInv, IInv', Next, block' = block, UNCHANGED <<settings, totalAllocPoint>>
    PROVE  AccKept
<1>1. TypeOK /\ StakesHeld /\ TypeOK' /\ StakesHeld'
  BY DEF IInv
<1>2. ASSUME NEW p \in Pools, OnlyPool(p) PROVE AccKept
  <2>1. ASSUME NEW q \in Pools PROVE Acc(q) = Acc(q)'
    BY <1>2, AccRenewed, AccSame DEF OnlyPool
  <2> QED BY <2>1 DEF AccKept
<1>3. CASE massUpdatePools
  <2>1. MassUpdate /\ poolInfo' = MassUpdated /\ lpSupply' = lpSupply
    BY <1>3 DEF massUpdatePools
  <2>2. ASSUME NEW q \in Pools PROVE Acc(q) = Acc(q)'
    BY <2>1, MassRenews, AccRenewed, AccSame
  <2> QED BY <2>2 DEF AccKept
<1>4. ASSUME NEW p \in Pools, NEW a \in AllocPoints, setPool(p, a) PROVE AccKept
  <2>1. MassUpdate /\ poolInfo' = [MassUpdated EXCEPT ![p].allocPoint = a] /\ lpSupply' = lpSupply
        /\ p \in Added
    BY <1>4 DEF setPool
  <2>2. MassUpdated \in [Pools -> PoolRecord] /\ MassUpdated[p] \in PoolRecord
    BY <2>1, MassUpdatedFacts
  <2>3. /\ \A q \in Pools : q # p => poolInfo'[q] = MassUpdated[q]
        /\ poolInfo'[p].acc = MassUpdated[p].acc
        /\ poolInfo'[p].lastRewardBlock = MassUpdated[p].lastRewardBlock
    BY <2>1, <2>2 DEF PoolRecord
  <2>4. Renewed(p)
    BY <2>1, <2>3 DEF Renewed, MassUpdate, MassUpdated
  <2>5. ASSUME NEW q \in Pools PROVE Acc(q) = Acc(q)'
    BY <2>1, <2>3, <2>4, MassRenews, AccRenewed, AccSame
  <2> QED BY <2>5 DEF AccKept
<1>5. ASSUME NEW p \in Pools, NEW a \in AllocPoints, NEW w \in BOOLEAN, addPool(p, a, w)
      PROVE  AccKept
  <2>1. ~poolInfo[p].added /\ lpSupply' = lpSupply
    BY <1>5 DEF addPool, Added
  <2>2. \A u \in Accounts : userInfo[p][u].amount = 0
    BY <2>1 DEF IInv, PoolsWellFormed
  <2>3. ASSUME NEW q \in Pools, q # p PROVE Acc(q) = Acc(q)'
    <3>1. CASE w
      <4>1. MassUpdate /\ poolInfo'[q] = MassUpdated[q]
        BY <1>5, <2>3, <3>1 DEF addPool, MassUpdated
      <4> QED BY <4>1, <2>1, MassRenews, AccRenewed, AccSame
    <3>2. CASE ~w
      <4>1. poolInfo'[q] = poolInfo[q]
        BY <1>5, <1>1, <2>3, <3>2 DEF addPool, TypeOK
      <4> QED BY <4>1, <2>1, AccSame
    <3> QED BY <3>1, <3>2
  <2> QED BY <2>2, <2>3 DEF AccKept
<1>6. ASSUME NEW v \in Accounts, NEW p \in Pools, emergencyWithdraw(v, p) PROVE AccKept
  <2> DEFINE old == userInfo[p][v]
  <2>1. poolInfo' = poolInfo /\ old.amount <= lpSupply[p]
        /\ lpSupply' = [lpSupply EXCEPT ![p] = @ - old.amount]
    BY <1>6 DEF emergencyWithdraw
  <2>2. old.amount \in Nat /\ lpSupply \in [Pools -> Nat] /\ lpSupply' \in [Pools -> Nat]
    BY <1>1 DEF TypeOK, UserRecord
  <2>3. lpSupply'[p] = lpSupply[p] - old.amount
        /\ \A q \in Pools : q # p => lpSupply'[q] = lpSupply[q]
    BY <2>1, <2>2
  <2>4. ASSUME NEW q \in Pools, NEW u \in Accounts, userInfo'[q][u] = userInfo[q][u]
        PROVE  Acc(q) = Acc(q)' \/ Acc(q) <= Acc(q)' \/ userInfo[q][u].amount = 0
    <3>1. CASE q # p
      BY <3>1, <2>1, <2>3, AccSame
    <3>2. CASE q = p /\ lpSupply'[p] # 0
      <4>1. lpSupply'[p] <= lpSupply[p]
        BY <2>2, <2>3
      <4> QED BY <4>1, <3>2, <2>1, <1>1, AccOfLess
    <3>3. CASE q = p /\ lpSupply'[p] = 0
      <4> DEFINE stakes == [x \in Accounts |-> userInfo'[p][x].amount]
      <4>1. NatOn(stakes, Accounts) /\ IsFiniteSet(Accounts) /\ userInfo'[p][u].amount \in Nat
        BY <1>1, FairLaunchAssumption DEF TypeOK, UserRecord, NatOn
      <4>2. SumFunctionOnSet(stakes, Accounts) <= 0
        BY <1>1, <3>3 DEF StakesHeld, Stakes
      <4>3. stakes[u] = userInfo'[p][u].amount
        OBVIOUS
      <4> HIDE DEF stakes
      <4>4. SumFunctionOnSet(stakes, Accounts) \in Nat
            /\ stakes[u] <= SumFunctionOnSet(stakes, Accounts)
        BY <4>1, SumOfNats
      <4> QED BY <4>1, <4>2, <4>3, <4>4, <3>3, <2>4
    <3> QED BY <3>1, <3>2, <3>3
  <2> QED BY <2>4 DEF AccKept
<1>7. CASE Tick
  BY <1>1, <1>7 DEF Tick, TypeOK
<1>0. ASSUME poolInfo' = poolInfo, lpSupply' = lpSupply PROVE AccKept
  <2>1. ASSUME NEW q \in Pools PROVE Acc(q) = Acc(q)'
    BY <1>0, AccSame
  <2> QED BY <2>1 DEF AccKept
<1>8. CASE \E n \in PerBlocks : setHuskyPerBlock(n)
  BY <1>0, <1>8 DEF setHuskyPerBlock
<1>9. CASE \E b \in Bonuses : setBonus(b)
  BY <1>0, <1>9 DEF setBonus
<1>10. CASE \E amount \in BadgeAmounts : lockToOwner(amount) \/ unlockFromOwner(amount)
  BY <1>0, <1>10 DEF lockToOwner, unlockFromOwner
<1>11. ASSUME NEW p \in Pools, NEW amount \in Amounts, Donate(p, amount) PROVE AccKept
  <2>1. /\ UNCHANGED <<poolInfo, userInfo>> /\ amount \in Nat
        /\ lpSupply \in [Pools -> Nat] /\ lpSupply' = [lpSupply EXCEPT ![p] = @ + amount]
    BY <1>1, <1>11, FairLaunchAssumption DEF Donate, TypeOK
  <2>2. ASSUME NEW q \in Pools, ~Gifted(q) PROVE lpSupply'[q] = lpSupply[q]
    BY <2>1, <2>2 DEF Gifted
  <2>3. ASSUME NEW q \in Pools, ~Gifted(q) PROVE Acc(q) = Acc(q)'
    BY <2>1, <2>2, <2>3, AccSame
  <2> QED BY <2>3 DEF AccKept
<1> QED BY <1>2, <1>3, <1>4, <1>5, <1>6, <1>7, <1>8, <1>9, <1>10, <1>11, OnePoolSteps DEF Next

\* While the block, the settings and the weights stay, no step of anybody, deposit,
\* withdrawal, harvest, emergency withdrawal, update or call of the owner, lowers what
\* an account that keeps its stake could harvest (pendingHusky); stake tokens sent to
\* the contract take from the blocks since that pool's last update and from nothing else.
THEOREM RewardsOfOthers == Spec => OthersRewardNeverFalls
<1> DEFINE Kept == block' = block /\ UNCHANGED <<settings, totalAllocPoint>>
                     => \A p \in Pools, u \in Accounts :
                           userInfo'[p][u] = userInfo[p][u]
                               => pendingHusky(p, u)' >= IF Gifted(p)
                                                         THEN Pending(userInfo[p][u], poolInfo[p])
                                                         ELSE pendingHusky(p, u)
<1>0. IInv' => AccNat' /\ AccSettled'
  BY AccTypes, AccAboveSettled, PTL
<1>1. ASSUME IInv, IInv', [Next]_vars PROVE [Kept]_vars
  <2> SUFFICES ASSUME Next, block' = block, UNCHANGED <<settings, totalAllocPoint>>,
                      NEW p \in Pools, NEW u \in Accounts, userInfo'[p][u] = userInfo[p][u]
               PROVE  pendingHusky(p, u)' >= IF Gifted(p)
                                             THEN Pending(userInfo[p][u], poolInfo[p])
                                             ELSE pendingHusky(p, u)
    BY <1>1
  <2> DEFINE user == userInfo[p][u]
             least == IF Gifted(p) THEN poolInfo[p].acc ELSE Acc(p)
  <2>1. least = Acc(p)' \/ least <= Acc(p)' \/ user.amount = 0
    <3>1. CASE Gifted(p)
      BY <1>0, <1>1, <3>1 DEF AccSettled, Gifted
    <3>2. CASE ~Gifted(p)
      BY <1>1, <3>2, AccKeptStep DEF AccKept
    <3> QED BY <3>1, <3>2
  <2>2. user.amount \in Nat /\ user.rewardDebt \in Nat
    BY <1>1 DEF IInv, TypeOK, UserRecord
  <2>3. least \in Nat
    BY <1>1, AccTypes, AccAboveSettled DEF AccNat, AccSettled
  <2>4. Acc(p)' \in Nat
    BY <1>0, <1>1 DEF AccNat
  <2>5. /\ (IF Gifted(p) THEN Pending(userInfo[p][u], poolInfo[p]) ELSE pendingHusky(p, u))
             = Entitled(user.amount, least) - user.rewardDebt
        /\ pendingHusky(p, u)' = Entitled(user.amount, Acc(p)') - user.rewardDebt
    BY DEF pendingHusky, Pending, Acc, Entitled
  <2> HIDE DEF user
  <2>6. /\ Entitled(user.amount, least) \in Nat /\ Entitled(user.amount, Acc(p)') \in Nat
        /\ Entitled(user.amount, least) <= Entitled(user.amount, Acc(p)')
    <3> DEFINE a == least
               b == Acc(p)'
    <3>1. a \in Nat /\ b \in Nat /\ (a <= b \/ user.amount = 0)
      BY <2>1, <2>3, <2>4
    <3> HIDE DEF a, b
    <3>2. /\ Entitled(user.amount, a) \in Nat /\ Entitled(user.amount, b) \in Nat
          /\ Entitled(user.amount, a) <= Entitled(user.amount, b)
      BY <3>1, <2>2, EntitledMono
    <3> QED BY <3>2 DEF a, b
  <2> HIDE DEF least
  <2> QED BY <2>2, <2>5, <2>6
<1> QED BY <1>1, Invariance, PTL DEF Spec, OthersRewardNeverFalls
-----------------------------------------------------------------------------
(* What past blocks have paid and still have to pay. *)

\* What an update of a pool would mint is a natural number.
UnmintedNat == \A p \in Pools : Unminted(p) \in Nat

\* It holds whenever the inductive invariant does.
LEMMA UnmintedType == IInv => UnmintedNat
<1> SUFFICES ASSUME IInv, NEW p \in Pools PROVE Unminted(p) \in Nat
  BY DEF UnmintedNat
<1>1. CASE totalAllocPoint > 0
  <2>1. MintedBy(p) \in Nat
    BY <1>1, UpdatedFacts DEF IInv
  <2> QED BY <2>1 DEF Unminted
<1>2. CASE ~(totalAllocPoint > 0)
  BY <1>2 DEF Unminted
<1> QED BY <1>1, <1>2

\* Where an update may happen it mints just that.
LEMMA UnmintedOfUpdate ==
    ASSUME NEW p, p \in Added, CanUpdate(p)
    PROVE  Unminted(p) = MintedBy(p)
BY DEF Unminted, CanUpdate, MintedBy

\* A pool that is not due, or not added, has nothing to mint.
LEMMA UnmintedFresh ==
    ASSUME NEW p, ~Due(p)' \/ p \notin Added'
    PROVE  Unminted(p)' = 0
BY DEF Unminted, MintedBy, Rewarding

\* It depends on the pool, whether it has a supply, the weights, the block and the settings.
LEMMA UnmintedSame ==
    ASSUME NEW p \in Pools, poolInfo'[p] = poolInfo[p], lpSupply'[p] = lpSupply[p],
           UNCHANGED <<block, totalAllocPoint, settings>>
    PROVE  Unminted(p)' = Unminted(p)
<1>1. bonus' = bonus /\ huskyPerBlock' = huskyPerBlock
  BY DEF settings
<1>2. huskyReward(p)' = huskyReward(p)
  BY <1>1 DEF huskyReward, Share, getMultiplier
<1> QED BY <1>1, <1>2 DEF Unminted, MintedBy, Rewarding, Due, Added

\* A step that mints for the pools of P, and lowers what each has to mint by that,
\* adds nothing to the rewards of past blocks.
Exchanges(P) ==
    /\ P \subseteq Pools /\ \A q \in P : CanUpdate(q)
    /\ rewards' = rewards + MintedFor(P)
    /\ \A q \in Pools : Unminted(q)' + MintFor(P)[q] <= Unminted(q)

\* Minting what was owed leaves the total of paid and owed rewards as it was.
LEMMA ExchangeStep ==
    ASSUME IInv, UnmintedNat, UnmintedNat', NEW P, Exchanges(P)
    PROVE  RewardsSoFar' <= RewardsSoFar
<1> DEFINE before == [q \in Pools |-> Unminted(q)]
           after  == [q \in Pools |-> Unminted(q)']
           mint   == MintFor(P)
           m      == 0 - 1
<1>1. MintedFor(P) \in Nat /\ NatOn(mint, Pools) /\ SumFunctionOnSet(mint, Pools) = MintedFor(P)
  BY MintedForType DEF Exchanges
<1>2. ASSUME NEW q \in Pools
      PROVE  /\ before[q] \in Nat /\ after[q] \in Nat /\ mint[q] \in Nat
             /\ after[q] <= m * mint[q] + before[q]
  <2>1. Unminted(q) \in Nat /\ Unminted(q)' \in Nat /\ mint[q] \in Nat
    BY <1>1 DEF UnmintedNat, NatOn
  <2>2. Unminted(q)' + mint[q] <= Unminted(q)
    BY DEF Exchanges
  <2> HIDE DEF mint
  <2>3. m * mint[q] = 0 - mint[q]
    BY <2>1
  <2> QED BY <2>1, <2>2, <2>3
<1> HIDE DEF mint
<1>3. Bounded(after, m, mint, before, Pools)
  BY <1>2 DEF Bounded
<1>4. NatOn(before, Pools) /\ NatOn(after, Pools)
  BY <1>2 DEF NatOn
<1>5. RewardsSoFar = rewards + SumFunctionOnSet(before, Pools)
      /\ RewardsSoFar' = rewards' + SumFunctionOnSet(after, Pools)
  BY DEF RewardsSoFar
<1>6. IsFiniteSet(Pools) /\ m \in Int /\ rewards \in Nat
  BY FairLaunchAssumption DEF IInv, TypeOK
<1> HIDE DEF before, after
<1>7. SumFunctionOnSet(before, Pools) \in Nat /\ SumFunctionOnSet(after, Pools) \in Nat
  BY <1>4, <1>6, SumOfNats
<1>8. SumFunctionOnSet(after, Pools)
        <= m * SumFunctionOnSet(mint, Pools) + SumFunctionOnSet(before, Pools)
  <2> HIDE DEF m
  <2> QED BY <1>3, <1>6, SumOrder
<1>9. rewards' = rewards + MintedFor(P)
  BY DEF Exchanges
<1>10. m * MintedFor(P) = 0 - MintedFor(P)
  BY <1>1
<1> QED BY <1>1, <1>5, <1>6, <1>7, <1>8, <1>9, <1>10

\* A pool that a step brings up to date has been paid.
LEMMA ExchangeOf ==
    ASSUME IInv, IInv', NEW p \in Added, Renewed(p)
    PROVE  Unminted(p)' + MintedBy(p) <= Unminted(p)
<1>1. p \in Pools /\ CanUpdate(p)
  BY DEF Added, Renewed
<1>2. MintedBy(p) \in Nat
  BY <1>1, UpdateFacts DEF IInv
<1>3. Unminted(p) = MintedBy(p)
  BY <1>1, UnmintedOfUpdate
<1>4. Unminted(p)' = 0
  BY <1>1, AccRenewed, UnmintedFresh
<1> QED BY <1>2, <1>3, <1>4

\* A larger total weight lowers a pool's share; with no weight there is none.
LEMMA UnmintedDiluted ==
    ASSUME IInv, NEW p \in Pools, poolInfo'[p] = poolInfo[p], UNCHANGED <<lpSupply, block, settings>>,
           totalAllocPoint' \in Nat, totalAllocPoint <= totalAllocPoint'
    PROVE  Unminted(p)' <= Unminted(p)
<1>1. bonus' = bonus /\ huskyPerBlock' = huskyPerBlock /\ totalAllocPoint \in Nat
      /\ poolInfo[p].allocPoint \in Nat /\ poolInfo[p].lastRewardBlock \in Nat /\ block \in Nat
      /\ huskyPerBlock \in Nat /\ TypeOK
  BY DEF settings, IInv, TypeOK, PoolRecord
<1>2. Unminted(p) \in Nat
  BY UnmintedType DEF UnmintedNat
<1>3. CASE ~Rewarding(p) \/ p \notin Added \/ ~(totalAllocPoint' > 0)
  <2>1. Unminted(p)' = 0
    BY <1>1, <1>3 DEF Unminted, MintedBy, Rewarding, Due, Added
  <2> QED BY <2>1, <1>2
<1>4. CASE Rewarding(p) /\ p \in Added /\ totalAllocPoint' > 0
  <2> DEFINE mult == getMultiplier(poolInfo[p].lastRewardBlock, block)
             x == mult * huskyPerBlock * poolInfo[p].allocPoint
  <2>1. mult \in Nat
    BY <1>1, <1>4, MultiplierType DEF Rewarding, Due
  <2>2. Unminted(p)' = x \div totalAllocPoint'
    <3>1. getMultiplier(poolInfo'[p].lastRewardBlock, block') = mult
      OBVIOUS
    <3>2. huskyReward(p)' = x \div totalAllocPoint'
      BY <1>1 DEF huskyReward, Share, getMultiplier
    <3> QED BY <1>4, <3>2 DEF Unminted, MintedBy, Rewarding, Due, Added
  <2>3. Unminted(p) = IF totalAllocPoint > 0 THEN x \div totalAllocPoint ELSE 0
    BY <1>4 DEF Unminted, MintedBy, huskyReward, Share
  <2> HIDE DEF mult
  <2>4. x \in Nat
    <3>1. mult * huskyPerBlock \in Nat
      BY <2>1, <1>1
    <3> QED BY <3>1, <1>1
  <2>5. CASE totalAllocPoint > 0
    <3> HIDE DEF x
    <3>1. x \div totalAllocPoint' <= x \div totalAllocPoint
      <4> DEFINE s == totalAllocPoint
                 t == totalAllocPoint'
      <4>1. s \in Nat \ {0} /\ t \in Nat \ {0} /\ s <= t
        BY <2>5, <1>1
      <4> HIDE DEF s, t
      <4>2. x \div t <= x \div s
        BY <4>1, <2>4, DivAnti
      <4> QED BY <4>2 DEF s, t
    <3> QED BY <3>1, <2>2, <2>3, <2>5
  <2>6. CASE ~(totalAllocPoint > 0)
    <3> DEFINE weights == [q \in Pools |-> poolInfo[q].allocPoint]
    <3>1. NatOn(weights, Pools) /\ IsFiniteSet(Pools) /\ weights[p] = poolInfo[p].allocPoint
          /\ totalAllocPoint = SumFunctionOnSet(weights, Pools)
      BY FairLaunchAssumption DEF NatOn, IInv, TypeOK, PoolRecord, WeightsAddUp
    <3> HIDE DEF weights
    <3>2. weights[p] <= SumFunctionOnSet(weights, Pools)
      BY <3>1, SumOfNats
    <3>3. poolInfo[p].allocPoint = 0
      BY <3>1, <3>2, <2>6, <1>1
    <3>4. x = 0
      <4>1. mult * huskyPerBlock \in Nat
        BY <2>1, <1>1
      <4> QED BY <4>1, <3>3
    <3>5. x \div totalAllocPoint' = 0
      <4>1. totalAllocPoint' \in Nat \ {0}
        BY <1>4
      <4> QED BY <3>4, <4>1, ZeroDiv
    <3> QED BY <3>5, <2>2, <1>2
  <2> QED BY <2>5, <2>6
<1> QED BY <1>3, <1>4

\* An emergency withdrawal leaves a pool's reward as it is, or ends it.
LEMMA UnmintedOfLess ==
    ASSUME NEW p \in Pools, poolInfo'[p] = poolInfo[p], lpSupply[p] = 0 => lpSupply'[p] = 0,
           UNCHANGED <<block, totalAllocPoint, settings>>, Unminted(p) \in Nat
    PROVE  Unminted(p)' <= Unminted(p)
<1>1. bonus' = bonus /\ huskyPerBlock' = huskyPerBlock
  BY DEF settings
<1>2. huskyReward(p)' = huskyReward(p)
  BY <1>1 DEF huskyReward, Share, getMultiplier
<1>3. Unminted(p)' = Unminted(p) \/ Unminted(p)' = 0
  BY <1>1, <1>2 DEF Unminted, MintedBy, Rewarding, Due, Added
<1> QED BY <1>3

\* Every step that leaves the block, the rate and the bonus alone is such an exchange.
LEMMA ExchangeNext ==
    ASSUME IInv, IInv', UnmintedNat, UnmintedNat', Next, block' = block, UNCHANGED settings,
           poolInfo' # poolInfo \/ userInfo' # userInfo
    PROVE  \E P : Exchanges(P)
<1>1. TypeOK /\ TypeOK' /\ \A q \in Pools : Unminted(q) \in Nat /\ Unminted(q)' \in Nat
  BY DEF IInv, UnmintedNat
<1>2. ASSUME NEW p \in Pools, OnlyPool(p), rewards' = rewards + MintedFor({p}), p \in Added
      PROVE  Exchanges({p})
  <2>1. Unminted(p)' + MintedBy(p) <= Unminted(p) /\ CanUpdate(p)
    BY <1>2, ExchangeOf DEF OnlyPool, Renewed
  <2>2. ASSUME NEW q \in Pools PROVE Unminted(q)' + MintFor({p})[q] <= Unminted(q)
    <3>1. CASE q = p
      BY <3>1, <2>1 DEF MintFor
    <3>2. CASE q # p
      <4>1. MintFor({p})[q] = 0
        BY <3>2 DEF MintFor
      <4>2. Unminted(q)' = Unminted(q)
        BY <3>2, <1>2, UnmintedSame DEF OnlyPool
      <4> QED BY <4>1, <4>2, <1>1
    <3> QED BY <3>1, <3>2
  <2> QED BY <1>2, <2>1, <2>2 DEF Exchanges
<1>3. ASSUME MassUpdate, rewards' = rewards + MintedFor(Added),
             \A q \in Pools : q \in Added => Renewed(q),
             \A q \in Pools : q \notin Added => ~Due(q)' \/ q \notin Added'
      PROVE  Exchanges(Added)
  <2>1. Added \subseteq Pools /\ \A q \in Added : CanUpdate(q)
    BY <1>3 DEF Added, MassUpdate
  <2>2. ASSUME NEW q \in Pools PROVE Unminted(q)' + MintFor(Added)[q] <= Unminted(q)
    <3>1. CASE q \in Added
      <4>1. MintFor(Added)[q] = MintedBy(q)
        BY <3>1 DEF MintFor
      <4> QED BY <3>1, <4>1, <1>3, ExchangeOf
    <3>2. CASE q \notin Added
      <4>1. MintFor(Added)[q] = 0
        BY <3>2 DEF MintFor
      <4>2. Unminted(q)' = 0
        BY <3>2, <1>3, UnmintedFresh
      <4> QED BY <4>1, <4>2, <1>1
    <3> QED BY <3>1, <3>2
  <2> QED BY <1>3, <2>1, <2>2 DEF Exchanges
<1>4. ASSUME rewards' = rewards, \A q \in Pools : Unminted(q)' <= Unminted(q)
      PROVE  Exchanges({})
  <2> DEFINE none == [q \in {} |-> MintedBy(q)]
  <2>1. IsFiniteSet({}) /\ \A q \in {} : none[q] = 0
    BY FS_EmptySet
  <2>2. MintedFor({}) = SumFunctionOnSet(none, {})
    BY DEF MintedFor
  <2> HIDE DEF none
  <2>3. MintedFor({}) = 0
    BY <2>1, <2>2, SumOfZeros
  <2>4. rewards \in Nat /\ \A q \in Pools : MintFor({})[q] = 0
    BY <1>1 DEF TypeOK, MintFor
  <2> QED BY <1>1, <1>4, <2>3, <2>4 DEF Exchanges
<1>5. CASE massUpdatePools
  <2>1. MassUpdate /\ poolInfo' = MassUpdated /\ rewards' = rewards + MintedFor(Added)
    BY <1>5 DEF massUpdatePools, MassUpdate, Mints
  <2>2. ASSUME NEW q \in Pools
        PROVE  (q \in Added => Renewed(q)) /\ (q \notin Added => q \notin Added')
    BY <2>1, MassRenews DEF Added
  <2> QED BY <2>1, <2>2, <1>3
<1>6. ASSUME NEW p \in Pools, NEW a \in AllocPoints, setPool(p, a) PROVE Exchanges(Added)
  <2>1. MassUpdate /\ poolInfo' = [MassUpdated EXCEPT ![p].allocPoint = a]
        /\ rewards' = rewards + MintedFor(Added) /\ p \in Added
    BY <1>6 DEF setPool, MassUpdate, Mints
  <2>2. MassUpdated \in [Pools -> PoolRecord] /\ MassUpdated[p] \in PoolRecord
    BY <2>1, MassUpdatedFacts
  <2>3. /\ \A q \in Pools : q # p => poolInfo'[q] = MassUpdated[q]
        /\ poolInfo'[p].acc = MassUpdated[p].acc
        /\ poolInfo'[p].lastRewardBlock = MassUpdated[p].lastRewardBlock
    BY <2>1, <2>2 DEF PoolRecord
  <2>4. Renewed(p)
    BY <2>1, <2>3 DEF Renewed, MassUpdate, MassUpdated
  <2>5. ASSUME NEW q \in Pools, q # p
        PROVE  (q \in Added => Renewed(q)) /\ (q \notin Added => q \notin Added')
    BY <2>1, <2>3, <2>5, MassRenews DEF Added
  <2> QED BY <2>1, <2>4, <2>5, <1>3
<1>7. ASSUME NEW p \in Pools, NEW a \in AllocPoints, NEW w \in BOOLEAN, addPool(p, a, w)
      PROVE  \E P : Exchanges(P)
  <2> DEFINE new == [NoPool EXCEPT !.added = TRUE, !.allocPoint = a,
                       !.lastRewardBlock = IF block > startBlock THEN block ELSE startBlock]
  <2>1. p \notin Added /\ a \in Nat /\ totalAllocPoint' = totalAllocPoint + a
        /\ poolInfo' = [(IF w THEN MassUpdated ELSE poolInfo) EXCEPT ![p] = new]
        /\ lpSupply' = lpSupply
    BY <1>7, FairLaunchAssumption DEF addPool
  <2>2. poolInfo \in [Pools -> PoolRecord] /\ block \in Nat /\ startBlock \in Nat
        /\ totalAllocPoint \in Nat
    BY <1>1, FairLaunchAssumption DEF TypeOK
  <2>3. new.lastRewardBlock >= block
    BY <2>2 DEF NoPool
  <2> HIDE DEF new
  <2>4. /\ poolInfo'[p] = new
        /\ \A q \in Pools : q # p => poolInfo'[q] = IF w THEN MassUpdated[q] ELSE poolInfo[q]
    BY <2>1, <2>2 DEF MassUpdated
  <2>5. ~Due(p)'
    BY <2>3, <2>4, <1>1, AccFresh
  <2>6. CASE w
    <3>1. MassUpdate /\ rewards' = rewards + MintedFor(Added)
      BY <1>7, <2>6 DEF addPool, MassUpdate, Mints
    <3>2. ASSUME NEW q \in Pools, q # p
          PROVE  (q \in Added => Renewed(q)) /\ (q \notin Added => q \notin Added')
      BY <3>1, <3>2, <2>4, <2>6, MassRenews DEF Added
    <3> QED BY <3>1, <3>2, <2>1, <2>5, <1>3
  <2>7. CASE ~w
    <3>1. rewards' = rewards
      BY <1>7, <2>7 DEF addPool
    <3>2. Unminted(p)' <= Unminted(p)
      BY <2>5, <1>1, UnmintedFresh
    <3>3. totalAllocPoint' \in Nat /\ totalAllocPoint <= totalAllocPoint'
      BY <2>1, <2>2
    <3>4. ASSUME NEW q \in Pools, q # p PROVE Unminted(q)' <= Unminted(q)
      BY <3>3, <3>4, <2>1, <2>4, <2>7, UnmintedDiluted
    <3> QED BY <3>1, <3>2, <3>4, <1>4
  <2> QED BY <2>6, <2>7
<1>8. ASSUME NEW u \in Accounts, NEW p \in Pools, emergencyWithdraw(u, p)
      PROVE  \E P : Exchanges(P)
  <2>1. poolInfo' = poolInfo /\ rewards' = rewards
        /\ userInfo[p][u].amount <= lpSupply[p]
        /\ lpSupply' = [lpSupply EXCEPT ![p] = @ - userInfo[p][u].amount]
        /\ UNCHANGED <<block, totalAllocPoint, settings>>
    BY <1>8 DEF emergencyWithdraw
  <2>2. userInfo[p][u].amount \in Nat /\ lpSupply \in [Pools -> Nat]
    BY <1>1 DEF TypeOK, UserRecord
  <2>3. \A q \in Pools : lpSupply[q] = 0 => lpSupply'[q] = 0
    BY <2>1, <2>2
  <2>4. \A q \in Pools : Unminted(q)' <= Unminted(q)
    BY <2>1, <2>3, <1>1, UnmintedOfLess
  <2> QED BY <2>1, <2>4, <1>4
<1>9. CASE Tick
  BY <1>1, <1>9 DEF Tick, TypeOK
<1>10. CASE \E n \in PerBlocks : setHuskyPerBlock(n)
  BY <1>10 DEF setHuskyPerBlock
<1>11. CASE \E b \in Bonuses : setBonus(b)
  BY <1>11 DEF setBonus
<1>12. CASE \E amount \in BadgeAmounts : lockToOwner(amount) \/ unlockFromOwner(amount)
  BY <1>12 DEF lockToOwner, unlockFromOwner
<1>13. CASE \E p \in Pools, amount \in Amounts : Donate(p, amount)
  BY <1>13 DEF Donate
<1> QED BY <1>2, <1>5, <1>6, <1>7, <1>8, <1>9, <1>10, <1>11, <1>12, <1>13, OnePoolSteps DEF Next

\* Rewards grow with blocks only: while the rate and the bonus stay, no deposit,
\* withdrawal, update, new pool or change of weights (addPool, setPool) adds to
\* what past blocks have paid and still have to pay.
THEOREM RewardsByBlocks == Spec => RewardsOnlyByBlocks
<1> DEFINE Kept == block' = block /\ UNCHANGED settings
                     /\ (poolInfo' # poolInfo \/ userInfo' # userInfo)
                     => RewardsSoFar' <= RewardsSoFar
<1>1. IInv' => UnmintedNat'
  BY UnmintedType, PTL
<1>2. ASSUME IInv, IInv', [Next]_vars PROVE [Kept]_vars
  <2> SUFFICES ASSUME Next, block' = block, UNCHANGED settings,
                      poolInfo' # poolInfo \/ userInfo' # userInfo
               PROVE  RewardsSoFar' <= RewardsSoFar
    BY <1>2
  <2>1. UnmintedNat /\ UnmintedNat'
    BY <1>1, <1>2, UnmintedType
  <2>2. PICK P : Exchanges(P)
    BY <1>2, <2>1, ExchangeNext
  <2> QED BY <1>2, <2>1, <2>2, ExchangeStep
<1> QED BY <1>2, Invariance, PTL DEF Spec, RewardsOnlyByBlocks
-----------------------------------------------------------------------------
(* What _harvest locks. *)

\* The bonus never locks more than all of a reward, and is only set while the one
\* before it still runs or before the first reward.
BonusesInTime ==
    /\ bonus.lockUpBps <= BPS
    /\ [][bonus' # bonus =>
            /\ bonus'.lockUpBps <= BPS
            /\ block <= bonus.endBlock \/ \A p \in Pools : poolInfo[p].acc = 0]_vars

\* accTilBonusEnd follows acc until the bonus ends and stays behind it afterwards.
PoolLevel(pool, now, end) ==
    /\ pool.accTilBonusEnd <= pool.acc
    /\ now <= end => pool.accTilBonusEnd = pool.acc

\* The pool has got all of its bonus.
Over(pool, now, end) == now > end /\ pool.lastRewardBlock >= end

\* An account was settled during the bonus, with two equal debts, or after it.
DebtLevel(user, pool, now, end) ==
    user.amount > 0 =>
        \/ user.bonusDebt = user.rewardDebt
        \/ /\ Over(pool, now, end)
           /\ user.bonusDebt = Entitled(user.amount, pool.accTilBonusEnd)

BonusInv ==
    /\ bonus.lockUpBps <= BPS
    /\ \A p \in Pools :
          /\ PoolLevel(poolInfo[p], block, bonus.endBlock)
          /\ \A u \in Accounts :
                DebtLevel(userInfo[p][u], poolInfo[p], block, bonus.endBlock)

\* A share of fewer blocks is not larger.
LEMMA ShareMono ==
    ASSUME TypeOK, NEW p \in Pools, totalAllocPoint > 0, NEW m \in Nat, NEW n \in Nat, m <= n
    PROVE  Share(p, m) <= Share(p, n)
<1>1. huskyPerBlock \in Nat /\ poolInfo[p].allocPoint \in Nat /\ totalAllocPoint \in Nat \ {0}
  BY DEF TypeOK, PoolRecord
<1> DEFINE a == m * huskyPerBlock
           b == n * huskyPerBlock
<1>2. a \in Nat /\ b \in Nat /\ a <= b
  BY <1>1, MulMono
<1> HIDE DEF a, b
<1> DEFINE x == a * poolInfo[p].allocPoint
           y == b * poolInfo[p].allocPoint
<1>3. x \in Nat /\ y \in Nat /\ x <= y
  BY <1>1, <1>2, MulMono
<1> HIDE DEF x, y
<1>4. x \div totalAllocPoint <= y \div totalAllocPoint
  BY <1>1, <1>3, DivMono
<1> QED BY <1>4 DEF Share, a, b, x, y

\* The bonus in a reward is a part of it, and nothing once the bonus is over.
LEMMA BonusWithinReward ==
    ASSUME TypeOK, NEW p \in Pools, Due(p), totalAllocPoint > 0
    PROVE  /\ BonusPortion(p) <= huskyReward(p)
           /\ Over(poolInfo[p], block, bonus.endBlock) => BonusPortion(p) = 0
<1> DEFINE from == poolInfo[p].lastRewardBlock
           end == bonus.endBlock
<1>1. /\ block \in Nat /\ from \in Nat /\ end \in Nat /\ bonus.multiplier \in Nat
      /\ block > from
  BY DEF TypeOK, PoolRecord, Due
<1>2. huskyReward(p) \in Nat
  BY RewardType
<1>3. CASE block <= end
  BY <1>1, <1>2, <1>3 DEF BonusPortion, Over
<1>4. CASE ~(block <= end) /\ from >= end
  BY <1>1, <1>2, <1>4 DEF BonusPortion, Over
<1>5. CASE ~(block <= end) /\ ~(from >= end)
  <2> DEFINE m == (end - from) * bonus.multiplier
             n == m + (block - end)
  <2>1. BonusPortion(p) = Share(p, m)
    BY <1>1, <1>5 DEF BonusPortion
  <2>2. getMultiplier(from, block) = n
    BY <1>1, <1>5 DEF getMultiplier
  <2>3. m \in Nat
    BY <1>1, <1>5, MultiplierType
  <2> HIDE DEF m
  <2>4. n \in Nat /\ m <= n
    BY <1>1, <1>5, <2>3
  <2> HIDE DEF n
  <2>5. Share(p, m) <= Share(p, n)
    BY <2>3, <2>4, ShareMono
  <2>6. huskyReward(p) = Share(p, n)
    BY <2>2 DEF huskyReward
  <2> QED BY <1>1, <1>5, <2>1, <2>5, <2>6 DEF Over
<1> QED BY <1>1, <1>3, <1>4, <1>5

\* The pool after an update, whether it was due or not.
LEMMA UpdatedLevel ==
    ASSUME IInv, NEW p \in Pools, CanUpdate(p),
           PoolLevel(poolInfo[p], block, bonus.endBlock)
    PROVE  /\ PoolLevel(updatedPool(p), block, bonus.endBlock)
           /\ block > bonus.endBlock => Over(updatedPool(p), block, bonus.endBlock)
           /\ Over(poolInfo[p], block, bonus.endBlock)
                => updatedPool(p).accTilBonusEnd = poolInfo[p].accTilBonusEnd
<1> DEFINE pool == poolInfo[p]
           new == updatedPool(p)
           end == bonus.endBlock
<1>1. /\ TypeOK /\ pool \in PoolRecord /\ pool.acc \in Nat /\ pool.accTilBonusEnd \in Nat
      /\ pool.lastRewardBlock \in Nat /\ lpSupply[p] \in Nat
      /\ block \in Nat /\ end \in Nat /\ PRECISION \in Nat \ {0}
  BY FairLaunchAssumption DEF IInv, TypeOK, PoolRecord
<1>2. pool.accTilBonusEnd <= pool.acc /\ (block <= end => pool.accTilBonusEnd = pool.acc)
  BY DEF PoolLevel
<1>3. new \in PoolRecord /\ new.lastRewardBlock \in Nat /\ new.lastRewardBlock >= block
  BY UpdateFacts DEF IInv, PoolRecord
<1>4. block > end => Over(new, block, end)
  BY <1>1, <1>3 DEF Over
<1>5. CASE ~Rewarding(p)
  <2>1. new.acc = pool.acc /\ new.accTilBonusEnd = pool.accTilBonusEnd
    BY <1>1, <1>5 DEF updatedPool, Rewarding, PoolRecord
  <2> QED BY <1>2, <1>4, <2>1 DEF PoolLevel
<1>6. CASE Rewarding(p)
  <2> DEFINE reward == huskyReward(p)
             bp == BonusPortion(p)
             acc == pool.acc + PerShare(reward, p)
             til == IF block <= end THEN acc ELSE pool.accTilBonusEnd + PerShare(bp, p)
  <2>1. Due(p) /\ lpSupply[p] \in Nat \ {0} /\ totalAllocPoint > 0
    BY <1>1, <1>6 DEF Rewarding, CanUpdate
  <2>2. new = [pool EXCEPT !.acc = acc, !.accTilBonusEnd = til, !.lastRewardBlock = block]
    BY <1>1, <2>1 DEF updatedPool, PoolRecord
  <2>3. reward \in Nat /\ bp \in Nat /\ bp <= reward /\ (Over(pool, block, end) => bp = 0)
    BY <1>1, <2>1, RewardType, BonusWithinReward
  <2> HIDE DEF reward, bp
  <2>4. /\ PerShare(reward, p) \in Nat /\ PerShare(bp, p) \in Nat
        /\ PerShare(bp, p) <= PerShare(reward, p)
        /\ bp = 0 => PerShare(bp, p) = 0
    <3> DEFINE x == reward * PRECISION
               y == bp * PRECISION
    <3>1. x \in Nat /\ y \in Nat /\ y <= x /\ (bp = 0 => y = 0)
      BY <1>1, <2>3, MulMono
    <3> HIDE DEF x, y
    <3>2. /\ x \div lpSupply[p] \in Nat /\ y \div lpSupply[p] \in Nat
          /\ y \div lpSupply[p] <= x \div lpSupply[p] /\ (y = 0 => y \div lpSupply[p] = 0)
      BY <2>1, <3>1, FloorBounds, DivMono
    <3> QED BY <3>1, <3>2 DEF PerShare, x, y
  <2> DEFINE r == PerShare(reward, p)
             b == PerShare(bp, p)
  <2> HIDE DEF r, b
  <2>5. acc = pool.acc + r /\ til = IF block <= end THEN acc ELSE pool.accTilBonusEnd + b
    BY DEF r, b
  <2>6. r \in Nat /\ b \in Nat /\ b <= r /\ (bp = 0 => b = 0)
    BY <2>4 DEF r, b
  <2> HIDE DEF acc, til
  <2>7. new.acc = acc /\ new.accTilBonusEnd = til
    BY <1>1, <2>2 DEF PoolRecord
  <2>8. til <= acc /\ (block <= end => til = acc)
    BY <1>1, <1>2, <2>5, <2>6
  <2>9. Over(pool, block, end) => til = pool.accTilBonusEnd
    BY <1>1, <2>3, <2>5, <2>6 DEF Over
  <2> QED BY <1>4, <2>7, <2>8, <2>9 DEF PoolLevel
<1> QED BY <1>5, <1>6

\* A step that brings pools up to date and settles accounts on them, within a block:
\* every pool is kept or updated, every account kept, emptied or settled.
Follows(p) ==
    \/ poolInfo'[p] = poolInfo[p]
    \/ /\ CanUpdate(p)
       /\ poolInfo'[p].acc = updatedPool(p).acc
       /\ poolInfo'[p].accTilBonusEnd = updatedPool(p).accTilBonusEnd
       /\ poolInfo'[p].lastRewardBlock = updatedPool(p).lastRewardBlock
    \/ /\ \A u \in Accounts : userInfo'[p][u].amount = 0
       /\ poolInfo'[p].acc = 0 /\ poolInfo'[p].accTilBonusEnd = 0
Settled(p, u) ==
    /\ userInfo'[p][u].rewardDebt = Entitled(userInfo'[p][u].amount, poolInfo'[p].acc)
    /\ userInfo'[p][u].bonusDebt
         = Entitled(userInfo'[p][u].amount, poolInfo'[p].accTilBonusEnd)
    /\ CanUpdate(p)
    /\ poolInfo'[p] = updatedPool(p)
FollowsAll ==
    /\ UNCHANGED <<block, bonus>>
    /\ \A p \in Pools :
          /\ Follows(p)
          /\ \A u \in Accounts :
                \/ userInfo'[p][u] = userInfo[p][u]
                \/ userInfo'[p][u].amount = 0
                \/ Settled(p, u)

\* Such a step keeps the two accumulators and the two debts in their relation.
LEMMA FollowsLevel ==
    ASSUME IInv, IInv', BonusInv, FollowsAll
    PROVE  BonusInv'
<1> DEFINE end == bonus.endBlock
<1>1. block' = block /\ bonus' = bonus /\ block \in Nat /\ end \in Nat
  BY DEF FollowsAll, IInv, TypeOK
<1>2. ASSUME NEW p \in Pools
      PROVE  /\ PoolLevel(poolInfo'[p], block, end)
             /\ \A u \in Accounts : DebtLevel(userInfo'[p][u], poolInfo'[p], block, end)
  <2>1. /\ PoolLevel(poolInfo[p], block, end)
        /\ \A u \in Accounts : DebtLevel(userInfo[p][u], poolInfo[p], block, end)
    BY DEF BonusInv
  <2>2. CASE (\A u \in Accounts : userInfo'[p][u].amount = 0)
             /\ poolInfo'[p].acc = 0 /\ poolInfo'[p].accTilBonusEnd = 0
    BY <2>2 DEF PoolLevel, DebtLevel
  <2>3. CASE poolInfo'[p] = poolInfo[p] /\ ~CanUpdate(p)
    BY <2>1, <2>3 DEF FollowsAll, Settled, DebtLevel
  <2>4. ASSUME CanUpdate(p), \/ poolInfo'[p] = poolInfo[p]
                             \/ /\ poolInfo'[p].acc = updatedPool(p).acc
                                /\ poolInfo'[p].accTilBonusEnd = updatedPool(p).accTilBonusEnd
                                /\ poolInfo'[p].lastRewardBlock = updatedPool(p).lastRewardBlock
        PROVE  /\ PoolLevel(poolInfo'[p], block, end)
               /\ \A u \in Accounts : DebtLevel(userInfo'[p][u], poolInfo'[p], block, end)
    <3> DEFINE pool == poolInfo[p]
               new == updatedPool(p)
               pool1 == poolInfo'[p]
    <3>1. /\ PoolLevel(new, block, end)
          /\ block > end => Over(new, block, end)
          /\ Over(pool, block, end) => new.accTilBonusEnd = pool.accTilBonusEnd
      BY <2>1, <2>4, UpdatedLevel
    <3>2. PoolLevel(pool1, block, end)
      BY <2>1, <2>4, <3>1 DEF PoolLevel
    <3>3. Over(pool, block, end)
            => Over(pool1, block, end) /\ pool1.accTilBonusEnd = pool.accTilBonusEnd
      BY <2>4, <3>1 DEF Over
    <3>4. ASSUME NEW u \in Accounts PROVE DebtLevel(userInfo'[p][u], pool1, block, end)
      <4>1. CASE userInfo'[p][u] = userInfo[p][u]
        BY <2>1, <3>3, <4>1 DEF DebtLevel
      <4>2. CASE userInfo'[p][u].amount = 0
        BY <4>2 DEF DebtLevel
      <4>3. CASE Settled(p, u)
        <5>1. CASE block <= end
          <6>1. pool1.acc = pool1.accTilBonusEnd
            BY <3>2, <5>1 DEF PoolLevel
          <6> QED BY <4>3, <6>1 DEF Settled, DebtLevel
        <5>2. CASE block > end
          <6>1. Over(pool1, block, end)
            BY <3>1, <4>3, <5>2 DEF Settled
          <6> QED BY <4>3, <6>1 DEF Settled, DebtLevel
        <5> QED BY <1>1, <5>1, <5>2
      <4> QED BY <4>1, <4>2, <4>3 DEF FollowsAll
    <3> QED BY <3>2, <3>4
  <2>5. Follows(p)
    BY DEF FollowsAll
  <2> QED
    <3>1. CASE CanUpdate(p) /\ (poolInfo'[p] = poolInfo[p] \/
                 (/\ poolInfo'[p].acc = updatedPool(p).acc
                  /\ poolInfo'[p].accTilBonusEnd = updatedPool(p).accTilBonusEnd
                  /\ poolInfo'[p].lastRewardBlock = updatedPool(p).lastRewardBlock))
      BY <2>4, <3>1
    <3> QED BY <2>2, <2>3, <2>5, <3>1 DEF Follows
<1> QED BY <1>1, <1>2 DEF BonusInv

\* The records of a settled account.
LEMMA ResettledDebts ==
    ASSUME NEW user \in UserRecord, NEW pool, NEW amount
    PROVE  /\ Resettled(user, pool, amount).amount = amount
           /\ Resettled(user, pool, amount).rewardDebt = Entitled(amount, pool.acc)
           /\ Resettled(user, pool, amount).bonusDebt = Entitled(amount, pool.accTilBonusEnd)
BY DEF Resettled, RewardDebt, BonusDebt, UserRecord

\* deposit, withdraw and harvest settle one account on one pool.
LEMMA SettlesFollow ==
    ASSUME IInv, IInv', NEW p \in Pools, NEW u \in Accounts, CanUpdate(p), NEW user,
           poolInfo' = [poolInfo EXCEPT ![p] = updatedPool(p)],
           userInfo' = [userInfo EXCEPT ![p][u] = user],
           user.rewardDebt = Entitled(user.amount, updatedPool(p).acc),
           user.bonusDebt = Entitled(user.amount, updatedPool(p).accTilBonusEnd),
           UNCHANGED <<block, bonus>>
    PROVE  FollowsAll
<1>1. poolInfo \in [Pools -> PoolRecord] /\ userInfo \in [Pools -> [Accounts -> UserRecord]]
  BY DEF IInv, TypeOK
<1>2. /\ poolInfo'[p] = updatedPool(p) /\ userInfo'[p][u] = user
      /\ \A q \in Pools : q # p => poolInfo'[q] = poolInfo[q] /\ userInfo'[q] = userInfo[q]
      /\ \A v \in Accounts : v # u => userInfo'[p][v] = userInfo[p][v]
  BY <1>1
<1>3. Settled(p, u)
  BY <1>2 DEF Settled
<1> QED BY <1>2, <1>3 DEF FollowsAll, Follows

\* harvest settles one account on its updated pool.
LEMMA HarvestFollows ==
    ASSUME IInv, IInv', NEW u \in Accounts, NEW p \in Pools, harvest(u, p)
    PROVE  FollowsAll
<1> DEFINE old == userInfo[p][u]
           user == Resettled(old, updatedPool(p), old.amount)
<1>1. CanUpdate(p) /\ poolInfo' = [poolInfo EXCEPT ![p] = updatedPool(p)]
      /\ userInfo' = [userInfo EXCEPT ![p][u] = user] /\ UNCHANGED <<block, bonus>>
  BY DEF harvest, settings
<1>2. old \in UserRecord
  BY DEF IInv, TypeOK
<1>3. /\ user.rewardDebt = Entitled(user.amount, updatedPool(p).acc)
      /\ user.bonusDebt = Entitled(user.amount, updatedPool(p).accTilBonusEnd)
  BY <1>2, ResettledDebts
<1> HIDE DEF user
<1> QED BY <1>1, <1>3, SettlesFollow

\* deposit settles the account it adds to.
LEMMA DepositFollows ==
    ASSUME IInv, IInv', NEW sender \in Accounts, NEW for \in Accounts, NEW p \in Pools,
           NEW amount \in Amounts, deposit(sender, for, p, amount)
    PROVE  FollowsAll
<1> DEFINE old == userInfo[p][for]
           pool == updatedPool(p)
           res == Resettled(old, pool, old.amount + amount)
           user == [res EXCEPT !.fundedBy = sender]
<1>1. CanUpdate(p) /\ poolInfo' = [poolInfo EXCEPT ![p] = pool]
      /\ userInfo' = [userInfo EXCEPT ![p][for] = user] /\ UNCHANGED <<block, bonus>>
  BY DEF deposit, settings, PoolBeforeDeposit
<1>2. old \in UserRecord /\ amount \in Nat
  BY FairLaunchAssumption DEF IInv, TypeOK
<1>3. res \in UserRecord /\ pool \in PoolRecord
  <2>1. old.amount + amount \in Nat /\ pool \in PoolRecord
    BY <1>1, <1>2, UpdateFacts DEF UserRecord, IInv
  <2> QED BY <1>2, <2>1, ResettledFacts
<1>4. /\ res.rewardDebt = Entitled(res.amount, pool.acc)
      /\ res.bonusDebt = Entitled(res.amount, pool.accTilBonusEnd)
  BY <1>2, ResettledDebts
<1> HIDE DEF res, pool, old
<1>5. /\ user.rewardDebt = Entitled(user.amount, pool.acc)
      /\ user.bonusDebt = Entitled(user.amount, pool.accTilBonusEnd)
  BY <1>3, <1>4 DEF UserRecord
<1> HIDE DEF user
<1> QED BY <1>1, <1>5, SettlesFollow DEF pool

\* withdraw settles the account it takes from.
LEMMA WithdrawFollows ==
    ASSUME IInv, IInv', NEW sender \in Accounts, NEW for \in Accounts, NEW p \in Pools,
           NEW amount \in Amounts, withdraw(sender, for, p, amount)
    PROVE  FollowsAll
<1> DEFINE old == userInfo[p][for]
           pool == updatedPool(p)
           left == old.amount - amount
           res == Resettled(old, pool, left)
           user == [res EXCEPT !.fundedBy = IF left = 0 THEN NoAddress ELSE @]
<1>1. CanUpdate(p) /\ poolInfo' = [poolInfo EXCEPT ![p] = pool]
      /\ userInfo' = [userInfo EXCEPT ![p][for] = user] /\ UNCHANGED <<block, bonus>>
  BY DEF withdraw, settings
<1>2. old \in UserRecord /\ amount \in Nat
  BY FairLaunchAssumption DEF IInv, TypeOK
<1>3. res \in UserRecord /\ pool \in PoolRecord
  <2>1. left \in Nat /\ pool \in PoolRecord
    BY <1>1, <1>2, UpdateFacts DEF UserRecord, IInv, withdraw
  <2> QED BY <1>2, <2>1, ResettledFacts
<1>4. /\ res.rewardDebt = Entitled(res.amount, pool.acc)
      /\ res.bonusDebt = Entitled(res.amount, pool.accTilBonusEnd)
  BY <1>2, ResettledDebts
<1> HIDE DEF res, pool, old, left
<1>5. /\ user.rewardDebt = Entitled(user.amount, pool.acc)
      /\ user.bonusDebt = Entitled(user.amount, pool.accTilBonusEnd)
  BY <1>3, <1>4 DEF UserRecord
<1> HIDE DEF user
<1> QED BY <1>1, <1>5, SettlesFollow DEF pool

\* emergencyWithdraw empties one account and leaves its bonus debt as it is.
LEMMA EmergencyFollows ==
    ASSUME IInv, NEW u \in Accounts, NEW p \in Pools, emergencyWithdraw(u, p)
    PROVE  FollowsAll
<1> DEFINE old == userInfo[p][u]
           user == [old EXCEPT !.amount = 0, !.rewardDebt = 0, !.fundedBy = NoAddress]
<1>1. /\ userInfo' = [userInfo EXCEPT ![p][u] = user]
      /\ UNCHANGED <<block, poolInfo, bonus>>
  BY DEF emergencyWithdraw, AmountAfterEmergency, settings
<1>2. userInfo \in [Pools -> [Accounts -> UserRecord]] /\ old \in UserRecord
  BY DEF IInv, TypeOK
<1>3. user.amount = 0
  BY <1>2 DEF UserRecord
<1> HIDE DEF user
<1>4. userInfo'[p][u].amount = 0
      /\ \A q \in Pools, v \in Accounts :
            q # p \/ v # u => userInfo'[q][v] = userInfo[q][v]
  BY <1>1, <1>2, <1>3
<1> QED BY <1>1, <1>4 DEF FollowsAll, Follows

\* A step that touches no account.
LEMMA PoolsFollow ==
    ASSUME IInv, UNCHANGED <<block, bonus, userInfo>>, \A q \in Pools : Follows(q)
    PROVE  FollowsAll
BY DEF FollowsAll

\* updatePool, massUpdatePools, setPool and addPool keep, update or start pools.
LEMMA AdminFollows ==
    ASSUME IInv, NEW p \in Pools, NEW a \in AllocPoints, NEW w \in BOOLEAN,
           updatePool(p) \/ massUpdatePools \/ setPool(p, a) \/ addPool(p, a, w)
    PROVE  FollowsAll
<1>1. poolInfo \in [Pools -> PoolRecord] /\ UNCHANGED <<block, bonus, userInfo>>
  BY DEF IInv, TypeOK, updatePool, massUpdatePools, setPool, addPool, settings
<1>2. ASSUME MassUpdate, NEW q \in Pools
      PROVE  /\ MassUpdated[q] \in PoolRecord
             /\ MassUpdated[q] = poolInfo[q] \/ (CanUpdate(q) /\ MassUpdated[q] = updatedPool(q))
  BY <1>2, MassUpdatedFacts DEF MassUpdated
<1>3. MassUpdated \in [Pools -> PoolRecord] \/ ~MassUpdate
  BY MassUpdatedFacts
<1>4. CASE updatePool(p)
  <2>1. \A q \in Pools : Follows(q)
    BY <1>1, <1>4 DEF updatePool, Follows
  <2> QED BY <1>1, <2>1, PoolsFollow
<1>5. CASE massUpdatePools
  <2>1. ASSUME NEW q \in Pools PROVE Follows(q)
    BY <1>2, <1>5 DEF massUpdatePools, Follows
  <2> QED BY <1>1, <2>1, PoolsFollow
<1>6. CASE setPool(p, a)
  <2>1. MassUpdate /\ poolInfo' = [MassUpdated EXCEPT ![p].allocPoint = a]
    BY <1>6 DEF setPool
  <2> DEFINE mid == MassUpdated
  <2>2. mid \in [Pools -> PoolRecord] /\ \A q \in Pools :
          mid[q] = poolInfo[q] \/ (CanUpdate(q) /\ mid[q] = updatedPool(q))
    BY <1>2, <1>3, <2>1
  <2>3. poolInfo' = [mid EXCEPT ![p].allocPoint = a]
    BY <2>1
  <2> HIDE DEF mid
  <2>4. \A q \in Pools : /\ poolInfo'[q].acc = mid[q].acc
                         /\ poolInfo'[q].accTilBonusEnd = mid[q].accTilBonusEnd
                         /\ poolInfo'[q].lastRewardBlock = mid[q].lastRewardBlock
    BY <2>2, <2>3 DEF PoolRecord
  <2>5. p \in Added
    BY <1>6 DEF setPool
  <2>6. CanUpdate(p) /\ mid[p] = updatedPool(p)
    BY <2>1, <2>5 DEF MassUpdate, mid, MassUpdated
  <2>7. ASSUME NEW q \in Pools PROVE Follows(q)
    <3>1. CASE q = p
      BY <2>4, <2>6, <3>1 DEF Follows
    <3>2. CASE q # p
      <4>1. poolInfo'[q] = mid[q]
        BY <2>2, <2>3, <3>2
      <4> QED BY <2>2, <4>1 DEF Follows
    <3> QED BY <3>1, <3>2
  <2> QED BY <1>1, <2>7, PoolsFollow
<1>7. CASE addPool(p, a, w)
  <2> DEFINE mid == IF w THEN MassUpdated ELSE poolInfo
             new == [NoPool EXCEPT !.added = TRUE, !.allocPoint = a,
                       !.lastRewardBlock = IF block > startBlock THEN block ELSE startBlock]
  <2>1. poolInfo' = [mid EXCEPT ![p] = new] /\ (w => MassUpdate) /\ ~poolInfo[p].added
    BY <1>7 DEF addPool, Added
  <2>2. new.acc = 0 /\ new.accTilBonusEnd = 0
    BY DEF NoPool
  <2>3. mid \in [Pools -> PoolRecord] /\ \A q \in Pools :
          mid[q] = poolInfo[q] \/ (CanUpdate(q) /\ mid[q] = updatedPool(q))
    BY <1>1, <1>2, <1>3, <2>1
  <2> HIDE DEF mid, new
  <2>4. poolInfo'[p] = new /\ \A q \in Pools : q # p => poolInfo'[q] = mid[q]
    BY <2>1, <2>3
  <2>5. \A u \in Accounts : userInfo'[p][u].amount = 0
    BY <1>1, <2>1 DEF IInv, PoolsWellFormed
  <2>6. ASSUME NEW q \in Pools PROVE Follows(q)
    BY <2>2, <2>3, <2>4, <2>5 DEF Follows
  <2> QED BY <1>1, <2>6, PoolsFollow
<1> QED BY <1>4, <1>5, <1>6, <1>7

\* A later block, and a step that touches neither pools, accounts nor the bonus.
LEMMA QuietLevel ==
    ASSUME IInv, BonusInv, UNCHANGED <<poolInfo, userInfo, bonus>>, block' \in Nat, block <= block'
    PROVE  BonusInv'
<1> DEFINE end == bonus.endBlock
<1>1. block \in Nat /\ end \in Nat
  BY DEF IInv, TypeOK
<1>2. \A p \in Pools : /\ PoolLevel(poolInfo[p], block, end)
                       /\ \A u \in Accounts : DebtLevel(userInfo[p][u], poolInfo[p], block, end)
  BY DEF BonusInv
<1>3. \A p \in Pools : Over(poolInfo[p], block, end) => Over(poolInfo[p], block', end)
  BY <1>1 DEF Over
<1>4. \A p \in Pools : PoolLevel(poolInfo[p], block', end)
  BY <1>1, <1>2 DEF PoolLevel
<1>5. \A p \in Pools, u \in Accounts : DebtLevel(userInfo[p][u], poolInfo[p], block', end)
  BY <1>2, <1>3 DEF DebtLevel
<1> QED BY <1>4, <1>5 DEF BonusInv

\* A new bonus finds the two accumulators and the two debts of every account equal.
LEMMA SetBonusLevel ==
    ASSUME IInv, BonusInv, NEW b \in Bonuses, setBonus(b), bonus'.lockUpBps <= BPS,
           block <= bonus.endBlock \/ \A p \in Pools : poolInfo[p].acc = 0
    PROVE  BonusInv'
<1> DEFINE end == bonus.endBlock
<1>1. UNCHANGED <<block, poolInfo, userInfo>>
  BY DEF setBonus
<1>2. block \in Nat /\ end \in Nat
  BY DEF IInv, TypeOK
<1>3. ASSUME NEW p \in Pools
      PROVE  /\ poolInfo[p].accTilBonusEnd = poolInfo[p].acc
             /\ \A u \in Accounts : userInfo[p][u].amount > 0
                   => userInfo[p][u].bonusDebt = userInfo[p][u].rewardDebt
  <2> DEFINE pool == poolInfo[p]
  <2>1. PoolLevel(pool, block, end) /\ \A u \in Accounts : DebtLevel(userInfo[p][u], pool, block, end)
    BY DEF BonusInv
  <2>2. CASE block <= end
    BY <1>2, <2>1, <2>2 DEF PoolLevel, DebtLevel, Over
  <2>3. CASE pool.acc = 0
    <3>1. pool.acc \in Nat /\ pool.accTilBonusEnd \in Nat
      BY DEF IInv, TypeOK, PoolRecord
    <3>2. pool.accTilBonusEnd = 0
      BY <2>1, <2>3, <3>1 DEF PoolLevel
    <3>3. ASSUME NEW u \in Accounts, userInfo[p][u].amount > 0
          PROVE  userInfo[p][u].bonusDebt = userInfo[p][u].rewardDebt
      <4> DEFINE user == userInfo[p][u]
      <4>1. user \in UserRecord /\ Claim(user, 0) >= 0
        BY <2>3 DEF IInv, TypeOK, ClaimsNotNegative
      <4>2. user.rewardDebt \in Nat /\ user.amount \in Nat /\ PRECISION \in Nat \ {0}
        BY <4>1, FairLaunchAssumption DEF UserRecord
      <4>3. user.rewardDebt = 0
        <5> DEFINE d == user.rewardDebt
        <5>1. 0 - PRECISION * d >= 0
          BY <4>1, <4>2 DEF Claim
        <5> HIDE DEF d
        <5>2. d \in Nat
          BY <4>2 DEF d
        <5>3. d > 0 => PRECISION * d > 0
          BY <4>2, <5>2
        <5> QED BY <4>2, <5>1, <5>2, <5>3 DEF d
      <4>4. Entitled(user.amount, 0) = 0
        <5> DEFINE x == user.amount * 0
        <5>1. x = 0
          BY <4>2
        <5> HIDE DEF x
        <5>2. x \div PRECISION = 0
          BY <4>2, <5>1, FloorBounds
        <5> QED BY <5>2 DEF Entitled, x
      <4> QED BY <2>1, <3>2, <3>3, <4>3, <4>4 DEF DebtLevel
    <3> QED BY <2>3, <3>2, <3>3
  <2> QED BY <2>2, <2>3
<1>4. \A p \in Pools : PoolLevel(poolInfo[p], block, bonus'.endBlock)
  <2> SUFFICES ASSUME NEW p \in Pools PROVE PoolLevel(poolInfo[p], block, bonus'.endBlock)
    OBVIOUS
  <2>1. poolInfo[p].acc \in Nat
    BY DEF IInv, TypeOK, PoolRecord
  <2> QED BY <1>3, <2>1 DEF PoolLevel
<1>5. \A p \in Pools, u \in Accounts : DebtLevel(userInfo[p][u], poolInfo[p], block, bonus'.endBlock)
  BY <1>3 DEF DebtLevel
<1> QED BY <1>1, <1>4, <1>5 DEF BonusInv

\* Every step keeps the relation while bonuses are set in time.
LEMMA BonusStep ==
    ASSUME IInv, IInv', BonusInv, [Next]_vars,
           bonus' # bonus =>
              /\ bonus'.lockUpBps <= BPS
              /\ block <= bonus.endBlock \/ \A p \in Pools : poolInfo[p].acc = 0
    PROVE  BonusInv'
<1>0. block \in Nat /\ block' \in Nat
  BY DEF IInv, TypeOK
<1>1. CASE UNCHANGED vars
  BY <1>0, <1>1, QuietLevel DEF vars, settings
<1>2. CASE Tick
  BY <1>0, <1>2, QuietLevel DEF Tick, settings
<1>3. CASE massUpdatePools
  <2>1. \A q \in Pools : Follows(q)
    <3> SUFFICES ASSUME NEW q \in Pools PROVE Follows(q)
      OBVIOUS
    <3>1. MassUpdate /\ poolInfo' = MassUpdated
      BY <1>3 DEF massUpdatePools
    <3>2. poolInfo'[q] = IF q \in Added THEN updatedPool(q) ELSE poolInfo[q]
      BY <3>1 DEF MassUpdated
    <3>3. q \in Added => CanUpdate(q)
      BY <3>1 DEF MassUpdate
    <3> QED BY <3>2, <3>3 DEF Follows
  <2> QED BY <1>3, <2>1, PoolsFollow, FollowsLevel DEF massUpdatePools, settings
<1>4. CASE \E n \in PerBlocks : setHuskyPerBlock(n)
  BY <1>0, <1>4, QuietLevel DEF setHuskyPerBlock
<1>5. ASSUME NEW b \in Bonuses, setBonus(b) PROVE BonusInv'
  <2>1. CASE bonus' = bonus
    BY <1>0, <1>5, <2>1, QuietLevel DEF setBonus
  <2>2. CASE bonus' # bonus
    BY <1>5, <2>2, SetBonusLevel
  <2> QED BY <2>1, <2>2
<1>6. CASE \E amount \in BadgeAmounts : lockToOwner(amount) \/ unlockFromOwner(amount)
  BY <1>0, <1>6, QuietLevel DEF lockToOwner, unlockFromOwner, settings
<1>7. ASSUME NEW p \in Pools, updatePool(p) PROVE BonusInv'
  <2>1. poolInfo \in [Pools -> PoolRecord]
    BY DEF IInv, TypeOK
  <2>2. \A q \in Pools : Follows(q)
    BY <1>7, <2>1 DEF updatePool, Follows
  <2> QED BY <1>7, <2>2, PoolsFollow, FollowsLevel DEF updatePool, settings
<1>8. ASSUME NEW p \in Pools, NEW a \in AllocPoints, NEW w \in BOOLEAN,
             setPool(p, a) \/ addPool(p, a, w)
      PROVE  BonusInv'
  BY <1>8, AdminFollows, FollowsLevel
<1>9. ASSUME NEW p \in Pools, NEW a \in AllocPoints, setPool(p, a) PROVE BonusInv'
  BY <1>8, <1>9
<1>10. CASE \E p \in Pools, amount \in Amounts : Donate(p, amount)
  BY <1>0, <1>10, QuietLevel DEF Donate, settings
<1>11. ASSUME NEW p \in Pools, NEW u \in Accounts, harvest(u, p) \/ emergencyWithdraw(u, p)
       PROVE  BonusInv'
  BY <1>11, HarvestFollows, EmergencyFollows, FollowsLevel
<1>12. ASSUME NEW p \in Pools, NEW u \in Accounts, NEW for \in Accounts, NEW amount \in Amounts,
              deposit(u, for, p, amount) \/ withdraw(u, for, p, amount)
       PROVE  BonusInv'
  BY <1>12, DepositFollows, WithdrawFollows, FollowsLevel
<1> QED BY <1>1, <1>2, <1>3, <1>4, <1>5, <1>6, <1>7, <1>8, <1>9, <1>10, <1>11, <1>12 DEF Next

\* Nobody has staked yet.
LEMMA BonusInit == Init /\ bonus.lockUpBps <= BPS => BonusInv
<1> SUFFICES ASSUME Init, bonus.lockUpBps <= BPS PROVE BonusInv
  OBVIOUS
<1>1. \A p \in Pools : PoolLevel(poolInfo[p], block, bonus.endBlock)
  BY DEF Init, NoPool, PoolLevel
<1>2. \A p \in Pools, u \in Accounts :
         DebtLevel(userInfo[p][u], poolInfo[p], block, bonus.endBlock)
  BY DEF Init, NoUser, DebtLevel
<1> QED BY <1>1, <1>2 DEF BonusInv

\* The bonus of an account is within its reward, and its lock within the bonus.
LEMMA BonusWithin == IInv /\ BonusInv => LockWithinReward
<1> SUFFICES ASSUME IInv, BonusInv, NEW p \in Pools, NEW u \in Accounts,
                    userInfo[p][u].amount > 0
             PROVE  BonusLock(userInfo[p][u], poolInfo[p])
                      <= Pending(userInfo[p][u], poolInfo[p])
  BY DEF LockWithinReward
<1> DEFINE user == userInfo[p][u]
           pool == poolInfo[p]
           B == BonusOf(user, pool)
           R == Pending(user, pool)
           bps == bonus.lockUpBps
<1>1. /\ user \in UserRecord /\ user.amount \in Nat /\ user.rewardDebt \in Nat
      /\ user.bonusDebt \in Nat /\ pool.acc \in Nat /\ pool.accTilBonusEnd \in Nat
      /\ BPS \in Nat \ {0} /\ bps \in Nat /\ bps <= BPS
  BY FairLaunchAssumption DEF IInv, TypeOK, UserRecord, PoolRecord, BonusInv
<1>2. /\ pool.accTilBonusEnd <= pool.acc
      /\ \/ user.bonusDebt = user.rewardDebt
         \/ user.bonusDebt = Entitled(user.amount, pool.accTilBonusEnd)
  BY DEF BonusInv, PoolLevel, DebtLevel
<1>3. /\ Entitled(user.amount, pool.accTilBonusEnd) \in Nat /\ Entitled(user.amount, pool.acc) \in Nat
      /\ Entitled(user.amount, pool.accTilBonusEnd) <= Entitled(user.amount, pool.acc)
  BY <1>1, <1>2, EntitledMono
<1>4. R \in Nat
  BY <1>1, PendingFloor DEF IInv, ClaimsNotNegative
<1>5. B \in Int /\ B <= R
  BY <1>1, <1>2, <1>3, <1>4 DEF BonusOf, Pending
<1>6. BonusLock(user, pool) = (B * bps) \div BPS
  BY DEF BonusLock
<1> HIDE DEF B, R, bps, user, pool
<1>7. (B * bps) \div BPS <= R
  <2> DEFINE x == B * bps
             y == BPS * R
  <2>1. x \in Int /\ y \in Nat
    BY <1>1, <1>4, <1>5
  <2>2. x <= y
    <3>1. CASE B <= 0
      <4>1. x <= 0
        BY <1>1, <1>5, <3>1
      <4> QED BY <2>1, <4>1
    <3>2. CASE B > 0
      <4>1. B \in Nat
        BY <1>5, <3>2
      <4>2. B * bps <= B * BPS
        BY <1>1, <4>1, MulMono
      <4>3. B * BPS <= R * BPS
        BY <1>1, <1>4, <1>5, <4>1, MulMono
      <4>4. R * BPS = BPS * R /\ B * BPS \in Nat
        BY <1>1, <1>4, <4>1
      <4> QED BY <2>1, <4>1, <4>2, <4>3, <4>4
    <3> QED BY <1>5, <3>1, <3>2
  <2> HIDE DEF x
  <2>3. y \div BPS = R
    BY <1>1, <1>4
  <2> HIDE DEF y
  <2>4. x \div BPS <= y \div BPS
    BY <1>1, <2>1, <2>2
  <2>5. x \div BPS \in Int /\ y \div BPS \in Int
    BY <1>1, <2>1
  <2> QED BY <2>3, <2>4, <2>5, <1>4 DEF x
<1> QED BY <1>6, <1>7 DEF user, pool, R

\* While the bonus locks at most all of a reward (lockUpBps <= BPS) and setBonus is
\* only called before the running bonus ends or before the first reward, what
\* _harvest locks is always a part of the reward it has just paid: no harvest,
\* deposit or withdrawal depends on what else is in the user's wallet.  A bonus
\* set after the end of another breaks it, as the late bonus run shows.
THEOREM LockAlwaysWithinReward == Spec /\ BonusesInTime => []LockWithinReward
<1> DEFINE InTime == bonus' # bonus =>
                        /\ bonus'.lockUpBps <= BPS
                        /\ block <= bonus.endBlock \/ \A p \in Pools : poolInfo[p].acc = 0
<1>1. IInv /\ IInv' /\ BonusInv /\ [Next]_vars /\ [InTime]_vars => BonusInv'
  <2> SUFFICES ASSUME IInv, IInv', BonusInv, [Next]_vars, [InTime]_vars PROVE BonusInv'
    OBVIOUS
  <2>1. InTime
    BY DEF vars, settings
  <2> QED BY <2>1, BonusStep
<1> QED BY <1>1, BonusInit, BonusWithin, Invariance, PTL DEF Spec, BonusesInTime
=============================================================================
