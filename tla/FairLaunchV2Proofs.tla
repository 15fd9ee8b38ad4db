------------------------- MODULE FairLaunchV2Proofs -------------------------
(***************************************************************************)
(* Proofs about FairLaunchV2 and LinearRelease, for all constants of       *)
(* FairLaunchV2Assumption.  RewardsBacked needs BackedInv, one inequality  *)
(* over all pools: their claims before rounding, times the total weight,   *)
(* and the weighted rewards they still have to take in are within the      *)
(* HUSKI earned so far, times the total weight.                            *)
(***************************************************************************)
EXTENDS FairLaunchV2, LedgerMathProofs

PoolRecord == [added : BOOLEAN, allocPoint : Nat, lastRewardBlock : Nat,
               accHuskyPerShare : Nat, locked : BOOLEAN]
UserRecord == [amount : Nat, rewardDebt : Nat, fundedBy : Accounts \cup {NoAddress}]

AmountsOf(us) == [u \in Accounts |-> us[u].amount]
Stakes(us) == SumFunctionOnSet(AmountsOf(us), Accounts)
-----------------------------------------------------------------------------
(* The arithmetic of reward debts. *)

\* What an amount earns grows with accHuskyPerShare.
LEMMA TimesMono ==
    ASSUME NEW a \in Nat, NEW x \in Nat, NEW y \in Nat, x <= y
    PROVE  Times(a, x) \in Nat /\ Times(a, y) \in Nat /\ Times(a, x) <= Times(a, y)
<1>1. a * x <= a * y /\ a * x \in Nat /\ a * y \in Nat
  BY MulMono
<1>2. ACC_HUSKY_PRECISION \in Nat \ {0}
  BY FairLaunchV2Assumption
<1>3. /\ (a * x) \div ACC_HUSKY_PRECISION \in Nat /\ (a * y) \div ACC_HUSKY_PRECISION \in Nat
  BY <1>1, <1>2, FloorBounds
<1>4. (a * x) \div ACC_HUSKY_PRECISION <= (a * y) \div ACC_HUSKY_PRECISION
  BY <1>1, <1>2, DivMono
<1> QED BY <1>3, <1>4 DEF Times

\* Two amounts earn together what they earn apart, or one unit more.
LEMMA TimesSum ==
    ASSUME NEW a \in Nat, NEW b \in Nat, NEW x \in Nat
    PROVE  /\ Times(a, x) \in Nat /\ Times(b, x) \in Nat /\ Times(a + b, x) \in Nat
           /\ Times(a, x) + Times(b, x) <= Times(a + b, x)
           /\ Times(a + b, x) <= Times(a, x) + Times(b, x) + 1
<1>1. (a + b) * x = a * x + b * x /\ a * x \in Nat /\ b * x \in Nat
  OBVIOUS
<1>2. ACC_HUSKY_PRECISION \in Nat \ {0}
  BY FairLaunchV2Assumption
<1> DEFINE X == a * x
           Y == b * x
           P == ACC_HUSKY_PRECISION
<1>3. X \in Nat /\ Y \in Nat /\ X + Y \in Nat /\ P \in Nat \ {0}
  BY <1>1, <1>2
<1>4. Times(a, x) = X \div P /\ Times(b, x) = Y \div P /\ Times(a + b, x) = (X + Y) \div P
  BY <1>1 DEF Times
<1> HIDE DEF X, Y, P
<1>5. (X + Y) \div P - (X \div P + Y \div P) \in {0, 1}
  BY <1>3, FloorSum
<1>6. X \div P \in Nat /\ Y \div P \in Nat /\ (X + Y) \div P \in Nat
  BY <1>3, FloorBounds
<1> QED BY <1>4, <1>5, <1>6

\* Nothing staked earns nothing.
LEMMA TimesZero == ASSUME NEW x \in Nat PROVE Times(0, x) = 0
<1>1. 0 * x = 0 /\ ACC_HUSKY_PRECISION \in Nat \ {0}
  BY FairLaunchV2Assumption
<1> QED BY <1>1, ZeroDiv DEF Times
-----------------------------------------------------------------------------
(* The inductive invariant: the staked amounts add up to the tokens held, and *)
(* a pool that was not added has no reward and no weight.                      *)

TypeOK ==
    /\ pools \in [Pools -> PoolRecord]
    /\ users \in [Pools -> [Accounts -> UserRecord]]
    /\ totalAllocPoint \in Int /\ stake \in [Pools -> Int] /\ block \in Nat

StakesHeld == \A p \in Pools : Stakes(users[p]) <= stake[p]

FreshPools ==
    \A p \in Pools : ~pools[p].added
                       => pools[p].accHuskyPerShare = 0 /\ pools[p].allocPoint = 0

IInv == TypeOK /\ StakesHeld /\ FreshPools /\ RewardDebtWithinOne

\* AccNow: accHuskyPerShare of the pool brought up to date.
AccNow(p) == AccAt(p, stake[p])

\* The reward of n blocks per unit of the supply.
PerShare(pool, n, total, supply) ==
    ((n * huskyPerBlock * pool.allocPoint * ACC_HUSKY_PRECISION) \div total) \div supply

\* It grows with the blocks, falls with the supply and is nothing without a weight.
LEMMA PerShareFacts ==
    ASSUME NEW pool \in PoolRecord, NEW n \in Nat, NEW m \in Nat, n <= m,
           NEW total \in Nat \ {0}, NEW supply \in Nat \ {0}, NEW less \in Nat \ {0},
           less <= supply
    PROVE  /\ PerShare(pool, n, total, supply) \in Nat
           /\ PerShare(pool, n, total, less) \in Nat
           /\ PerShare(pool, m, total, supply) \in Nat
           /\ PerShare(pool, n, total, supply) <= PerShare(pool, m, total, supply)
           /\ PerShare(pool, n, total, supply) <= PerShare(pool, n, total, less)
           /\ pool.allocPoint = 0 => PerShare(pool, n, total, supply) = 0
<1> DEFINE c == huskyPerBlock * pool.allocPoint * ACC_HUSKY_PRECISION
           X == n * huskyPerBlock * pool.allocPoint * ACC_HUSKY_PRECISION
           Y == m * huskyPerBlock * pool.allocPoint * ACC_HUSKY_PRECISION
<1>1. /\ huskyPerBlock \in Nat /\ pool.allocPoint \in Nat /\ ACC_HUSKY_PRECISION \in Nat
  BY FairLaunchV2Assumption DEF PoolRecord
<1>2. huskyPerBlock * pool.allocPoint \in Nat
  BY <1>1
<1>3. c \in Nat
  BY <1>1, <1>2
<1>4. X = c * n /\ Y = c * m
  BY <1>1
<1>5. pool.allocPoint = 0 => c = 0
  <2>1. huskyPerBlock * 0 * ACC_HUSKY_PRECISION = 0
    BY <1>1
  <2> QED BY <2>1
<1>6. /\ PerShare(pool, n, total, supply) = (X \div total) \div supply
      /\ PerShare(pool, n, total, less) = (X \div total) \div less
      /\ PerShare(pool, m, total, supply) = (Y \div total) \div supply
  BY DEF PerShare
<1> HIDE DEF c, X, Y
<1>7. X <= Y /\ X \in Nat /\ Y \in Nat
  BY <1>3, <1>4, MulMono
<1> DEFINE x == X \div total
           y == Y \div total
<1>8. x \in Nat /\ y \in Nat /\ x <= y
  BY <1>7, FloorBounds, DivMono
<1>9. pool.allocPoint = 0 => x = 0
  <2> HAVE pool.allocPoint = 0
  <2>1. X = 0
    BY <1>3, <1>4, <1>5
  <2> QED BY <2>1, ZeroDiv
<1> HIDE DEF x, y
<1>10. x \div supply \in Nat /\ y \div supply \in Nat /\ x \div less \in Nat
  BY <1>8, FloorBounds
<1>11. x \div supply <= y \div supply
  BY <1>8, DivMono
<1>12. x \div supply <= x \div less
  BY <1>8, DivAnti
<1>13. pool.allocPoint = 0 => x \div supply = 0
  BY <1>9, ZeroDiv
<1> QED BY <1>6, <1>10, <1>11, <1>12, <1>13 DEF x, y

\* updatePool raises accHuskyPerShare and moves the clock to this block, nothing else.
LEMMA UpdateFacts ==
    ASSUME TypeOK, NEW p \in Pools, NEW supply \in Int
    PROVE  /\ AccAt(p, supply) \in Nat /\ AccAt(p, supply) >= pools[p].accHuskyPerShare
           /\ pools[p].allocPoint = 0 => AccAt(p, supply) = pools[p].accHuskyPerShare
           /\ Updated(p, supply) \in PoolRecord
           /\ Updated(p, supply).accHuskyPerShare = AccAt(p, supply)
           /\ Updated(p, supply).lastRewardBlock >= block
           /\ Updated(p, supply).added = pools[p].added
           /\ Updated(p, supply).allocPoint = pools[p].allocPoint
<1> DEFINE n == block - pools[p].lastRewardBlock
<1>1. /\ pools[p] \in PoolRecord /\ pools[p].accHuskyPerShare \in Nat
      /\ pools[p].lastRewardBlock \in Nat /\ block \in Nat /\ totalAllocPoint \in Int
  BY DEF TypeOK, PoolRecord
<1>2. AccAt(p, supply) = IF block > pools[p].lastRewardBlock /\ supply > 0 /\ totalAllocPoint > 0
                         THEN pools[p].accHuskyPerShare
                                + PerShare(pools[p], n, totalAllocPoint, supply)
                         ELSE pools[p].accHuskyPerShare
  BY DEF AccAt, PerShare
<1>3. ASSUME block > pools[p].lastRewardBlock, supply > 0, totalAllocPoint > 0
      PROVE  /\ PerShare(pools[p], n, totalAllocPoint, supply) \in Nat
             /\ pools[p].allocPoint = 0 => PerShare(pools[p], n, totalAllocPoint, supply) = 0
  <2>1. /\ n \in Nat /\ n <= n /\ totalAllocPoint \in Nat \ {0}
        /\ supply \in Nat \ {0} /\ supply <= supply
    BY <1>1, <1>3
  <2> HIDE DEF n
  <2> QED BY <1>1, <2>1, PerShareFacts
<1> HIDE DEF n
<1>4. /\ AccAt(p, supply) \in Nat /\ AccAt(p, supply) >= pools[p].accHuskyPerShare
      /\ pools[p].allocPoint = 0 => AccAt(p, supply) = pools[p].accHuskyPerShare
  BY <1>1, <1>2, <1>3
<1>5. RewardClock(p) \in Nat /\ RewardClock(p) >= block
  BY <1>1 DEF RewardClock
<1> DEFINE a == AccAt(p, supply)
           c == RewardClock(p)
           U == [pools[p] EXCEPT !.accHuskyPerShare = a, !.lastRewardBlock = c]
<1>6. Updated(p, supply) = U
  BY DEF Updated
<1>7. a \in Nat /\ c \in Nat /\ c >= block
  BY <1>4, <1>5
<1> HIDE DEF a, c
<1>8. /\ U \in PoolRecord /\ U.accHuskyPerShare = a /\ U.lastRewardBlock = c
      /\ U.added = pools[p].added /\ U.allocPoint = pools[p].allocPoint
  BY <1>1, <1>7 DEF PoolRecord
<1> HIDE DEF U
<1> QED BY <1>4, <1>6, <1>7, <1>8 DEF a

(* What a step does to a pool: nothing but time passing, an update, a *)
(* withdrawal without one, or a gift of stake tokens.                 *)

Kept(p) == pools'[p] = pools[p] /\ block' \in Nat /\ block' >= block /\ stake'[p] = stake[p]
Refreshed(p) ==
    /\ pools'[p].accHuskyPerShare = AccNow(p) /\ pools'[p].lastRewardBlock >= block
    /\ block' = block
Left(p) == pools'[p] = pools[p] /\ block' = block /\ stake'[p] <= stake[p]
Endowed(p) == pools'[p] = pools[p] /\ block' = block /\ Gifted(p)

\* And to the users: nothing, with or without a gift, or one of them gets a new record,
\* within the debt bound.
Moves(p, u, user) ==
    /\ p \in Pools /\ u \in Accounts /\ user \in UserRecord
    /\ users' = [users EXCEPT ![p][u] = user]
    /\ stake' = [stake EXCEPT ![p] = @ - users[p][u].amount + user.amount]
    /\ user.rewardDebt <= Times(user.amount, pools'[p].accHuskyPerShare) + 1

Sends == users' = users /\ stake' \in [Pools -> Int] /\ \A p \in Pools : stake'[p] >= stake[p]

Stepped ==
    /\ pools' \in [Pools -> PoolRecord] /\ totalAllocPoint' \in Int /\ block' \in Nat
    /\ FreshPools'
    /\ \A p \in Pools : Kept(p) \/ Refreshed(p) \/ Left(p) \/ Endowed(p)
    /\ (users' = users /\ stake' = stake) \/ Sends \/ \E p, u, user : Moves(p, u, user)

\* The staked amounts after one record changed.
LEMMA StakesChange ==
    ASSUME NEW us \in [Accounts -> UserRecord], NEW new \in [Accounts -> UserRecord],
           NEW u \in Accounts, \A v \in Accounts : v # u => new[v] = us[v]
    PROVE  /\ Stakes(us) \in Nat
           /\ Stakes(new) = Stakes(us) - us[u].amount + new[u].amount
           /\ \A v \in Accounts : us[v].amount <= Stakes(us)
<1> DEFINE f == AmountsOf(us)
           g == AmountsOf(new)
<1>1. /\ \A v \in Accounts : f[v] = us[v].amount /\ f[v] \in Nat
      /\ \A v \in Accounts : g[v] = new[v].amount /\ g[v] \in Nat
      /\ \A v \in Accounts : v # u => g[v] = f[v]
  BY DEF AmountsOf, UserRecord
<1>2. Stakes(us) = SumFunctionOnSet(f, Accounts) /\ Stakes(new) = SumFunctionOnSet(g, Accounts)
  BY DEF Stakes
<1> HIDE DEF f, g
<1>3. NatOn(f, Accounts) /\ Differ(f, g, Accounts, u) /\ IsFiniteSet(Accounts)
  BY <1>1, FairLaunchV2Assumption DEF NatOn, Differ
<1>4. SumFunctionOnSet(f, Accounts) \in Nat
      /\ \A v \in Accounts : f[v] <= SumFunctionOnSet(f, Accounts)
  BY <1>3, SumOfNats
<1>5. SumFunctionOnSet(g, Accounts) = SumFunctionOnSet(f, Accounts) - f[u] + g[u]
  BY <1>3, SumChange
<1> QED BY <1>1, <1>2, <1>4, <1>5

\* Their sum is a natural number.
LEMMA StakesType ==
    ASSUME NEW us \in [Accounts -> UserRecord]
    PROVE  Stakes(us) \in Nat
<1>1. NatOn(AmountsOf(us), Accounts) /\ IsFiniteSet(Accounts)
  BY FairLaunchV2Assumption DEF NatOn, AmountsOf, UserRecord
<1> QED BY <1>1, SumOfNats DEF Stakes

\* accHuskyPerShare never falls.
LEMMA AccGrows ==
    ASSUME TypeOK, Stepped, NEW p \in Pools
    PROVE  /\ pools[p].accHuskyPerShare \in Nat /\ pools'[p].accHuskyPerShare \in Nat
           /\ pools'[p].accHuskyPerShare >= pools[p].accHuskyPerShare
<1>1. /\ pools[p].accHuskyPerShare \in Nat /\ pools'[p] \in PoolRecord /\ stake[p] \in Int
  BY DEF TypeOK, PoolRecord, Stepped
<1>2. AccNow(p) >= pools[p].accHuskyPerShare
  BY <1>1, UpdateFacts DEF AccNow
<1>3. Kept(p) \/ Refreshed(p) \/ Left(p) \/ Endowed(p)
  BY DEF Stepped
<1>4. pools'[p].accHuskyPerShare \in Nat
  BY <1>1 DEF PoolRecord
<1> QED BY <1>1, <1>2, <1>3, <1>4 DEF Kept, Refreshed, Left, Endowed

\* A step of these kinds preserves the inductive invariant.
LEMMA StepInv ==
    ASSUME IInv, Stepped
    PROVE  IInv'
<1>1. /\ TypeOK /\ StakesHeld /\ RewardDebtWithinOne
      /\ users \in [Pools -> [Accounts -> UserRecord]] /\ stake \in [Pools -> Int]
  BY DEF IInv, TypeOK
<1>2. ASSUME NEW q \in Pools, NEW v \in Accounts, users'[q][v] = users[q][v]
      PROVE  users'[q][v].rewardDebt
               <= Times(users'[q][v].amount, pools'[q].accHuskyPerShare) + 1
  <2> DEFINE x == pools[q].accHuskyPerShare
             us == users[q][v]
  <2>1. PICK y : y = pools'[q].accHuskyPerShare
    OBVIOUS
  <2>2. x \in Nat /\ y \in Nat /\ x <= y
    BY <1>1, <2>1, AccGrows
  <2>3. us.amount \in Nat /\ us.rewardDebt \in Nat
    BY <1>1 DEF UserRecord
  <2>4. us.rewardDebt <= Times(us.amount, x) + 1
    BY <1>1 DEF RewardDebtWithinOne
  <2> HIDE DEF x, us
  <2>5. /\ Times(us.amount, x) \in Nat /\ Times(us.amount, y) \in Nat
        /\ Times(us.amount, x) <= Times(us.amount, y)
    BY <2>2, <2>3, TimesMono
  <2>6. us.rewardDebt <= Times(us.amount, y) + 1
    BY <2>3, <2>4, <2>5
  <2> QED BY <1>2, <2>1, <2>6 DEF us
<1>3. CASE Sends \/ (users' = users /\ stake' = stake)
  <2>0. /\ users' = users /\ stake' \in [Pools -> Int]
        /\ \A p \in Pools : stake'[p] >= stake[p]
    BY <1>1, <1>3 DEF Sends
  <2>1. TypeOK'
    BY <1>1, <2>0 DEF TypeOK, Stepped
  <2>2. StakesHeld'
    <3> SUFFICES ASSUME NEW p \in Pools PROVE Stakes(users[p]) <= stake'[p]
      BY <2>0 DEF StakesHeld
    <3>1. PICK s : s = stake'[p]
      OBVIOUS
    <3>2. Stakes(users[p]) <= stake[p] /\ stake[p] <= s /\ s \in Int /\ stake[p] \in Int
      BY <1>1, <2>0, <3>1 DEF StakesHeld
    <3>3. Stakes(users[p]) \in Nat
      BY <1>1, FairLaunchV2Assumption, StakesType
    <3> QED BY <3>1, <3>2, <3>3
  <2>3. RewardDebtWithinOne'
    BY <1>2, <2>0 DEF RewardDebtWithinOne
  <2> QED BY <2>1, <2>2, <2>3 DEF IInv, Stepped
<1>4. ASSUME NEW p, NEW u, NEW user, Moves(p, u, user) PROVE IInv'
  <2>1. /\ p \in Pools /\ u \in Accounts /\ user \in UserRecord
        /\ users' = [users EXCEPT ![p][u] = user]
        /\ stake' = [stake EXCEPT ![p] = @ - users[p][u].amount + user.amount]
        /\ user.rewardDebt <= Times(user.amount, pools'[p].accHuskyPerShare) + 1
    BY <1>4 DEF Moves
  <2>2. /\ users' \in [Pools -> [Accounts -> UserRecord]]
        /\ users'[p][u] = user
        /\ \A v \in Accounts : v # u => users'[p][v] = users[p][v]
        /\ \A q \in Pools : q # p => users'[q] = users[q]
    BY <1>1, <2>1
  <2>3. /\ users[p] \in [Accounts -> UserRecord] /\ users[p][u].amount \in Nat
        /\ user.amount \in Nat /\ stake[p] \in Int
    BY <1>1, <2>1 DEF UserRecord
  <2>4. /\ stake'[p] = stake[p] - users[p][u].amount + user.amount
        /\ stake' \in [Pools -> Int]
        /\ \A q \in Pools : q # p => stake'[q] = stake[q]
    BY <1>1, <2>1, <2>3
  <2>5. TypeOK'
    BY <2>2, <2>4 DEF TypeOK, Stepped
  <2>6. StakesHeld'
    <3>1. PICK new : new = users'[p]
      OBVIOUS
    <3>2. /\ new \in [Accounts -> UserRecord] /\ new[u] = user
          /\ \A v \in Accounts : v # u => new[v] = users[p][v]
      BY <2>1, <2>2, <3>1
    <3>3. Stakes(new) = Stakes(users[p]) - users[p][u].amount + new[u].amount
      BY <2>1, <2>3, <3>2, StakesChange
    <3>4. Stakes(users'[p]) <= stake'[p]
      <4>1. /\ Stakes(users[p]) \in Nat /\ Stakes(users[p]) <= stake[p]
            /\ Stakes(new) = Stakes(users[p]) - users[p][u].amount + user.amount
        BY <1>1, <2>1, <2>3, <3>2, <3>3, StakesType DEF StakesHeld
      <4>2. Stakes(new) <= stake[p] - users[p][u].amount + user.amount
        BY <2>3, <4>1
      <4> QED BY <2>4, <3>1, <4>2
    <3>5. ASSUME NEW q \in Pools, q # p PROVE Stakes(users'[q]) <= stake'[q]
      BY <1>1, <2>2, <2>4, <3>5 DEF StakesHeld
    <3> QED BY <3>4, <3>5 DEF StakesHeld
  <2>7. RewardDebtWithinOne'
    <3> SUFFICES ASSUME NEW q \in Pools, NEW v \in Accounts
                 PROVE  users'[q][v].rewardDebt
                          <= Times(users'[q][v].amount, pools'[q].accHuskyPerShare) + 1
      BY DEF RewardDebtWithinOne
    <3>1. CASE q = p /\ v = u
      BY <2>1, <2>2, <3>1
    <3>2. CASE ~(q = p /\ v = u)
      BY <1>2, <2>2, <3>2
    <3> QED BY <3>1, <3>2
  <2> QED BY <2>5, <2>6, <2>7 DEF IInv, Stepped
<1> QED BY <1>3, <1>4 DEF Stepped
-----------------------------------------------------------------------------
(* The operations. *)

PoolSteps ==
    /\ pools' \in [Pools -> PoolRecord] /\ block' \in Nat /\ FreshPools'
    /\ \A p \in Pools : Kept(p) \/ Refreshed(p) \/ Left(p)

\* One pool is brought up to date; it may be a new one.
LEMMA RefreshOne ==
    ASSUME IInv, NEW p \in Pools, NEW pool \in PoolRecord,
           pool.accHuskyPerShare = AccNow(p), pool.lastRewardBlock >= block,
           pool.added \/ (pools[p].added = pool.added /\ pools[p].allocPoint = pool.allocPoint),
           pools' = [pools EXCEPT ![p] = pool], block' = block,
           \A q \in Pools : q # p => stake'[q] = stake[q]
    PROVE  PoolSteps
<1>1. /\ pools \in [Pools -> PoolRecord] /\ block \in Nat /\ stake[p] \in Int /\ TypeOK
      /\ FreshPools
  BY DEF IInv, TypeOK
<1>2. pools' \in [Pools -> PoolRecord] /\ pools'[p] = pool
      /\ \A q \in Pools : q # p => pools'[q] = pools[q]
  BY <1>1
<1>3. FreshPools'
  <2> SUFFICES ASSUME NEW q \in Pools, ~pools'[q].added
               PROVE  pools'[q].accHuskyPerShare = 0 /\ pools'[q].allocPoint = 0
    BY DEF FreshPools
  <2>1. CASE q # p
    BY <1>1, <1>2, <2>1 DEF FreshPools
  <2>2. CASE q = p
    <3>1. ~pools[p].added /\ pools[p].allocPoint = pool.allocPoint
      BY <1>2, <2>2
    <3>2. pools[p].accHuskyPerShare = 0 /\ pools[p].allocPoint = 0
      BY <1>1, <3>1 DEF FreshPools
    <3>3. AccNow(p) = 0
      BY <1>1, <3>2, UpdateFacts DEF AccNow
    <3> QED BY <1>2, <2>2, <3>1, <3>2, <3>3
  <2> QED BY <2>1, <2>2
<1>4. Refreshed(p)
  BY <1>2 DEF Refreshed
<1>5. ASSUME NEW q \in Pools, q # p PROVE Kept(q)
  BY <1>1, <1>2, <1>5 DEF Kept
<1> QED BY <1>1, <1>2, <1>3, <1>4, <1>5 DEF PoolSteps

\* The pools as they are, with time passing.
LEMMA KeepAll ==
    ASSUME IInv, pools' = pools, block' \in Nat, block' >= block,
           \A p \in Pools : stake'[p] = stake[p] \/ (stake'[p] <= stake[p] /\ block' = block)
    PROVE  PoolSteps
<1>1. pools \in [Pools -> PoolRecord] /\ FreshPools
  BY DEF IInv, TypeOK
<1>2. FreshPools'
  BY <1>1 DEF FreshPools
<1> QED BY <1>1, <1>2 DEF PoolSteps, Kept, Left

\* updatePool of one pool, as the calls of the users make it.
LEMMA RefreshForUser ==
    ASSUME IInv, NEW p \in Pools, pools' = [pools EXCEPT ![p] = updatePool(p)],
           block' = block, \A q \in Pools : q # p => stake'[q] = stake[q]
    PROVE  /\ PoolSteps /\ pools'[p] = updatePool(p)
           /\ updatePool(p).accHuskyPerShare \in Nat
           /\ pools'[p].accHuskyPerShare = updatePool(p).accHuskyPerShare
           /\ pools[p].accHuskyPerShare \in Nat
           /\ pools[p].accHuskyPerShare <= updatePool(p).accHuskyPerShare
<1> DEFINE pool == updatePool(p)
<1>1. stake[p] \in Int /\ TypeOK /\ pools \in [Pools -> PoolRecord]
      /\ pools[p].accHuskyPerShare \in Nat
  BY DEF IInv, TypeOK, PoolRecord
<1>2. /\ pool \in PoolRecord /\ pool.accHuskyPerShare = AccNow(p)
      /\ pool.lastRewardBlock >= block /\ pool.added = pools[p].added
      /\ pool.allocPoint = pools[p].allocPoint /\ AccNow(p) >= pools[p].accHuskyPerShare
      /\ AccNow(p) \in Nat
  BY <1>1, UpdateFacts DEF updatePool, AccNow
<1>3. pools' = [pools EXCEPT ![p] = pool]
  OBVIOUS
<1>4. pools'[p] = pool
  BY <1>1
<1> HIDE DEF pool
<1>5. PoolSteps
  BY <1>2, <1>3, RefreshOne
<1> QED BY <1>1, <1>2, <1>4, <1>5 DEF pool

\* deposit adds to one stake and to its debt at the updated reward per share.
LEMMA DepositStep ==
    ASSUME IInv, NEW sender \in Accounts, NEW for \in Accounts, NEW p \in Pools,
           NEW amount \in Amounts, deposit(sender, for, p, amount)
    PROVE  Stepped
<1> DEFINE user == users[p][for]
           x == pools[p].accHuskyPerShare
           y == updatePool(p).accHuskyPerShare
           new == [amount     |-> user.amount + amount,
                   rewardDebt |-> DebtAfterDeposit(user, amount, y),
                   fundedBy   |-> sender]
<1>1. /\ pools' = [pools EXCEPT ![p] = updatePool(p)]
      /\ users' = [users EXCEPT ![p][for] = new]
      /\ stake' = [stake EXCEPT ![p] = @ + amount]
      /\ UNCHANGED <<totalAllocPoint, block>>
  BY DEF deposit, PoolBeforeStake
<1>2. /\ stake \in [Pools -> Int] /\ totalAllocPoint \in Int /\ user \in UserRecord
      /\ user.amount \in Nat /\ user.rewardDebt \in Nat /\ amount \in Nat
      /\ user.rewardDebt <= Times(user.amount, x) + 1
  BY FairLaunchV2Assumption DEF IInv, TypeOK, UserRecord, RewardDebtWithinOne
<1>3. \A q \in Pools : q # p => stake'[q] = stake[q]
  BY <1>1, <1>2
<1>4. /\ PoolSteps /\ y \in Nat /\ pools'[p].accHuskyPerShare = y /\ x \in Nat /\ x <= y
  BY <1>1, <1>3, RefreshForUser
<1> DEFINE A == user.amount
           d == user.rewardDebt
<1>5. A \in Nat /\ d \in Nat /\ d <= Times(A, x) + 1
  BY <1>2
<1>6. /\ new.amount = A + amount /\ new.rewardDebt = d + Times(amount, y)
      /\ new.fundedBy = sender
  BY DEF DebtAfterDeposit
<1>7. new = [amount |-> A + amount, rewardDebt |-> d + Times(amount, y), fundedBy |-> sender]
  BY DEF DebtAfterDeposit
<1> HIDE DEF user, x, y, new, A, d
<1>8. Times(A, x) \in Nat /\ Times(A, y) \in Nat /\ Times(A, x) <= Times(A, y)
  BY <1>4, <1>5, TimesMono
<1>9. /\ Times(amount, y) \in Nat /\ Times(A + amount, y) \in Nat
      /\ Times(A, y) + Times(amount, y) <= Times(A + amount, y)
  BY <1>2, <1>4, <1>5, TimesSum
<1>10. new \in UserRecord /\ new.rewardDebt <= Times(new.amount, y) + 1
  <2>1. new \in UserRecord
    BY <1>2, <1>5, <1>7, <1>9 DEF UserRecord
  <2>2. d + Times(amount, y) <= Times(A + amount, y) + 1
    BY <1>5, <1>8, <1>9
  <2> QED BY <1>6, <2>1, <2>2
<1>11. stake' = [stake EXCEPT ![p] = @ - users[p][for].amount + new.amount]
  <2>1. users[p][for].amount = A /\ stake[p] \in Int
    BY <1>2 DEF A, user
  <2>2. stake[p] - A + (A + amount) = stake[p] + amount
    BY <1>2, <1>5, <2>1
  <2> QED BY <1>1, <1>2, <1>6, <2>1, <2>2
<1>12. Moves(p, for, new)
  BY <1>1, <1>4, <1>10, <1>11 DEF Moves
<1> QED BY <1>1, <1>2, <1>4, <1>12 DEF Stepped, PoolSteps

\* withdraw harvests and takes the withdrawn part's share off the reward debt.
LEMMA WithdrawStep ==
    ASSUME IInv, NEW sender \in Accounts, NEW for \in Accounts, NEW p \in Pools,
           NEW amount \in Amounts, withdraw(sender, for, p, amount)
    PROVE  Stepped
<1> DEFINE user == users[p][for]
           y == updatePool(p).accHuskyPerShare
           funder == IF user.amount = amount THEN NoAddress ELSE sender
           new == [amount     |-> user.amount - amount,
                   rewardDebt |-> DebtAfterWithdraw(user, amount, y),
                   fundedBy   |-> funder]
<1>1. /\ amount <= user.amount
      /\ pools' = [pools EXCEPT ![p] = updatePool(p)]
      /\ users' = [users EXCEPT ![p][for] = new]
      /\ stake' = [stake EXCEPT ![p] = @ - amount]
      /\ UNCHANGED <<totalAllocPoint, block>>
  BY DEF withdraw
<1>2. /\ stake \in [Pools -> Int] /\ totalAllocPoint \in Int /\ user \in UserRecord
      /\ user.amount \in Nat /\ amount \in Nat /\ funder \in Accounts \cup {NoAddress}
  BY FairLaunchV2Assumption DEF IInv, TypeOK, UserRecord
<1>3. \A q \in Pools : q # p => stake'[q] = stake[q]
  BY <1>1, <1>2
<1>4. /\ PoolSteps /\ y \in Nat /\ pools'[p].accHuskyPerShare = y
  BY <1>1, <1>3, RefreshForUser
<1> DEFINE A == user.amount
           B == A - amount
<1>5. A \in Nat /\ B \in Nat /\ A = B + amount
  BY <1>1, <1>2
<1>6. new = [amount |-> B, rewardDebt |-> Times(A, y) - Times(amount, y), fundedBy |-> funder]
  BY DEF DebtAfterWithdraw
<1> HIDE DEF user, y, new, A, B, funder
<1>7. /\ Times(B, y) \in Nat /\ Times(amount, y) \in Nat /\ Times(A, y) \in Nat
      /\ Times(B, y) + Times(amount, y) <= Times(A, y)
      /\ Times(A, y) <= Times(B, y) + Times(amount, y) + 1
  BY <1>2, <1>4, <1>5, TimesSum
<1>8. /\ Times(A, y) - Times(amount, y) \in Nat
      /\ Times(A, y) - Times(amount, y) <= Times(B, y) + 1
  BY <1>7
<1>9. new \in UserRecord /\ new.rewardDebt <= Times(new.amount, y) + 1 /\ new.amount = B
  BY <1>2, <1>5, <1>6, <1>8 DEF UserRecord
<1>10. stake' = [stake EXCEPT ![p] = @ - users[p][for].amount + new.amount]
  <2>1. users[p][for].amount = A /\ stake[p] \in Int
    BY <1>2 DEF A, user
  <2>2. stake[p] - A + B = stake[p] - amount
    BY <1>2, <1>5, <2>1
  <2> QED BY <1>1, <1>2, <1>9, <2>1, <2>2
<1>11. Moves(p, for, new)
  BY <1>1, <1>4, <1>9, <1>10 DEF Moves
<1> QED BY <1>1, <1>2, <1>4, <1>11 DEF Stepped, PoolSteps

\* harvest sets the reward debt to the entitlement of the whole stake.
LEMMA HarvestStep ==
    ASSUME IInv, NEW sender \in Accounts, NEW p \in Pools, harvest(sender, p)
    PROVE  Stepped
<1> DEFINE user == users[p][sender]
           y == updatePool(p).accHuskyPerShare
           new == [user EXCEPT !.rewardDebt = Times(user.amount, y)]
<1>1. /\ pools' = [pools EXCEPT ![p] = updatePool(p)]
      /\ users' = [users EXCEPT ![p][sender].rewardDebt = Times(user.amount, y)]
      /\ UNCHANGED <<totalAllocPoint, block, stake>>
  BY DEF harvest
<1>2. /\ stake \in [Pools -> Int] /\ totalAllocPoint \in Int /\ user \in UserRecord
      /\ user.amount \in Nat /\ users \in [Pools -> [Accounts -> UserRecord]]
  BY DEF IInv, TypeOK, UserRecord
<1>3. /\ PoolSteps /\ y \in Nat /\ pools'[p].accHuskyPerShare = y
  BY <1>1, RefreshForUser
<1>4. users' = [users EXCEPT ![p][sender] = new]
  BY <1>1, <1>2
<1>5. Times(user.amount, y) \in Nat
  <2> HIDE DEF y, user
  <2> QED BY <1>2, <1>3, TimesSum
<1>6. new \in UserRecord /\ new.amount = user.amount /\ new.rewardDebt = Times(user.amount, y)
  <2> HIDE DEF y
  <2> QED BY <1>2, <1>5 DEF UserRecord
<1>7. stake' = [stake EXCEPT ![p] = @ - users[p][sender].amount + new.amount]
  <2>1. stake[p] \in Int /\ stake[p] - user.amount + user.amount = stake[p]
    BY <1>2
  <2> HIDE DEF new
  <2> QED BY <1>1, <1>2, <1>6, <2>1
<1> HIDE DEF new, y
<1>8. Moves(p, sender, new)
  BY <1>2, <1>3, <1>4, <1>5, <1>6, <1>7 DEF Moves
<1> QED BY <1>1, <1>2, <1>3, <1>8 DEF Stepped, PoolSteps

\* emergencyWithdraw clears one account without an update of the pool.
LEMMA EmergencyStep ==
    ASSUME IInv, NEW sender \in Accounts, NEW p \in Pools,
           emergencyWithdraw(sender, p)
    PROVE  Stepped
<1>1. /\ stake' = [stake EXCEPT ![p] = @ - users[p][sender].amount]
      /\ users' = [users EXCEPT ![p][sender] = NoUser]
      /\ pools' = pools /\ block' = block /\ totalAllocPoint' = totalAllocPoint
  BY DEF emergencyWithdraw
<1>2. /\ stake \in [Pools -> Int] /\ totalAllocPoint \in Int /\ block \in Nat
      /\ users[p][sender].amount \in Nat /\ pools[p].accHuskyPerShare \in Nat
      /\ users \in [Pools -> [Accounts -> UserRecord]]
  BY DEF IInv, TypeOK, UserRecord, PoolRecord
<1>3. \A q \in Pools : stake'[q] <= stake[q]
  BY <1>1, <1>2
<1>4. PoolSteps
  BY <1>1, <1>2, <1>3, KeepAll
<1>5. NoUser \in UserRecord /\ NoUser.amount = 0 /\ NoUser.rewardDebt = 0
  BY DEF NoUser, UserRecord
<1>6. stake' = [stake EXCEPT ![p] = @ - users[p][sender].amount + NoUser.amount]
  <2>1. stake[p] - users[p][sender].amount + NoUser.amount = stake[p] - users[p][sender].amount
    BY <1>2, <1>5
  <2> QED BY <1>1, <2>1
<1>7. NoUser.rewardDebt <= Times(NoUser.amount, pools'[p].accHuskyPerShare) + 1
  BY <1>1, <1>2, <1>5, TimesZero
<1>8. Moves(p, sender, NoUser)
  BY <1>1, <1>5, <1>6, <1>7 DEF Moves
<1> QED BY <1>1, <1>2, <1>4, <1>8 DEF Stepped, PoolSteps

\* massUpdatePools changes no account and brings every pool up to date.
LEMMA MassUpdateStep ==
    ASSUME IInv, NEW pids \in SUBSET Pools, massUpdatePools(pids)
    PROVE  Stepped
<1>1. /\ \A p \in pids : pools[p].added
      /\ pools' = [p \in Pools |-> IF p \in pids THEN updatePool(p) ELSE pools[p]]
      /\ UNCHANGED <<users, totalAllocPoint, stake, block>>
  BY DEF massUpdatePools
<1>2. /\ TypeOK /\ FreshPools /\ pools \in [Pools -> PoolRecord] /\ block \in Nat
      /\ totalAllocPoint \in Int /\ stake \in [Pools -> Int]
  BY DEF IInv, TypeOK
<1>3. ASSUME NEW p \in Pools
      PROVE  /\ updatePool(p) \in PoolRecord /\ updatePool(p).accHuskyPerShare = AccNow(p)
             /\ updatePool(p).lastRewardBlock >= block
             /\ updatePool(p).added = pools[p].added
  <2>1. stake[p] \in Int
    BY <1>2
  <2> QED BY <1>2, <2>1, UpdateFacts DEF updatePool, AccNow
<1>4. /\ \A p \in pids : pools'[p] = updatePool(p)
      /\ \A p \in Pools \ pids : pools'[p] = pools[p]
  BY <1>1
<1>5. pools' \in [Pools -> PoolRecord]
  BY <1>1, <1>2, <1>3
<1>6. FreshPools'
  BY <1>1, <1>2, <1>3, <1>4 DEF FreshPools
<1>7. ASSUME NEW p \in Pools PROVE Kept(p) \/ Refreshed(p)
  <2>1. CASE p \in pids
    BY <1>1, <1>3, <1>4, <2>1 DEF Refreshed
  <2>2. CASE p \notin pids
    BY <1>1, <1>2, <1>4, <2>2 DEF Kept
  <2> QED BY <2>1, <2>2
<1> QED BY <1>1, <1>2, <1>5, <1>6, <1>7 DEF Stepped

\* addPool starts a pool without stakes and leaves the others as they are.
LEMMA AddPoolStep ==
    ASSUME IInv, NEW p \in Pools, NEW a \in AllocPoints, NEW locked \in BOOLEAN,
           NEW start \in StartBlocks, addPool(p, a, start, locked)
    PROVE  Stepped
<1> DEFINE from == IF block > start THEN block ELSE start
           pool == [NoPool EXCEPT !.added = TRUE, !.allocPoint = a, !.locked = locked,
                                  !.lastRewardBlock = from]
<1>1. /\ ~pools[p].added /\ pools' = [pools EXCEPT ![p] = pool]
      /\ totalAllocPoint' = totalAllocPoint + a
      /\ users' = users /\ stake' = stake /\ block' = block
  BY DEF addPool
<1>2. /\ TypeOK /\ FreshPools /\ block \in Nat /\ totalAllocPoint \in Int /\ stake[p] \in Int
      /\ a \in Nat /\ start \in Nat
  BY FairLaunchV2Assumption DEF IInv, TypeOK
<1>3. from \in Nat /\ from >= block
  BY <1>2
<1> HIDE DEF from
<1>4. /\ pool \in PoolRecord /\ pool.added /\ pool.accHuskyPerShare = 0
      /\ pool.lastRewardBlock = from
  BY <1>2, <1>3 DEF NoPool, PoolRecord
<1> HIDE DEF pool
<1>5. AccNow(p) = 0
  BY <1>1, <1>2, UpdateFacts DEF AccNow, FreshPools
<1>6. PoolSteps
  BY <1>1, <1>3, <1>4, <1>5, RefreshOne
<1> QED BY <1>1, <1>2, <1>6 DEF Stepped, PoolSteps

\* setPool updates its own pool before the weight changes.
LEMMA SetPoolStep ==
    ASSUME IInv, NEW p \in Pools, NEW a \in AllocPoints, NEW locked \in BOOLEAN,
           setPool(p, a, locked)
    PROVE  Stepped
<1> DEFINE pool == [updatePool(p) EXCEPT !.allocPoint = a, !.locked = locked]
<1>1. /\ pools[p].added /\ pools' = [pools EXCEPT ![p] = pool]
      /\ totalAllocPoint' = totalAllocPoint - pools[p].allocPoint + a
      /\ users' = users /\ stake' = stake /\ block' = block
  BY DEF setPool
<1>2. /\ TypeOK /\ totalAllocPoint \in Int /\ stake[p] \in Int
      /\ a \in Nat /\ pools[p].allocPoint \in Nat
  BY FairLaunchV2Assumption DEF IInv, TypeOK, PoolRecord
<1>3. /\ updatePool(p) \in PoolRecord /\ updatePool(p).accHuskyPerShare = AccNow(p)
      /\ updatePool(p).lastRewardBlock >= block /\ updatePool(p).added = pools[p].added
  BY <1>2, UpdateFacts DEF updatePool, AccNow
<1>4. /\ pool \in PoolRecord /\ pool.added /\ pool.accHuskyPerShare = AccNow(p)
      /\ pool.lastRewardBlock >= block
  <2>1. PICK u : u = updatePool(p)
    OBVIOUS
  <2>2. /\ u \in PoolRecord /\ u.accHuskyPerShare = AccNow(p) /\ u.lastRewardBlock >= block
        /\ u.added = pools[p].added /\ pool = [u EXCEPT !.allocPoint = a, !.locked = locked]
    BY <1>3, <2>1
  <2> HIDE DEF pool
  <2> QED BY <1>1, <1>2, <2>2 DEF PoolRecord
<1> HIDE DEF pool
<1>5. PoolSteps
  BY <1>1, <1>4, RefreshOne
<1> QED BY <1>1, <1>2, <1>5 DEF Stepped, PoolSteps

\* A gift of stake tokens raises one balance.
LEMMA SendStep ==
    ASSUME IInv, NEW p \in Pools, NEW amount \in Amounts, SendStake(p, amount)
    PROVE  Stepped
<1>1. /\ stake \in [Pools -> Int] /\ amount \in Nat /\ block \in Nat /\ totalAllocPoint \in Int
      /\ pools \in [Pools -> PoolRecord] /\ FreshPools
  BY FairLaunchV2Assumption DEF IInv, TypeOK
<1>2. /\ stake' = [stake EXCEPT ![p] = @ + amount]
      /\ UNCHANGED <<pools, users, totalAllocPoint, block>>
  BY DEF SendStake
<1>3. /\ stake' \in [Pools -> Int] /\ stake'[p] = stake[p] + amount
      /\ \A q \in Pools : q # p => stake'[q] = stake[q]
  BY <1>1, <1>2
<1>4. \A q \in Pools : stake'[q] >= stake[q]
  BY <1>1, <1>3
<1>5. Sends
  BY <1>2, <1>3, <1>4 DEF Sends
<1>6. ASSUME NEW q \in Pools PROVE Kept(q) \/ Endowed(q)
  <2>1. stake'[q] = stake[q] \/ stake'[q] > stake[q]
    BY <1>1, <1>3
  <2> QED BY <1>1, <1>2, <2>1 DEF Kept, Endowed, Gifted
<1>7. FreshPools'
  BY <1>1, <1>2 DEF FreshPools
<1> QED BY <1>1, <1>2, <1>5, <1>6, <1>7 DEF Stepped

\* Every step of FairLaunchV2 is of this form.
LEMMA AllSteps == ASSUME IInv, [Next]_vars PROVE Stepped
<1>1. block \in Nat /\ totalAllocPoint \in Int
  BY DEF IInv, TypeOK
<1>2. ASSUME pools' = pools, users' = users, totalAllocPoint' = totalAllocPoint, stake' = stake,
             block' \in Nat, block' >= block
      PROVE  Stepped
  <2>1. PoolSteps
    BY <1>2, KeepAll
  <2> QED BY <1>1, <1>2, <2>1 DEF Stepped, PoolSteps
<1>3. CASE UNCHANGED vars
  BY <1>1, <1>2, <1>3 DEF vars
<1>4. CASE Tick
  BY <1>1, <1>2, <1>4 DEF Tick
<1>5. ASSUME NEW u \in Accounts, claimLock(u) PROVE Stepped
  BY <1>1, <1>2, <1>5 DEF claimLock
<1>6. CASE \E pids \in SUBSET Pools \ {{}} : massUpdatePools(pids)
  BY <1>6, MassUpdateStep
<1>7. CASE \E sender, for \in Accounts, p \in Pools, amount \in Amounts :
              deposit(sender, for, p, amount) \/ withdraw(sender, for, p, amount)
  BY <1>7, DepositStep, WithdrawStep
<1>8. CASE \E sender \in Accounts, p \in Pools :
              harvest(sender, p) \/ emergencyWithdraw(sender, p)
  BY <1>8, HarvestStep, EmergencyStep
<1>9. CASE \E p \in Pools, a \in AllocPoints, locked \in BOOLEAN :
              setPool(p, a, locked) \/ \E start \in StartBlocks : addPool(p, a, start, locked)
  BY <1>9, SetPoolStep, AddPoolStep
<1>10. CASE \E p \in Pools, amount \in Amounts : SendStake(p, amount)
  BY <1>10, SendStep
<1> QED BY <1>3, <1>4, <1>5, <1>6, <1>7, <1>8, <1>9, <1>10 DEF Next

\* FairLaunchV2 starts without pools and stakes.
LEMMA InvInit == ASSUME Init PROVE IInv
<1>1. /\ pools = [p \in Pools |-> NoPool] /\ totalAllocPoint = 0 /\ block = 0
      /\ users = [p \in Pools |-> [u \in Accounts |-> NoUser]]
      /\ stake = [p \in Pools |-> 0]
  BY DEF Init
<1>2. NoPool \in PoolRecord /\ NoUser \in UserRecord
  BY DEF NoPool, PoolRecord, NoUser, UserRecord
<1>3. TypeOK
  BY <1>1, <1>2 DEF TypeOK
<1>4. StakesHeld
  <2> SUFFICES ASSUME NEW p \in Pools PROVE Stakes(users[p]) = 0
    BY <1>1 DEF StakesHeld
  <2> DEFINE f == AmountsOf(users[p])
  <2>1. \A u \in Accounts : f[u] = 0
    BY <1>1 DEF AmountsOf, NoUser
  <2> HIDE DEF f
  <2>2. SumFunctionOnSet(f, Accounts) = 0
    BY <2>1, SumOfZeros, FairLaunchV2Assumption
  <2> QED BY <2>2 DEF Stakes, f
<1>5. FreshPools
  BY <1>1 DEF FreshPools, NoPool
<1>6. RewardDebtWithinOne
  <2> SUFFICES ASSUME NEW p \in Pools, NEW u \in Accounts
               PROVE  users[p][u].rewardDebt
                        <= Times(users[p][u].amount, pools[p].accHuskyPerShare) + 1
    BY DEF RewardDebtWithinOne
  <2>1. /\ users[p][u].amount = 0 /\ users[p][u].rewardDebt = 0
        /\ pools[p].accHuskyPerShare = 0
    BY <1>1 DEF NoPool, NoUser
  <2> QED BY <2>1, TimesZero
<1> QED BY <1>3, <1>4, <1>5, <1>6 DEF IInv

\* The inductive invariant holds of every behaviour.
LEMMA Invariance == Spec => []IInv
<1>1. Init => IInv
  BY InvInit
<1>2. IInv /\ [Next]_vars => IInv'
  BY AllSteps, StepInv
<1> QED BY <1>1, <1>2, PTL DEF Spec

\* FairLaunchV2.sol withdraw: however deposits, withdrawals, harvests and updates follow
\* one another, the reward debt of an account exceeds what its stake has earned by at
\* most one unit, so a stake is never blocked for longer than that unit takes to earn.
THEOREM DebtAlwaysWithinOne == Spec => []RewardDebtWithinOne
<1>1. IInv => RewardDebtWithinOne
  BY DEF IInv
<1> QED BY <1>1, Invariance, PTL
-----------------------------------------------------------------------------
(* What an account can harvest, from one state to the next. *)

\* AccNow of a pool with the given supply, total weight and block.
AccOf(pool, supply, total, now) ==
    IF now > pool.lastRewardBlock /\ supply > 0 /\ total > 0
    THEN pool.accHuskyPerShare + PerShare(pool, now - pool.lastRewardBlock, total, supply)
    ELSE pool.accHuskyPerShare

\* It is what updatePool would write, before and after a step.
LEMMA AccNowIs ==
    ASSUME NEW p \in Pools
    PROVE  /\ AccNow(p) = AccOf(pools[p], stake[p], totalAllocPoint, block)
           /\ AccNow(p)' = AccOf(pools'[p], stake'[p], totalAllocPoint', block')
BY DEF AccNow, AccAt, AccOf, PerShare

\* It grows with time, and when others leave without an update.
LEMMA AccOfGrows ==
    ASSUME NEW pool \in PoolRecord, NEW supply \in Int, NEW less \in Int,
           NEW total \in Int, NEW now \in Nat, NEW later \in Nat, now <= later,
           less <= supply, less > 0
    PROVE  /\ AccOf(pool, supply, total, now) \in Nat
           /\ AccOf(pool, supply, total, now) <= AccOf(pool, supply, total, later)
           /\ AccOf(pool, supply, total, now) <= AccOf(pool, less, total, now)
<1> DEFINE n == now - pool.lastRewardBlock
           m == later - pool.lastRewardBlock
<1>1. pool.lastRewardBlock \in Nat /\ pool.accHuskyPerShare \in Nat
  BY DEF PoolRecord
<1>2. CASE now > pool.lastRewardBlock /\ total > 0
  <2>1. /\ n \in Nat /\ m \in Nat /\ n <= m /\ total \in Nat \ {0}
        /\ supply \in Nat \ {0} /\ less \in Nat \ {0} /\ later > pool.lastRewardBlock
    BY <1>1, <1>2
  <2>2. /\ AccOf(pool, supply, total, now)
             = pool.accHuskyPerShare + PerShare(pool, n, total, supply)
        /\ AccOf(pool, supply, total, later)
             = pool.accHuskyPerShare + PerShare(pool, m, total, supply)
        /\ AccOf(pool, less, total, now)
             = pool.accHuskyPerShare + PerShare(pool, n, total, less)
    BY <1>2, <2>1 DEF AccOf
  <2> HIDE DEF n, m
  <2>3. /\ PerShare(pool, n, total, supply) \in Nat
        /\ PerShare(pool, n, total, less) \in Nat
        /\ PerShare(pool, m, total, supply) \in Nat
        /\ PerShare(pool, n, total, supply) <= PerShare(pool, m, total, supply)
        /\ PerShare(pool, n, total, supply) <= PerShare(pool, n, total, less)
    BY <2>1, PerShareFacts
  <2> QED BY <1>1, <2>2, <2>3
<1>3. CASE ~(now > pool.lastRewardBlock /\ total > 0)
  <2>1. /\ AccOf(pool, supply, total, now) = pool.accHuskyPerShare
        /\ AccOf(pool, less, total, now) = pool.accHuskyPerShare
    BY <1>3 DEF AccOf
  <2>2. AccOf(pool, supply, total, later) >= pool.accHuskyPerShare
    <3>1. CASE later > pool.lastRewardBlock /\ total > 0
      <4>1. /\ m \in Nat /\ m <= m /\ total \in Nat \ {0}
            /\ supply \in Nat \ {0} /\ supply <= supply
        BY <1>1, <3>1
      <4>2. AccOf(pool, supply, total, later)
              = pool.accHuskyPerShare + PerShare(pool, m, total, supply)
        BY <3>1, <4>1 DEF AccOf
      <4> HIDE DEF m
      <4>3. PerShare(pool, m, total, supply) \in Nat
        BY <4>1, PerShareFacts
      <4> QED BY <1>1, <4>2, <4>3
    <3>2. CASE ~(later > pool.lastRewardBlock /\ total > 0)
      BY <1>1, <3>2 DEF AccOf
    <3> QED BY <3>1, <3>2
  <2> QED BY <1>1, <2>1, <2>2
<1> QED BY <1>2, <1>3

\* It never lies below the accHuskyPerShare of the last update.
LEMMA AccOfAbove ==
    ASSUME NEW pool \in PoolRecord, NEW supply \in Int, NEW total \in Int, NEW now \in Nat
    PROVE  /\ AccOf(pool, supply, total, now) \in Nat /\ pool.accHuskyPerShare \in Nat
           /\ pool.accHuskyPerShare <= AccOf(pool, supply, total, now)
<1> DEFINE n == now - pool.lastRewardBlock
<1>1. pool.lastRewardBlock \in Nat /\ pool.accHuskyPerShare \in Nat
  BY DEF PoolRecord
<1>2. CASE now > pool.lastRewardBlock /\ supply > 0 /\ total > 0
  <2>1. n \in Nat /\ n <= n /\ total \in Nat \ {0} /\ supply \in Nat \ {0} /\ supply <= supply
    BY <1>1, <1>2
  <2>2. AccOf(pool, supply, total, now) = pool.accHuskyPerShare + PerShare(pool, n, total, supply)
    BY <1>2 DEF AccOf
  <2> HIDE DEF n
  <2>3. PerShare(pool, n, total, supply) \in Nat
    BY <2>1, PerShareFacts
  <2> QED BY <1>1, <2>2, <2>3
<1>3. CASE ~(now > pool.lastRewardBlock /\ supply > 0 /\ total > 0)
  BY <1>1, <1>3 DEF AccOf
<1> QED BY <1>2, <1>3

\* Whatever a step does but a gift, the pool of a stake that stays has earned no less.
LEMMA AccNowGrows ==
    ASSUME IInv, IInv', Stepped, totalAllocPoint' = totalAllocPoint,
           NEW p \in Pools, NEW u \in Accounts, users'[p][u] = users[p][u],
           users[p][u].amount # 0, ~Gifted(p)
    PROVE  AccNow(p)' >= AccNow(p)
<1>1. /\ TypeOK /\ pools[p] \in PoolRecord /\ pools'[p] \in PoolRecord
      /\ stake[p] \in Int /\ stake'[p] \in Int /\ totalAllocPoint \in Int
      /\ block \in Nat /\ block' \in Nat
      /\ users[p] \in [Accounts -> UserRecord] /\ users'[p] \in [Accounts -> UserRecord]
      /\ users[p][u].amount \in Nat
      /\ Stakes(users[p]) <= stake[p] /\ Stakes(users'[p]) <= stake'[p]
  BY DEF IInv, TypeOK, StakesHeld, UserRecord
<1>2. PICK us : us = users'[p]
  OBVIOUS
<1>3. users[p][u].amount <= Stakes(users[p])
  BY <1>1, StakesChange
<1>4. us[u].amount <= Stakes(us)
  BY <1>1, <1>2, StakesChange
<1>5. stake[p] > 0 /\ stake'[p] > 0
  <2>1. users[p][u].amount <= stake[p]
    BY <1>1, <1>3, StakesType
  <2>2. PICK s : s = stake'[p]
    OBVIOUS
  <2>3. us[u].amount = users[p][u].amount /\ us \in [Accounts -> UserRecord] /\ s \in Int
        /\ Stakes(us) <= s
    BY <1>1, <1>2, <2>2
  <2>4. users[p][u].amount <= s
    BY <1>1, <1>4, <2>3, StakesType
  <2> QED BY <1>1, <2>1, <2>2, <2>4
<1> DEFINE A == AccOf(pools[p], stake[p], totalAllocPoint, block)
<1>6. AccNow(p) = A /\ AccNow(p)' = AccOf(pools'[p], stake'[p], totalAllocPoint, block')
  BY AccNowIs
<1>7. A \in Nat
  BY <1>1, <1>5, AccOfGrows
<1>8. CASE Kept(p)
  <2>1. PICK later : later = block'
    OBVIOUS
  <2>2. pools'[p] = pools[p] /\ stake'[p] = stake[p] /\ later \in Nat /\ block <= later
    BY <1>1, <1>8, <2>1 DEF Kept
  <2>3. A <= AccOf(pools[p], stake[p], totalAllocPoint, later)
    BY <1>1, <1>5, <2>2, AccOfGrows
  <2>4. AccNow(p)' = AccOf(pools[p], stake[p], totalAllocPoint, later)
    BY <1>6, <2>1, <2>2
  <2>5. AccOf(pools[p], stake[p], totalAllocPoint, later) \in Nat
    BY <1>1, <1>5, <2>2, AccOfGrows
  <2> HIDE DEF A
  <2> QED BY <1>6, <1>7, <2>3, <2>4, <2>5
<1>9. CASE Refreshed(p)
  <2>1. /\ pools'[p].accHuskyPerShare = AccNow(p) /\ pools'[p].lastRewardBlock >= block
        /\ block' = block /\ pools'[p].lastRewardBlock \in Nat
    BY <1>1, <1>9 DEF Refreshed, PoolRecord
  <2>2. AccNow(p)' = pools'[p].accHuskyPerShare
    BY <1>1, <1>6, <2>1 DEF AccOf
  <2> HIDE DEF A
  <2> QED BY <1>6, <1>7, <2>1, <2>2
<1>10. CASE Left(p)
  <2>1. PICK less : less = stake'[p]
    OBVIOUS
  <2>2. pools'[p] = pools[p] /\ block' = block /\ less \in Int /\ less > 0 /\ less <= stake[p]
    BY <1>1, <1>5, <1>10, <2>1 DEF Left
  <2>3. A <= AccOf(pools[p], less, totalAllocPoint, block)
    BY <1>1, <2>2, AccOfGrows
  <2>4. AccNow(p)' = AccOf(pools[p], less, totalAllocPoint, block)
    BY <1>6, <2>1, <2>2
  <2>5. AccOf(pools[p], less, totalAllocPoint, block) \in Nat
    BY <1>1, <2>2, AccOfGrows
  <2> HIDE DEF A
  <2> QED BY <1>6, <1>7, <2>3, <2>4, <2>5
<1> QED BY <1>8, <1>9, <1>10 DEF Stepped, Endowed

\* pendingHusky and accHuskyPerShare brought up to date.
LEMMA PendingIs ==
    ASSUME IInv, IInv', NEW p \in Pools, NEW u \in Accounts
    PROVE  /\ pendingHusky(p, u) = Times(users[p][u].amount, AccNow(p)) - users[p][u].rewardDebt
           /\ pendingHusky(p, u)'
                = Times(users'[p][u].amount, AccNow(p)') - users'[p][u].rewardDebt
<1>1. pools[p] \in PoolRecord /\ pools'[p] \in PoolRecord
  BY DEF IInv, TypeOK
<1>2. updatePool(p).accHuskyPerShare = AccNow(p)
  BY <1>1 DEF updatePool, Updated, AccNow, PoolRecord
<1>3. updatePool(p)'.accHuskyPerShare = AccNow(p)'
  BY <1>1 DEF updatePool, Updated, AccNow, PoolRecord
<1> QED BY <1>2, <1>3 DEF pendingHusky, Pending

\* FairLaunchV2.sol deposit, withdraw, harvest, emergencyWithdraw, updatePool: while the
\* weights stay, no step of anybody lowers what an account that keeps its stake can
\* harvest, whether it updates the pool first or, as emergencyWithdraw, does not; stake
\* tokens sent to the contract take from the blocks since that pool's last update only.
THEOREM PendingOfOthers == Spec => OthersPendingNeverFalls
<1> DEFINE A == totalAllocPoint' = totalAllocPoint =>
                 \A p \in Pools, u \in Accounts :
                   users'[p][u] = users[p][u]
                     => pendingHusky(p, u)' >= IF Gifted(p)
                                               THEN Pending(p, u, pools[p].accHuskyPerShare)
                                               ELSE pendingHusky(p, u)
<1>1. ASSUME IInv, [Next]_vars PROVE A
  <2> SUFFICES ASSUME totalAllocPoint' = totalAllocPoint, NEW p \in Pools, NEW u \in Accounts,
                      users'[p][u] = users[p][u]
               PROVE  pendingHusky(p, u)' >= IF Gifted(p)
                                             THEN Pending(p, u, pools[p].accHuskyPerShare)
                                             ELSE pendingHusky(p, u)
    OBVIOUS
  <2>1. Stepped /\ IInv'
    BY <1>1, AllSteps, StepInv
  <2> DEFINE a == users[p][u].amount
             d == users[p][u].rewardDebt
             x == IF Gifted(p) THEN pools[p].accHuskyPerShare ELSE AccNow(p)
             least == IF Gifted(p) THEN Pending(p, u, pools[p].accHuskyPerShare)
                                   ELSE pendingHusky(p, u)
  <2>2. PICK y : y = AccNow(p)'
    OBVIOUS
  <2>3. least = Times(a, x) - d /\ pendingHusky(p, u)' = Times(a, y) - d
    <3>1. /\ pendingHusky(p, u) = Times(a, AccNow(p)) - d
          /\ pendingHusky(p, u)' = Times(a, y) - d
      BY <1>1, <2>1, <2>2, PendingIs
    <3>2. Pending(p, u, pools[p].accHuskyPerShare) = Times(a, pools[p].accHuskyPerShare) - d
      BY DEF Pending
    <3> QED BY <3>1, <3>2
  <2>4. a \in Nat /\ d \in Nat /\ TypeOK /\ stake[p] \in Int
    BY <1>1 DEF IInv, TypeOK, UserRecord
  <2>5. x \in Nat
    <3>1. AccNow(p) \in Nat
      BY <2>4, UpdateFacts DEF AccNow
    <3>2. pools[p].accHuskyPerShare \in Nat
      BY <2>4 DEF TypeOK, PoolRecord
    <3> QED BY <3>1, <3>2
  <2>6. y \in Nat /\ (Gifted(p) => y >= pools[p].accHuskyPerShare)
    <3>1. PICK pool, supply, now : pool = pools'[p] /\ supply = stake'[p] /\ now = block'
      OBVIOUS
    <3>2. pool \in PoolRecord /\ supply \in Int /\ totalAllocPoint \in Int /\ now \in Nat
      BY <2>1, <2>4, <3>1 DEF IInv, TypeOK
    <3>3. y = AccOf(pool, supply, totalAllocPoint, now)
      BY <2>2, <3>1, AccNowIs
    <3>4. y \in Nat /\ pool.accHuskyPerShare \in Nat /\ pool.accHuskyPerShare <= y
      BY <3>2, <3>3, AccOfAbove
    <3>5. Gifted(p) => pool = pools[p]
      BY <3>1 DEF Gifted
    <3> QED BY <3>4, <3>5
  <2>7. a # 0 => y >= x
    <3>1. CASE Gifted(p)
      BY <2>6, <3>1
    <3>2. CASE ~Gifted(p)
      BY <1>1, <2>1, <2>2, <3>2, AccNowGrows
    <3> QED BY <3>1, <3>2
  <2>0. pendingHusky(p, u)' >= least <=> Times(a, y) - d >= Times(a, x) - d
    BY <2>3
  <2> HIDE DEF a, d, x
  <2>8. CASE a # 0
    <3>1. Times(a, x) \in Nat /\ Times(a, y) \in Nat /\ Times(a, x) <= Times(a, y)
      BY <2>4, <2>5, <2>6, <2>7, <2>8, TimesMono
    <3> QED BY <2>0, <2>4, <3>1
  <2>9. CASE a = 0
    <3>1. Times(a, x) = 0 /\ Times(a, y) = 0
      BY <2>5, <2>6, <2>9, TimesZero
    <3> QED BY <2>0, <2>4, <3>1
  <2> QED BY <2>8, <2>9
<1> QED BY <1>1, Invariance, PTL DEF Spec, OthersPendingNeverFalls
-----------------------------------------------------------------------------
(* LinearRelease.  What an account has got, everLocked - locks, is compared *)
(* with its clock rather than with the block: the clock of a lock made       *)
(* before the release starts is ahead of the block, but nothing is paid then.*)

Released(u) == everLocked[u] - locks[u]

LockerOK ==
    /\ block \in Nat /\ locks \in [Accounts -> Nat] /\ everLocked \in [Accounts -> Nat]
    /\ lastUnlockBlock \in [Accounts -> Nat]
    /\ \A u \in Accounts :
         /\ locks[u] <= everLocked[u]
         /\ block < startReleaseBlock => Released(u) = 0
         /\ block < endReleaseBlock =>
              /\ Released(u) * endReleaseBlock <= everLocked[u] * lastUnlockBlock[u]
              /\ lastUnlockBlock[u] <= block \/ lastUnlockBlock[u] <= startReleaseBlock

\* A claim at block b of an account whose clock stands at c, with L = E - R locked.
LEMMA ClaimOnSchedule ==
    ASSUME NEW E \in Nat, NEW R \in Nat, R <= E, NEW N \in Nat, NEW c \in Nat, NEW b \in Nat,
           c <= b, b < N, R * N <= E * c
    PROVE  LET p == ((E - R) * (b - c)) \div (N - c)
           IN  p \in 0..(E - R) /\ (R + p) * N <= E * b
<1> DEFINE L == E - R
           t == b - c
           D == N - c
           p == (L * t) \div D
<1>1. L \in Nat /\ t \in Nat /\ D \in Nat \ {0} /\ t \in 0..D /\ L * t \in Nat
  OBVIOUS
<1>2. p \in 0..L
  <2> HIDE DEF L, t, D
  <2> QED BY <1>1, FractionBounds
<1>3. D * p <= L * t /\ p \in Nat
  <2> HIDE DEF L, t, D
  <2> QED BY <1>1, FloorBounds
<1> HIDE DEF p
<1> DEFINE m == N - b
<1>4. m \in Nat /\ m + t = D
  OBVIOUS
<1>5. D * (R + p) <= R * m + E * t
  <2>1. D * (R + p) = D * R + D * p /\ D * R \in Int /\ D * p \in Int
    <3> HIDE DEF D
    <3> QED BY <1>1, <1>3, Distribute
  <2>2. D * R = R * m + R * t
    <3> HIDE DEF D, m, t
    <3>1. R * (m + t) = R * m + R * t
      BY <1>1, <1>4, Distribute
    <3> QED BY <1>1, <1>4, <3>1
  <2>3. L * t = E * t - R * t
    <3>1. E = L + R
      OBVIOUS
    <3> HIDE DEF L, t
    <3>2. t * (L + R) = t * L + t * R
      BY <1>1, Distribute
    <3>3. t * (L + R) = E * t /\ t * L = L * t /\ t * R = R * t
      BY <1>1, <3>1
    <3>4. L * t \in Int /\ R * t \in Int
      BY <1>1
    <3> QED BY <3>2, <3>3, <3>4
  <2>4. R * m \in Int /\ R * t \in Int /\ E * t \in Int
    <3> HIDE DEF m, t
    <3> QED BY <1>1, <1>4
  <2> HIDE DEF D, L, m, t
  <2> QED BY <1>3, <2>1, <2>2, <2>3, <2>4
<1>6. N * (D * (R + p)) <= N * (R * m + E * t)
  <2>1. D * (R + p) \in Nat /\ R * m + E * t \in Nat
    <3> HIDE DEF D, m, t
    <3>1. R + p \in Nat /\ R * m \in Nat /\ E * t \in Nat
      BY <1>1, <1>3, <1>4
    <3> QED BY <1>1, <3>1
  <2> DEFINE X == D * (R + p)
             Y == R * m + E * t
  <2>2. X \in Nat /\ Y \in Nat /\ X <= Y
    BY <1>5, <2>1
  <2> HIDE DEF X, Y
  <2>3. N * X <= N * Y
    BY <2>2, MulMono
  <2> QED BY <2>3 DEF X, Y
<1>7. N * (R * m + E * t) <= E * (b * D)
  <2>1. m * (R * N) <= m * (E * c)
    <3> DEFINE X == R * N
               Y == E * c
    <3>1. X \in Nat /\ Y \in Nat /\ X <= Y
      OBVIOUS
    <3> HIDE DEF X, Y, m
    <3>2. m * X <= m * Y
      BY <1>4, <3>1, MulMono
    <3> QED BY <3>2 DEF X, Y
  <2>2. c * m + N * t = b * D
    OBVIOUS
  <2>3. E * (c * m + N * t) = E * (c * m) + E * (N * t)
    <3> HIDE DEF m, t
    <3>1. c * m \in Int /\ N * t \in Int
      BY <1>1, <1>4
    <3> QED BY <3>1, Distribute
  <2>4. E * (c * m) = m * (E * c) /\ E * (N * t) = N * (E * t) /\ N * (R * m) = m * (R * N)
    <3> HIDE DEF m, t
    <3> QED BY <1>1, <1>4
  <2>5. N * (R * m + E * t) = N * (R * m) + N * (E * t)
    <3> HIDE DEF m, t
    <3>1. R * m \in Int /\ E * t \in Int
      BY <1>1, <1>4
    <3> QED BY <3>1, Distribute
  <2>6. m * (R * N) \in Int /\ m * (E * c) \in Int /\ N * (E * t) \in Int
    <3> HIDE DEF m, t
    <3>1. R * N \in Int /\ E * c \in Int /\ E * t \in Int
      BY <1>1, <1>4
    <3> QED BY <1>4, <3>1
  <2> HIDE DEF m, t, D
  <2> QED BY <2>1, <2>2, <2>3, <2>4, <2>5, <2>6
<1>8. D * ((R + p) * N) <= D * (E * b)
  <2> HIDE DEF D, m, t
  <2> DEFINE q == R + p
  <2>1. q \in Nat
    BY <1>3
  <2>2. N * (D * q) <= E * (b * D)
    <3>1. N * (D * q) \in Int /\ N * (R * m + E * t) \in Int /\ E * (b * D) \in Int
      <4>1. D * q \in Int /\ R * m + E * t \in Int /\ b * D \in Int
        <5> HIDE DEF q
        <5>1. R * m \in Int /\ E * t \in Int
          BY <1>1, <1>4
        <5> QED BY <1>1, <2>1, <5>1
      <4> QED BY <4>1
    <3> QED BY <1>6, <1>7, <3>1
  <2> HIDE DEF q
  <2>3. N * (D * q) = D * (q * N) /\ E * (b * D) = D * (E * b)
    BY <1>1, <2>1
  <2>4. D * (q * N) <= D * (E * b)
    BY <2>2, <2>3
  <2> QED BY <2>4 DEF q
<1>9. (R + p) * N <= E * b
  <2> HIDE DEF D
  <2>1. R + p \in Nat
    BY <1>3
  <2>2. (R + p) * N \in Int /\ E * b \in Int
    BY <2>1
  <2> QED BY <1>1, <1>8, <2>2, MulCancel
<1> QED BY <1>2, <1>9 DEF p

\* lock: the account has got nothing more, and its clock does not go back.
LEMMA LockKeeps ==
    ASSUME LockerOK, block' = block, NEW user \in Accounts, NEW amount \in Nat,
           lock(user, amount)
    PROVE  LockerOK'
<1> DEFINE L == locks[user]
           E == everLocked[user]
           c == lastUnlockBlock[user]
           c2 == IF c < startReleaseBlock THEN startReleaseBlock ELSE c
<1>1. /\ locks' = [locks EXCEPT ![user] = L + amount]
      /\ everLocked' = [everLocked EXCEPT ![user] = E + amount]
      /\ lastUnlockBlock' = [lastUnlockBlock EXCEPT ![user] = c2]
  BY DEF lock
<1>2. /\ block \in Nat /\ locks \in [Accounts -> Nat] /\ everLocked \in [Accounts -> Nat]
      /\ lastUnlockBlock \in [Accounts -> Nat]
      /\ startReleaseBlock \in Nat /\ endReleaseBlock \in Nat
      /\ L \in Nat /\ E \in Nat /\ c \in Nat /\ c2 \in Nat /\ c <= c2 /\ L <= E
  BY FairLaunchV2Assumption DEF LockerOK
<1> DEFINE E2 == E + amount
           L2 == L + amount
           R == E - L
<1>3. /\ E2 \in Nat /\ L2 \in Nat /\ L2 <= E2 /\ E2 - L2 = R /\ E <= E2 /\ R \in Nat
  BY <1>2
<1>4. /\ block < startReleaseBlock => R = 0
      /\ block < endReleaseBlock => /\ R * endReleaseBlock <= E * c
                                    /\ c <= block \/ c <= startReleaseBlock
  BY DEF LockerOK, Released
<1>5. block < endReleaseBlock => c2 <= block \/ c2 <= startReleaseBlock
  BY <1>2, <1>4
<1> HIDE DEF c2, E2, L2, R, L, E, c
<1>6. E * c <= E2 * c2
  <2>1. E * c <= E * c2 /\ E * c \in Nat /\ E * c2 \in Nat
    BY <1>2, MulMono
  <2>2. c2 * E <= c2 * E2 /\ c2 * E2 \in Nat
    BY <1>2, <1>3, MulMono
  <2>3. c2 * E = E * c2 /\ c2 * E2 = E2 * c2
    BY <1>2, <1>3
  <2> QED BY <2>1, <2>2, <2>3
<1>7. block < endReleaseBlock => R * endReleaseBlock <= E2 * c2
  <2>1. R * endReleaseBlock \in Int /\ E * c \in Int /\ E2 * c2 \in Int
    BY <1>2, <1>3
  <2> QED BY <1>4, <1>6, <2>1
<1>8. /\ locks' \in [Accounts -> Nat] /\ everLocked' \in [Accounts -> Nat]
      /\ lastUnlockBlock' \in [Accounts -> Nat]
      /\ locks'[user] = L2 /\ everLocked'[user] = E2 /\ lastUnlockBlock'[user] = c2
      /\ \A u \in Accounts : u # user => /\ locks'[u] = locks[u]
                                         /\ everLocked'[u] = everLocked[u]
                                         /\ lastUnlockBlock'[u] = lastUnlockBlock[u]
  BY <1>1, <1>2, <1>3 DEF L2, E2
<1>9. ASSUME NEW u \in Accounts
      PROVE  /\ locks'[u] <= everLocked'[u]
             /\ block < startReleaseBlock => everLocked'[u] - locks'[u] = 0
             /\ block < endReleaseBlock =>
                  /\ (everLocked'[u] - locks'[u]) * endReleaseBlock
                       <= everLocked'[u] * lastUnlockBlock'[u]
                  /\ lastUnlockBlock'[u] <= block \/ lastUnlockBlock'[u] <= startReleaseBlock
  <2>1. CASE u = user
    BY <1>3, <1>4, <1>5, <1>7, <1>8, <2>1
  <2>2. CASE u # user
    BY <1>8, <2>2 DEF LockerOK, Released
  <2> QED BY <2>1, <2>2
<1> QED BY <1>2, <1>8, <1>9 DEF LockerOK, Released

\* claim: what is paid keeps the account behind its new clock.
LEMMA ClaimKeeps ==
    ASSUME LockerOK, block' = block, NEW user \in Accounts, claim(user)
    PROVE  LockerOK'
<1> DEFINE L == locks[user]
           E == everLocked[user]
           c == lastUnlockBlock[user]
           p == pendingTokens(user)
           R == E - L
<1>1. /\ locks' = [locks EXCEPT ![user] = L - p]
      /\ lastUnlockBlock' = [lastUnlockBlock EXCEPT ![user] = block]
      /\ everLocked' = everLocked
  BY DEF claim, LocksAfterClaim, ClockAfterClaim
<1>2. /\ block \in Nat /\ locks \in [Accounts -> Nat] /\ everLocked \in [Accounts -> Nat]
      /\ lastUnlockBlock \in [Accounts -> Nat]
      /\ startReleaseBlock \in Nat /\ endReleaseBlock \in Nat
      /\ L \in Nat /\ E \in Nat /\ c \in Nat /\ L <= E /\ R \in Nat /\ R <= E /\ L = E - R
  BY FairLaunchV2Assumption DEF LockerOK
<1>3. /\ block < startReleaseBlock => R = 0
      /\ block < endReleaseBlock => /\ R * endReleaseBlock <= E * c
                                    /\ c <= block \/ c <= startReleaseBlock
  BY DEF LockerOK, Released
<1>4. p = IF block < startReleaseBlock THEN 0
          ELSE IF block >= endReleaseBlock THEN L
          ELSE (L * (block - c)) \div (endReleaseBlock - c)
  BY DEF pendingTokens
<1> HIDE DEF p, L, E, c, R
<1>5. /\ p \in 0..L
      /\ block < startReleaseBlock => R + p = 0
      /\ block < endReleaseBlock => (R + p) * endReleaseBlock <= E * block
  <2>1. CASE block < startReleaseBlock
    <3>1. R = 0 /\ p = 0 /\ (R + p) * endReleaseBlock = 0
      BY <1>2, <1>3, <1>4, <2>1
    <3>2. E * block \in Nat
      BY <1>2
    <3> QED BY <1>2, <3>1, <3>2
  <2>2. CASE ~(block < startReleaseBlock) /\ block >= endReleaseBlock
    BY <1>2, <1>4, <2>2
  <2>3. CASE ~(block < startReleaseBlock) /\ ~(block >= endReleaseBlock)
    <3>1. c <= block /\ block < endReleaseBlock /\ R * endReleaseBlock <= E * c
      BY <1>2, <1>3, <2>3
    <3>2. p = ((E - R) * (block - c)) \div (endReleaseBlock - c)
      BY <1>2, <1>4, <2>3
    <3>3. p \in 0..(E - R) /\ (R + p) * endReleaseBlock <= E * block
      BY <1>2, <3>1, <3>2, ClaimOnSchedule
    <3> QED BY <1>2, <2>3, <3>3
  <2> QED BY <2>1, <2>2, <2>3
<1> DEFINE L2 == L - p
<1>6. L2 \in Nat /\ L2 <= E /\ E - L2 = R + p
  BY <1>2, <1>5
<1>7. /\ locks' \in [Accounts -> Nat] /\ lastUnlockBlock' \in [Accounts -> Nat]
      /\ locks'[user] = L2 /\ everLocked'[user] = E /\ lastUnlockBlock'[user] = block
      /\ \A u \in Accounts : u # user => /\ locks'[u] = locks[u]
                                         /\ everLocked'[u] = everLocked[u]
                                         /\ lastUnlockBlock'[u] = lastUnlockBlock[u]
  BY <1>1, <1>2, <1>6 DEF E
<1> HIDE DEF L2
<1>8. ASSUME NEW u \in Accounts
      PROVE  /\ locks'[u] <= everLocked'[u]
             /\ block < startReleaseBlock => everLocked'[u] - locks'[u] = 0
             /\ block < endReleaseBlock =>
                  /\ (everLocked'[u] - locks'[u]) * endReleaseBlock
                       <= everLocked'[u] * lastUnlockBlock'[u]
                  /\ lastUnlockBlock'[u] <= block \/ lastUnlockBlock'[u] <= startReleaseBlock
  <2>1. CASE u = user
    BY <1>2, <1>5, <1>6, <1>7, <2>1
  <2>2. CASE u # user
    BY <1>7, <2>2 DEF LockerOK, Released
  <2> QED BY <2>1, <2>2
<1> QED BY <1>1, <1>2, <1>7, <1>8 DEF LockerOK, Released

\* Time passing only helps.
LEMMA WaitKeeps ==
    ASSUME LockerOK, UNCHANGED locker, block' \in {block, block + 1}
    PROVE  LockerOK'
<1>1. /\ locks' = locks /\ everLocked' = everLocked /\ lastUnlockBlock' = lastUnlockBlock
      /\ block \in Nat /\ block' \in Nat /\ block <= block'
      /\ startReleaseBlock \in Nat /\ endReleaseBlock \in Nat
      /\ lastUnlockBlock \in [Accounts -> Nat]
  BY FairLaunchV2Assumption DEF LockerOK, locker
<1> QED BY <1>1 DEF LockerOK, Released

\* The locker's part of every step.
LEMMA LockerSteps ==
    ASSUME LockerOK, [Next]_vars
    PROVE  \/ UNCHANGED locker /\ block' \in {block, block + 1}
           \/ /\ block' = block
              /\ \E u \in Accounts : claim(u) \/ \E amount \in Nat : lock(u, amount)
<1>1. ASSUME NEW p, NEW to, NEW acc, Harvest(p, to, acc)
      PROVE  UNCHANGED locker \/ \E amount \in Nat : lock(to, amount)
  <2> DEFINE pending == Pending(p, to, acc)
             locked == IF pools[p].locked THEN calLockAmount(pending) ELSE 0
  <2>1. /\ pending \in 0..(husky + FromV1)
        /\ IF pending > 0 /\ pools[p].locked THEN lock(to, locked) ELSE UNCHANGED locker
    BY <1>1 DEF Harvest
  <2>2. pending \in Nat
    <3> HIDE DEF pending
    <3> QED BY <2>1
  <2>3. calLockAmount(pending) \in Nat
    <3> HIDE DEF pending
    <3>1. lockupBps \in Nat /\ BPS \in Nat \ {0}
      BY FairLaunchV2Assumption
    <3>2. pending * lockupBps \in Nat
      BY <2>2, <3>1
    <3> QED BY <3>1, <3>2, FloorBounds DEF calLockAmount
  <2>4. locked \in Nat
    BY <2>3
  <2> HIDE DEF locked, pending
  <2> QED BY <2>1, <2>4
<1>2. CASE UNCHANGED vars
  BY <1>2 DEF vars, locker
<1>3. CASE Tick
  BY <1>3 DEF Tick
<1>4. ASSUME NEW u \in Accounts, claimLock(u) PROVE block' = block /\ claim(u)
  BY <1>4 DEF claimLock
<1>5. ASSUME NEW pids, massUpdatePools(pids) PROVE block' = block /\ UNCHANGED locker
  BY <1>5 DEF massUpdatePools
<1>6. ASSUME NEW sender, NEW for, NEW p, NEW amount, deposit(sender, for, p, amount)
      PROVE  block' = block /\ UNCHANGED locker
  BY <1>6 DEF deposit
<1>7. ASSUME NEW sender, NEW for, NEW p, NEW amount, withdraw(sender, for, p, amount)
      PROVE  block' = block /\ (UNCHANGED locker \/ \E a \in Nat : lock(for, a))
  <2>1. block' = block /\ Harvest(p, for, updatePool(p).accHuskyPerShare)
    BY <1>7 DEF withdraw
  <2> QED BY <2>1, <1>1
<1>8. ASSUME NEW sender, NEW p, harvest(sender, p)
      PROVE  block' = block /\ (UNCHANGED locker \/ \E a \in Nat : lock(sender, a))
  <2>1. block' = block /\ Harvest(p, sender, updatePool(p).accHuskyPerShare)
    BY <1>8 DEF harvest
  <2> QED BY <2>1, <1>1
<1>9. ASSUME NEW sender, NEW p, emergencyWithdraw(sender, p)
      PROVE  block' = block /\ UNCHANGED locker
  BY <1>9 DEF emergencyWithdraw
<1>10. ASSUME NEW p, NEW a, NEW l, setPool(p, a, l)
       PROVE  block' = block /\ UNCHANGED locker
  BY <1>10 DEF setPool
<1>11. ASSUME NEW p, NEW a, NEW l, NEW start, addPool(p, a, start, l)
       PROVE  block' = block /\ UNCHANGED locker
  BY <1>11 DEF addPool
<1>12. ASSUME NEW p, NEW amount, SendStake(p, amount) PROVE block' = block /\ UNCHANGED locker
  BY <1>12 DEF SendStake
<1> QED BY <1>2, <1>3, <1>4, <1>5, <1>6, <1>7, <1>8, <1>9, <1>10, <1>11, <1>12 DEF Next

\* The locker's invariant holds of every behaviour.
LEMMA LockerInvariance == Spec => []LockerOK
<1>1. ASSUME Init PROVE LockerOK
  <2>1. /\ block = 0 /\ locks = [u \in Accounts |-> 0] /\ everLocked = [u \in Accounts |-> 0]
        /\ lastUnlockBlock = [u \in Accounts |-> 0]
    BY <1>1 DEF Init, LockerInit
  <2>2. endReleaseBlock \in Nat /\ 0 * endReleaseBlock = 0
    BY FairLaunchV2Assumption
  <2> QED BY <2>1, <2>2 DEF LockerOK, Released
<1>2. LockerOK /\ [Next]_vars => LockerOK'
  BY LockerSteps, LockKeeps, ClaimKeeps, WaitKeeps
<1> QED BY <1>1, <1>2, PTL DEF Spec

\* LinearRelease.sol claim and lock: however often an account claims and is locked for
\* again, what it has got is not ahead of a linear release from the first block.
THEOREM ReleaseNeverAhead == Spec => []ReleaseNotAhead
<1>1. LockerOK => ReleaseNotAhead
  <2> SUFFICES ASSUME LockerOK, block < endReleaseBlock, NEW u \in Accounts
               PROVE  Released(u) * endReleaseBlock <= everLocked[u] * block
    BY DEF ReleaseNotAhead, Released
  <2> DEFINE R == Released(u)
             E == everLocked[u]
             c == lastUnlockBlock[u]
  <2>1. /\ block \in Nat /\ E \in Nat /\ c \in Nat /\ R \in Nat
        /\ startReleaseBlock \in Nat /\ endReleaseBlock \in Nat
        /\ block < startReleaseBlock => R = 0
        /\ R * endReleaseBlock <= E * c
        /\ c <= block \/ c <= startReleaseBlock
    BY FairLaunchV2Assumption DEF LockerOK, Released
  <2> HIDE DEF R, E, c
  <2>2. R * endReleaseBlock \in Int /\ E * c \in Int /\ E * block \in Nat
    BY <2>1
  <2>3. CASE block < startReleaseBlock
    <3>1. R * endReleaseBlock = 0
      BY <2>1, <2>3
    <3> QED BY <2>2, <3>1 DEF R, E
  <2>4. CASE ~(block < startReleaseBlock)
    <3>1. c <= block
      BY <2>1, <2>4
    <3>2. E * c <= E * block
      BY <2>1, <3>1, MulMono
    <3> QED BY <2>1, <2>2, <3>2 DEF R, E
  <2> QED BY <2>3, <2>4
<1> QED BY <1>1, LockerInvariance, PTL
-----------------------------------------------------------------------------
(* What backs the rewards. *)

\* A claim before it is rounded, in units of 1 / ACC_HUSKY_PRECISION; a reward debt
\* that was rounded up makes it negative, and it then counts as nothing.
Claim(user, acc) == user.amount * acc - ACC_HUSKY_PRECISION * user.rewardDebt
Pos(user, acc) == IF Claim(user, acc) > 0 THEN Claim(user, acc) ELSE 0
Claims(us, acc) == SumFunctionOnSet([u \in Accounts |-> Pos(us[u], acc)], Accounts)

\* The weighted reward a pool still has to take in, up to block now.
Behind(pool, now) == IF now > pool.lastRewardBlock THEN now - pool.lastRewardBlock ELSE 0
Waiting(pool, now) ==
    Behind(pool, now) * huskyPerBlock * pool.allocPoint * ACC_HUSKY_PRECISION

\* What a pool has promised and will, in units of 1 / (Scale * ACC_HUSKY_PRECISION).
Scale == IF totalAllocPoint = 0 THEN 1 ELSE totalAllocPoint
Load(p) == Scale * Claims(users[p], pools[p].accHuskyPerShare) + Waiting(pools[p], block)
TotalLoad == SumFunctionOnSet([p \in Pools |-> Load(p)], Pools)

\* The HUSKI of all blocks so far that has not been harvested, and a unit a call.
Earned == husky - Times(DummySupply, v1Acc) + huskyPerBlock * block + ops

WeightsAddUp ==
    totalAllocPoint = SumFunctionOnSet([p \in Pools |-> pools[p].allocPoint], Pools)
V1Type == husky \in Nat /\ v1Acc \in Nat /\ v1Block \in 0..block /\ ops \in Nat
Backed == TotalLoad <= Scale * (ACC_HUSKY_PRECISION * Earned)
BackedInv == V1Type /\ WeightsAddUp /\ (steady => Backed)

\* Claims count from nothing up.
LEMMA PosType ==
    ASSUME NEW user \in UserRecord, NEW acc \in Nat
    PROVE  Claim(user, acc) \in Int /\ Pos(user, acc) \in Nat
<1>1. user.amount \in Nat /\ user.rewardDebt \in Nat /\ ACC_HUSKY_PRECISION \in Nat
  BY FairLaunchV2Assumption DEF UserRecord
<1>2. Claim(user, acc) \in Int
  BY <1>1 DEF Claim
<1> QED BY <1>2 DEF Pos

\* The claims of a pool are a sum of naturals.
LEMMA ClaimsType ==
    ASSUME NEW us \in [Accounts -> UserRecord], NEW acc \in Nat
    PROVE  Claims(us, acc) \in Nat
<1> DEFINE f == [u \in Accounts |-> Pos(us[u], acc)]
<1>1. NatOn(f, Accounts)
  BY PosType DEF NatOn
<1> HIDE DEF f
<1>2. SumFunctionOnSet(f, Accounts) \in Nat
  BY <1>1, SumOfNats, FairLaunchV2Assumption
<1> QED BY <1>2 DEF Claims, f

\* A larger accHuskyPerShare raises a claim by as much for each unit staked, at most.
LEMMA PosGrows ==
    ASSUME NEW user \in UserRecord, NEW x \in Nat, NEW y \in Nat, x <= y
    PROVE  Pos(user, y) <= (y - x) * user.amount + Pos(user, x)
<1> DEFINE a == user.amount
           d == ACC_HUSKY_PRECISION * user.rewardDebt
           g == (y - x) * a
           X == a * x
<1>1. a \in Nat /\ d \in Int /\ y - x \in Nat
  BY FairLaunchV2Assumption DEF UserRecord
<1>2. g \in Nat /\ X \in Nat
  BY <1>1
<1>3. a * y = X + g
  BY <1>1
<1>4. Claim(user, x) = X - d /\ Claim(user, y) = a * y - d
  BY Zenon DEF Claim
<1> HIDE DEF a, d, g, X
<1>5. Pos(user, y) <= g + Pos(user, x)
  BY <1>1, <1>2, <1>3, <1>4 DEF Pos
<1> QED BY <1>5 DEF a, g

\* And the claims of a pool by as much for each unit staked in it.
LEMMA ClaimsGrow ==
    ASSUME NEW us \in [Accounts -> UserRecord], NEW x \in Nat, NEW y \in Nat, x <= y
    PROVE  Claims(us, y) <= (y - x) * Stakes(us) + Claims(us, x)
<1> DEFINE f == AmountsOf(us)
           g == [u \in Accounts |-> Pos(us[u], x)]
           h == [u \in Accounts |-> Pos(us[u], y)]
           d == y - x
<1>1. d \in Int /\ IsFiniteSet(Accounts)
  BY FairLaunchV2Assumption
<1>2. ASSUME NEW u \in Accounts
      PROVE  f[u] \in Int /\ g[u] \in Int /\ h[u] \in Int /\ h[u] <= d * f[u] + g[u]
  <2>1. us[u] \in UserRecord /\ f[u] = us[u].amount /\ f[u] \in Nat
    BY DEF AmountsOf, UserRecord
  <2> QED BY <2>1, PosType, PosGrows
<1>3. Bounded(h, d, f, g, Accounts)
  BY <1>2 DEF Bounded
<1> HIDE DEF f, g, h, d
<1>4. SumFunctionOnSet(h, Accounts)
        <= d * SumFunctionOnSet(f, Accounts) + SumFunctionOnSet(g, Accounts)
  BY <1>1, <1>3, SumOrder
<1> QED BY <1>4 DEF Claims, Stakes, f, g, h, d

\* The claims after one record changed.
LEMMA ClaimsChange ==
    ASSUME NEW us \in [Accounts -> UserRecord], NEW new \in [Accounts -> UserRecord],
           NEW u \in Accounts, \A v \in Accounts : v # u => new[v] = us[v], NEW acc \in Nat
    PROVE  Claims(new, acc) = Claims(us, acc) - Pos(us[u], acc) + Pos(new[u], acc)
<1> DEFINE f == [v \in Accounts |-> Pos(us[v], acc)]
           g == [v \in Accounts |-> Pos(new[v], acc)]
<1>1. Differ(f, g, Accounts, u) /\ IsFiniteSet(Accounts)
  BY PosType, FairLaunchV2Assumption DEF Differ
<1>2. f[u] = Pos(us[u], acc) /\ g[u] = Pos(new[u], acc)
  OBVIOUS
<1> HIDE DEF f, g
<1>3. SumFunctionOnSet(g, Accounts) = SumFunctionOnSet(f, Accounts) - f[u] + g[u]
  BY <1>1, SumChange
<1> QED BY <1>2, <1>3 DEF Claims, f, g

\* A pool waits for nothing once it is up to date, and a block adds one share.
LEMMA WaitingFacts ==
    ASSUME NEW pool \in PoolRecord, NEW now \in Nat
    PROVE  /\ Waiting(pool, now) \in Nat /\ Waiting(pool, now + 1) \in Nat
           /\ pool.lastRewardBlock >= now => Waiting(pool, now) = 0
           /\ pool.allocPoint = 0 => Waiting(pool, now) = 0
           /\ Waiting(pool, now + 1)
                <= (huskyPerBlock * ACC_HUSKY_PRECISION) * pool.allocPoint + Waiting(pool, now)
<1> DEFINE n == Behind(pool, now)
           m == Behind(pool, now + 1)
           h == huskyPerBlock
           a == pool.allocPoint
           P == ACC_HUSKY_PRECISION
           c == (h * P) * a
<1>1. h \in Nat /\ a \in Nat /\ P \in Nat /\ pool.lastRewardBlock \in Nat
  BY FairLaunchV2Assumption DEF PoolRecord
<1>2. n \in Nat /\ m \in Nat /\ m <= n + 1 /\ (pool.lastRewardBlock >= now => n = 0)
  BY <1>1 DEF Behind
<1>3. Waiting(pool, now) = n * h * a * P /\ Waiting(pool, now + 1) = m * h * a * P
  BY DEF Waiting
<1> HIDE DEF n, m
<1>4. h * P \in Nat /\ c \in Nat /\ (a = 0 => c = 0)
  BY <1>1
<1>5. n * h * a * P = n * c /\ m * h * a * P = m * c
  BY <1>1, <1>2
<1>6. (h * P) * a = c
  OBVIOUS
<1> HIDE DEF c
<1>7. n * c \in Nat /\ m * c \in Nat /\ (n = 0 => n * c = 0) /\ (c = 0 => n * c = 0)
  BY <1>2, <1>4
<1>8. m * c <= c + n * c
  <2>1. c * m <= c * (n + 1)
    BY <1>2, <1>4, MulMono
  <2>2. c * m = m * c /\ c * (n + 1) = c + n * c
    BY <1>2, <1>4
  <2> QED BY <2>1, <2>2
<1> QED BY <1>2, <1>3, <1>4, <1>5, <1>6, <1>7, <1>8

\* The types of the loads.
LEMMA LoadType ==
    ASSUME IInv, totalAllocPoint \in Nat
    PROVE  /\ Scale \in Nat \ {0} /\ totalAllocPoint <= Scale
           /\ \A p \in Pools : /\ Claims(users[p], pools[p].accHuskyPerShare) \in Nat
                               /\ Waiting(pools[p], block) \in Nat
                               /\ Load(p) \in Nat
<1>1. Scale \in Nat \ {0} /\ totalAllocPoint <= Scale
  BY DEF Scale
<1>2. ASSUME NEW p \in Pools
      PROVE  /\ Claims(users[p], pools[p].accHuskyPerShare) \in Nat
             /\ Waiting(pools[p], block) \in Nat
  BY ClaimsType, WaitingFacts DEF IInv, TypeOK, PoolRecord
<1> QED BY <1>1, <1>2 DEF Load

LoadsNat == \A p \in Pools : Load(p) \in Nat
WeightNat == totalAllocPoint \in Nat

\* The same, to be read after a step.
LEMMA LoadsTyped == IInv /\ WeightNat => LoadsNat
BY LoadType DEF LoadsNat, WeightNat

\* updatePool turns what a pool waits for into claims, and no more than that.
LEMMA Refill ==
    ASSUME IInv, totalAllocPoint \in Nat, NEW p \in Pools
    PROVE  /\ AccNow(p) \in Nat /\ Claims(users[p], AccNow(p)) \in Nat
           /\ Scale * Claims(users[p], AccNow(p)) <= Load(p)
<1> DEFINE us == users[p]
           x == pools[p].accHuskyPerShare
           y == AccNow(p)
           S == stake[p]
           T == totalAllocPoint
           w == Waiting(pools[p], block)
<1>1. /\ us \in [Accounts -> UserRecord] /\ pools[p] \in PoolRecord /\ x \in Nat
      /\ Stakes(us) <= S /\ TypeOK /\ S \in Int /\ block \in Nat
  BY DEF IInv, TypeOK, StakesHeld, PoolRecord
<1>2. y \in Nat /\ x <= y
  BY <1>1, UpdateFacts DEF AccNow
<1>3. Scale \in Nat \ {0} /\ Claims(us, x) \in Nat /\ w \in Nat /\ Load(p) = Scale * Claims(us, x) + w
  BY LoadType DEF Load
<1>4. Claims(us, y) \in Nat
  BY <1>1, <1>2, ClaimsType
<1>5. Claims(us, y) <= (y - x) * S + Claims(us, x)
  <2> DEFINE k == y - x
             n == Stakes(us)
  <2>1. Claims(us, y) <= k * n + Claims(us, x)
    BY <1>1, <1>2, ClaimsGrow
  <2>2. k \in Nat /\ n \in Nat /\ S \in Nat /\ n <= S
    BY <1>1, <1>2, StakesType
  <2> HIDE DEF k, n, S
  <2>3. k * n <= k * S /\ k * n \in Nat /\ k * S \in Nat
    BY <2>2, MulMono
  <2>4. Claims(us, y) <= k * S + Claims(us, x)
    BY <1>3, <1>4, <2>1, <2>3
  <2> QED BY <2>4 DEF k
<1>6. (y - x) * S \in Int /\ Scale * ((y - x) * S) <= w
  <2>1. CASE block > pools[p].lastRewardBlock /\ S > 0 /\ T > 0
    <3> DEFINE n == block - pools[p].lastRewardBlock
               X == n * huskyPerBlock * pools[p].allocPoint * ACC_HUSKY_PRECISION
               r == X \div T
               g == r \div S
    <3>1. n \in Nat /\ S \in Nat \ {0} /\ T \in Nat \ {0} /\ Scale = T
      BY <1>1, <2>1 DEF PoolRecord, Scale
    <3>2. w = X /\ y = x + g
      BY <2>1, AccNowIs DEF Waiting, Behind, AccOf, PerShare
    <3>3. X \in Nat
      BY <1>3, <3>2
    <3> HIDE DEF X, n
    <3>4. r \in Nat /\ T * r <= X
      BY <3>1, <3>3, FloorBounds
    <3> HIDE DEF r
    <3>5. g \in Nat /\ S * g <= r
      BY <3>1, <3>4, FloorBounds
    <3> HIDE DEF g
    <3>6. y - x = g /\ g * S = S * g /\ S * g \in Nat
      BY <1>1, <3>1, <3>2, <3>5
    <3>7. T * (S * g) <= T * r
      BY <3>1, <3>4, <3>5, <3>6, MulMono
    <3>8. T * (S * g) \in Nat /\ T * r \in Nat
      BY <3>1, <3>4, <3>6
    <3> HIDE DEF y, x, S, T, w
    <3> QED BY <3>1, <3>2, <3>3, <3>4, <3>6, <3>7, <3>8
  <2>2. CASE ~(block > pools[p].lastRewardBlock /\ S > 0 /\ T > 0)
    <3>1. y = x
      BY <2>2, AccNowIs DEF AccOf
    <3>2. y - x = 0
      BY <1>1, <3>1
    <3>3. (y - x) * S = 0 /\ Scale * 0 = 0
      BY <1>1, <1>3, <3>2
    <3> QED BY <1>3, <3>3
  <2> QED BY <2>1, <2>2
<1> DEFINE G == (y - x) * S
           c == Claims(us, x)
           e == Claims(us, y)
<1>7. G \in Int /\ Scale * G <= w /\ e <= G + c /\ e \in Nat /\ c \in Nat
  BY <1>3, <1>4, <1>5, <1>6
<1>8. Load(p) = Scale * c + w
  BY <1>3
<1> HIDE DEF G, c, e, w
<1>9. Scale * e <= Scale * (G + c)
  <2>1. G + c \in Nat
    BY <1>7
  <2> QED BY <1>3, <1>7, <2>1, MulMono
<1>10. Scale * (G + c) = Scale * G + Scale * c /\ Scale * G \in Int /\ Scale * c \in Int
       /\ Scale * e \in Int
  BY <1>3, <1>7
<1>11. Scale * e <= Load(p)
  BY <1>3, <1>7, <1>8, <1>9, <1>10
<1> QED BY <1>2, <1>4, <1>11 DEF e

\* Terms within their pools' loads add up to what the contract has earned, at most.
LEMMA Covered ==
    ASSUME IInv, V1Type, totalAllocPoint \in Nat, Backed,
           NEW F, \A p \in Pools : F[p] \in Int /\ Scale * F[p] <= Load(p)
    PROVE  /\ Earned \in Int /\ SumFunctionOnSet(F, Pools) \in Int
           /\ SumFunctionOnSet(F, Pools) <= ACC_HUSKY_PRECISION * Earned
<1> DEFINE L == [p \in Pools |-> Load(p)]
           e == ACC_HUSKY_PRECISION * Earned
           s == SumFunctionOnSet(F, Pools)
           t == Scale
<1>1. t \in Nat \ {0} /\ \A p \in Pools : L[p] \in Nat /\ L[p] = Load(p)
  BY LoadType
<1>2. IsFiniteSet(Pools) /\ ACC_HUSKY_PRECISION \in Nat /\ DummySupply \in Nat
      /\ huskyPerBlock \in Nat /\ block \in Nat
  BY FairLaunchV2Assumption DEF IInv, TypeOK
<1>3. Earned \in Int
  <2>1. Times(DummySupply, v1Acc) \in Nat
    BY <1>2, TimesMono DEF V1Type
  <2>2. huskyPerBlock * block \in Nat
    BY <1>2
  <2> QED BY <2>1, <2>2 DEF Earned, V1Type
<1>4. e \in Int
  BY <1>2, <1>3
<1>5. SumFunctionOnSet(L, Pools) <= t * e
  BY DEF Backed, TotalLoad
<1>6. ScaledBelow(t, F, L, Pools)
  BY <1>1 DEF ScaledBelow
<1> HIDE DEF L, e, t
<1>7. t * s <= SumFunctionOnSet(L, Pools) /\ s \in Int /\ SumFunctionOnSet(L, Pools) \in Int
  BY <1>1, <1>2, <1>6, SumScaled
<1> HIDE DEF s
<1>8. t * s <= t * e
  <2>1. t * s \in Int /\ t * e \in Int
    BY <1>1, <1>4, <1>7
  <2> QED BY <1>5, <1>7, <2>1
<1>9. s <= e
  BY <1>1, <1>4, <1>7, <1>8, MulCancel
<1> QED BY <1>3, <1>7, <1>9 DEF s, e

\* What an account can harvest is within its claim brought up to date.
LEMMA HarvestableClaim ==
    ASSUME IInv, NEW p \in Pools, NEW u \in Accounts
    PROVE  /\ Harvestable(p, u) \in Nat
           /\ ACC_HUSKY_PRECISION * Harvestable(p, u) <= Pos(users[p][u], AccNow(p))
<1> DEFINE user == users[p][u]
           a == user.amount
           d == user.rewardDebt
           y == AccNow(p)
           P == ACC_HUSKY_PRECISION
           X == a * y
           e == X \div P
<1>1. user \in UserRecord /\ a \in Nat /\ d \in Nat /\ TypeOK /\ stake[p] \in Int /\ P \in Nat \ {0}
  BY FairLaunchV2Assumption DEF IInv, TypeOK, UserRecord
<1>2. y \in Nat
  BY <1>1, UpdateFacts DEF AccNow
<1>3. pendingHusky(p, u) = e - d
  <2>1. updatePool(p).accHuskyPerShare = y
    BY <1>1, UpdateFacts DEF updatePool, AccNow
  <2> QED BY <2>1 DEF pendingHusky, Pending, Times
<1>4. Claim(user, y) = X - P * d
  BY DEF Claim
<1>5. X \in Nat
  BY <1>1, <1>2
<1> HIDE DEF X, y, d, P
<1>6. e \in Nat /\ P * e <= X
  BY <1>1, <1>5, FloorBounds
<1> HIDE DEF e
<1>7. P * (e - d) = P * e - P * d /\ P * e \in Int /\ P * d \in Int /\ P * 0 = 0
  BY <1>1, <1>6
<1>8. CASE e - d > 0
  <2>1. Harvestable(p, u) = e - d /\ e - d \in Nat
    BY <1>1, <1>3, <1>6, <1>8 DEF Harvestable
  <2>2. P * (e - d) <= X - P * d
    BY <1>5, <1>6, <1>7
  <2>3. X - P * d <= Pos(user, y)
    BY <1>4, <1>5, <1>7 DEF Pos
  <2>4. Pos(user, y) \in Nat
    BY <1>1, <1>2, PosType
  <2> QED BY <1>5, <1>7, <2>1, <2>2, <2>3, <2>4 DEF P, y, user
<1>9. CASE ~(e - d > 0)
  <2>1. Harvestable(p, u) = 0
    BY <1>3, <1>9 DEF Harvestable
  <2>2. Pos(user, y) \in Nat
    BY <1>1, <1>2, PosType
  <2> QED BY <1>7, <2>1, <2>2 DEF P, y, user
<1> QED BY <1>8, <1>9

\* FairLaunch never takes HUSKI back.
LEMMA FromV1Type ==
    ASSUME IInv, V1Type
    PROVE  FromV1 \in Nat /\ v1AccNow \in Nat /\ v1Acc <= v1AccNow
<1>1. /\ v1Acc \in Nat /\ v1Block \in Nat /\ block \in Nat /\ v1Block <= block
      /\ huskyPerBlock \in Nat /\ DummySupply \in Nat \ {0} /\ ACC_HUSKY_PRECISION \in Nat
  BY FairLaunchV2Assumption DEF V1Type, IInv, TypeOK
<1> DEFINE k == (block - v1Block) * huskyPerBlock * ACC_HUSKY_PRECISION
<1>2. (block - v1Block) * huskyPerBlock \in Nat
  BY <1>1
<1>3. k \in Nat
  BY <1>1, <1>2
<1>4. PICK acc : acc = v1AccNow
  OBVIOUS
<1>5. acc = v1Acc + k \div DummySupply
  BY <1>4 DEF v1AccNow
<1> HIDE DEF k
<1>6. acc \in Nat /\ v1Acc <= acc
  BY <1>1, <1>3, <1>5, FloorBounds
<1>7. Times(DummySupply, acc) - Times(DummySupply, v1Acc) \in Nat
  BY <1>1, <1>6, TimesMono
<1> QED BY <1>4, <1>6, <1>7 DEF FromV1

\* What the invariant says of the harvestable rewards.
LEMMA BackedEnough ==
    ASSUME IInv, BackedInv, totalAllocPoint \in Nat
    PROVE  RewardsBacked
<1> SUFFICES ASSUME steady
             PROVE  SumFunctionOnSet([p \in Pools |-> PoolHarvestable(p)], Pools)
                      <= husky + FromV1 + V1Dust + ops
  BY DEF RewardsBacked
<1> DEFINE P == ACC_HUSKY_PRECISION
           F == [p \in Pools |-> Claims(users[p], AccNow(p))]
           H == [p \in Pools |-> PoolHarvestable(p)]
<1>1. P \in Nat \ {0} /\ IsFiniteSet(Pools) /\ IsFiniteSet(Accounts) /\ V1Type /\ Backed
  BY FairLaunchV2Assumption DEF BackedInv
<1>2. ASSUME NEW p \in Pools
      PROVE  /\ F[p] \in Int /\ Scale * F[p] <= Load(p)
             /\ H[p] \in Int /\ P * H[p] <= F[p]
  <2>1. F[p] \in Int /\ Scale * F[p] <= Load(p)
    BY <1>2, Refill
  <2> DEFINE f == [u \in Accounts |-> Harvestable(p, u)]
             g == [u \in Accounts |-> Pos(users[p][u], AccNow(p))]
  <2>2. ASSUME NEW u \in Accounts PROVE f[u] \in Int /\ g[u] \in Int /\ P * f[u] <= g[u]
    <3>1. users[p][u] \in UserRecord /\ AccNow(p) \in Nat
      BY <1>2, Refill DEF IInv, TypeOK
    <3> QED BY <3>1, PosType, HarvestableClaim
  <2>3. ScaledBelow(P, f, g, Accounts)
    BY <2>2 DEF ScaledBelow
  <2>4. H[p] = SumFunctionOnSet(f, Accounts) /\ F[p] = SumFunctionOnSet(g, Accounts)
    BY DEF PoolHarvestable, Claims
  <2> HIDE DEF f, g, H, F, P
  <2>5. /\ P * SumFunctionOnSet(f, Accounts) <= SumFunctionOnSet(g, Accounts)
        /\ SumFunctionOnSet(f, Accounts) \in Int
    BY <1>1, <2>3, SumScaled
  <2> QED BY <2>1, <2>4, <2>5
<1>3. SumFunctionOnSet(H, Pools) <= husky + FromV1 + V1Dust + ops
  <2> HIDE DEF F, H
  <2>1. /\ SumFunctionOnSet(F, Pools) <= P * Earned /\ Earned \in Int
    BY <1>1, <1>2, Covered
  <2>2. ScaledBelow(P, H, F, Pools)
    BY <1>2 DEF ScaledBelow
  <2> HIDE DEF P
  <2>3. /\ P * SumFunctionOnSet(H, Pools) <= SumFunctionOnSet(F, Pools)
        /\ SumFunctionOnSet(H, Pools) \in Int /\ SumFunctionOnSet(F, Pools) \in Int
    BY <1>1, <2>2, SumScaled
  <2>4. P * SumFunctionOnSet(H, Pools) <= P * Earned
    <3>1. P * SumFunctionOnSet(H, Pools) \in Int /\ P * Earned \in Int
      BY <1>1, <2>1, <2>3
    <3> QED BY <2>1, <2>3, <3>1 DEF P
  <2>5. SumFunctionOnSet(H, Pools) <= Earned
    BY <1>1, <2>1, <2>3, <2>4, MulCancel
  <2>6. Earned = husky + FromV1 + V1Dust + ops
    <3> DEFINE x == Times(DummySupply, v1Acc)
               y == Times(DummySupply, v1AccNow)
               b == huskyPerBlock * block
    <3>1. v1AccNow \in Nat /\ b \in Nat /\ DummySupply \in Nat /\ husky \in Nat /\ v1Acc \in Nat
          /\ ops \in Nat
      <4>1. huskyPerBlock \in Nat /\ block \in Nat /\ DummySupply \in Nat
        BY FairLaunchV2Assumption DEF IInv, TypeOK
      <4>2. v1AccNow \in Nat
        BY <1>1, FromV1Type
      <4>3. b \in Nat
        BY <4>1
      <4> QED BY <1>1, <4>1, <4>2, <4>3 DEF V1Type
    <3>2. x \in Nat /\ y \in Nat
      <4>1. PICK acc : acc = v1AccNow
        OBVIOUS
      <4>2. Times(DummySupply, acc) \in Nat
        BY <3>1, <4>1, TimesMono
      <4>3. Times(DummySupply, v1Acc) \in Nat
        BY <3>1, TimesMono
      <4> QED BY <4>1, <4>2, <4>3
    <3>3. Earned = husky - x + b + ops /\ FromV1 = y - x /\ V1Dust = b - y
      BY DEF Earned, FromV1, V1Dust
    <3> HIDE DEF x, y, b
    <3> QED BY <3>1, <3>2, <3>3
  <2> QED BY <2>5, <2>6
<1> QED BY <1>3

\* HUSKI drawn from FairLaunch does not change what is earned; a payment lowers it.
LEMMA EarnedStep ==
    ASSUME IInv, V1Type, harvestFromFairLaunchV1, block' = block,
           NEW paid \in 0..(husky + FromV1), husky' = husky + FromV1 - paid,
           NEW calls \in Nat, ops' = ops + calls
    PROVE  V1Type' /\ Earned \in Int /\ Earned' = Earned - paid + calls
<1>1. /\ v1Acc \in Nat /\ v1Block \in Nat /\ block \in Nat /\ v1Block <= block
      /\ huskyPerBlock \in Nat /\ DummySupply \in Nat \ {0} /\ ACC_HUSKY_PRECISION \in Nat
      /\ husky \in Nat /\ ops \in Nat
  BY FairLaunchV2Assumption DEF V1Type, IInv, TypeOK
<1>2. PICK acc : acc = v1AccNow
  OBVIOUS
<1>3. acc \in Nat /\ v1Acc <= acc
  BY <1>2, FromV1Type
<1> DEFINE x == Times(DummySupply, v1Acc)
           y == Times(DummySupply, acc)
           b == huskyPerBlock * block
<1>4. x \in Nat /\ y \in Nat /\ x <= y /\ b \in Nat
  <2>1. x \in Nat /\ y \in Nat /\ x <= y
    BY <1>1, <1>3, TimesMono
  <2>2. b \in Nat
    BY <1>1
  <2> QED BY <2>1, <2>2
<1>5. FromV1 = y - x /\ v1Acc' = acc /\ v1Block' = block
  BY <1>2 DEF FromV1, harvestFromFairLaunchV1
<1>6. Earned = husky - x + b + ops
  BY DEF Earned
<1>7. Earned' = husky' - y + huskyPerBlock * block' + ops'
  BY <1>5 DEF Earned
<1>8. huskyPerBlock * block' = b
  OBVIOUS
<1> HIDE DEF x, y, b
<1>9. husky' = husky + (y - x) - paid /\ paid \in 0..(husky + (y - x))
  BY <1>5
<1>10. husky' \in Nat /\ Earned \in Int /\ Earned' = Earned - paid + calls
  <2>1. paid \in Nat /\ paid <= husky + (y - x)
    BY <1>1, <1>4, <1>9
  <2>2. husky' \in Nat
    BY <1>1, <1>4, <1>9, <2>1
  <2>3. Earned' = (husky + (y - x) - paid) - y + b + (ops + calls)
    BY <1>7, <1>8, <1>9
  <2>4. Earned \in Int
    BY <1>1, <1>4, <1>6
  <2>5. (husky + (y - x) - paid) - y + b + (ops + calls) = (husky - x + b + ops) - paid + calls
    BY <1>1, <1>4, <2>1
  <2> QED BY <1>6, <2>2, <2>3, <2>4, <2>5
<1>11. V1Type'
  <2>1. ops' \in Nat /\ v1Block' \in 0..block'
    BY <1>1, <1>5
  <2> QED BY <1>3, <1>5, <1>10, <2>1 DEF V1Type
<1> QED BY <1>10, <1>11

\* A pool brought up to date, an account of it changed by up to change.
LEMMA LoadRefreshed ==
    ASSUME IInv, IInv', totalAllocPoint \in Nat, totalAllocPoint' = totalAllocPoint,
           NEW p \in Pools, pools'[p].accHuskyPerShare = AccNow(p),
           pools'[p].lastRewardBlock >= block, block' = block, NEW change \in Int,
           Claims(users'[p], AccNow(p)) <= Claims(users[p], AccNow(p)) + change
    PROVE  Load(p)' <= Load(p) + Scale * change
<1>1. /\ AccNow(p) \in Nat /\ Claims(users[p], AccNow(p)) \in Nat
      /\ Scale * Claims(users[p], AccNow(p)) <= Load(p)
  BY Refill
<1>2. Scale \in Nat \ {0} /\ Load(p) \in Nat
  BY LoadType
<1>3. PICK pool, us : pool = pools'[p] /\ us = users'[p]
  OBVIOUS
<1>4. pool \in PoolRecord /\ pool.lastRewardBlock >= block /\ us \in [Accounts -> UserRecord]
      /\ block \in Nat
  BY <1>3 DEF IInv, TypeOK
<1>5. Waiting(pool, block) = 0
  BY <1>4, WaitingFacts
<1> DEFINE c == Claims(users[p], AccNow(p))
           e == Claims(us, AccNow(p))
<1>6. Load(p)' = Scale * e + 0
  <2>1. Scale' = Scale
    BY DEF Scale
  <2>2. Load(p)' = Scale' * Claims(users'[p], pools'[p].accHuskyPerShare) + Waiting(pools'[p], block')
    BY DEF Load
  <2> QED BY <1>3, <1>5, <2>1, <2>2
<1>7. e \in Nat
  BY <1>1, <1>4, ClaimsType
<1>8. e <= c + change /\ c \in Nat /\ Scale * c <= Load(p)
  BY <1>1, <1>3
<1> HIDE DEF c, e
<1> DEFINE s == Scale
<1>9. s \in Nat
  BY <1>2
<1>10. Load(p)' = s * e + 0 /\ s * c <= Load(p)
  BY <1>6, <1>8
<1> HIDE DEF s
<1>11. s * e <= s * (c + change)
  <2>1. c + change \in Nat
    BY <1>7, <1>8
  <2> QED BY <1>7, <1>8, <1>9, <2>1, MulMono
<1>12. s * (c + change) = s * c + s * change /\ s * c \in Int /\ s * change \in Int /\ s * e \in Int
  BY <1>7, <1>8, <1>9
<1>13. Load(p)' <= Load(p) + s * change
  BY <1>2, <1>10, <1>11, <1>12
<1> QED BY <1>13 DEF s

\* A pool as it was, its claims no larger.
LEMMA LoadKept ==
    ASSUME IInv, IInv', totalAllocPoint \in Nat, totalAllocPoint' = totalAllocPoint,
           NEW p \in Pools, pools'[p] = pools[p], block' = block,
           Claims(users'[p], pools[p].accHuskyPerShare)
             <= Claims(users[p], pools[p].accHuskyPerShare)
    PROVE  Load(p)' <= Load(p)
<1> DEFINE c == Claims(users[p], pools[p].accHuskyPerShare)
           w == Waiting(pools[p], block)
           s == Scale
<1>1. s \in Nat \ {0} /\ c \in Nat /\ w \in Nat /\ Load(p) = s * c + w
  BY LoadType DEF Load
<1>2. PICK us : us = users'[p]
  OBVIOUS
<1> DEFINE e == Claims(us, pools[p].accHuskyPerShare)
<1>3. e \in Nat
  <2>1. us \in [Accounts -> UserRecord] /\ pools[p].accHuskyPerShare \in Nat
    BY <1>2 DEF IInv, TypeOK, PoolRecord
  <2> QED BY <2>1, ClaimsType
<1>4. Load(p)' = s * e + w /\ e <= c
  <2>1. Scale' = Scale
    BY DEF Scale
  <2>2. Load(p)' = Scale' * Claims(users'[p], pools'[p].accHuskyPerShare) + Waiting(pools'[p], block')
    BY DEF Load
  <2> QED BY <1>2, <2>1, <2>2
<1> HIDE DEF s, c, w, e
<1>5. s * e <= s * c /\ s * e \in Nat /\ s * c \in Nat
  BY <1>1, <1>3, <1>4, MulMono
<1> QED BY <1>1, <1>4, <1>5

\* The loads of a step that raises one of them.
LEMMA BackedMoves ==
    ASSUME IInv, IInv', totalAllocPoint \in Nat, totalAllocPoint' = totalAllocPoint, Backed,
           NEW p \in Pools, NEW change \in Int, \A q \in Pools : q # p => Load(q)' <= Load(q),
           Load(p)' <= Load(p) + Scale * change, Earned \in Int, Earned' \in Int,
           ACC_HUSKY_PRECISION * Earned + change <= ACC_HUSKY_PRECISION * Earned'
    PROVE  Backed'
<1> DEFINE f == [q \in Pools |-> Load(q)]
           k == Scale * change
           g == [q \in Pools |-> IF q = p THEN k ELSE 0]
           z == [q \in Pools |-> 0]
           P == ACC_HUSKY_PRECISION
<1>1. Scale \in Nat \ {0} /\ Scale' = Scale /\ IsFiniteSet(Pools) /\ P \in Nat
  BY LoadType, FairLaunchV2Assumption DEF Scale
<1>2. PICK h : h = [q \in Pools |-> Load(q)']
  OBVIOUS
<1>3. \A q \in Pools : f[q] \in Nat /\ f[q] = Load(q)
  BY LoadType
<1>4. \A q \in Pools : Load(q)' \in Nat
  <2>1. WeightNat'
    BY DEF WeightNat
  <2>2. IInv' /\ WeightNat' => LoadsNat'
    BY LoadsTyped, PTL
  <2> QED BY <2>1, <2>2 DEF LoadsNat
<1>5. k \in Int
  BY <1>1
<1>6. ASSUME NEW q \in Pools
      PROVE  f[q] \in Int /\ g[q] \in Int /\ h[q] \in Int /\ h[q] <= 1 * f[q] + g[q]
  <2>1. f[q] \in Nat /\ f[q] = Load(q) /\ h[q] = Load(q)' /\ h[q] \in Nat
    BY <1>2, <1>3, <1>4
  <2>2. g[q] = (IF q = p THEN k ELSE 0)
    OBVIOUS
  <2> HIDE DEF f, g, k
  <2>3. CASE q = p
    <3>1. g[q] = k /\ h[q] <= f[q] + k
      BY <2>1, <2>2, <2>3 DEF k
    <3> QED BY <1>5, <2>1, <3>1
  <2>4. CASE q # p
    <3>1. g[q] = 0 /\ h[q] <= f[q]
      BY <2>1, <2>2, <2>4
    <3> QED BY <2>1, <3>1
  <2> QED BY <2>3, <2>4
<1>7. Bounded(h, 1, f, g, Pools) /\ Differ(z, g, Pools, p) /\ (\A q \in Pools : z[q] = 0)
      /\ g[p] = k
  BY <1>5, <1>6 DEF Bounded, Differ
<1>8. SumFunctionOnSet(f, Pools) <= Scale * (P * Earned)
  BY DEF Backed, TotalLoad
<1>9. TotalLoad' = SumFunctionOnSet(h, Pools)
  BY <1>2 DEF TotalLoad
<1> HIDE DEF f, g, z, k
<1>10. SumFunctionOnSet(h, Pools) <= 1 * SumFunctionOnSet(f, Pools) + SumFunctionOnSet(g, Pools)
  BY <1>1, <1>7, SumOrder
<1>11. SumFunctionOnSet(z, Pools) = 0
  BY <1>1, <1>7, SumOfZeros
<1>12. SumFunctionOnSet(g, Pools) = k
  BY <1>1, <1>5, <1>7, <1>11, SumChange
<1>13. SumFunctionOnSet(f, Pools) \in Int /\ SumFunctionOnSet(h, Pools) \in Int
  BY <1>1, <1>6, SumStep
<1> DEFINE x == P * Earned
           s == Scale
<1>14. x \in Int /\ s \in Nat
  BY <1>1
<1>15. PICK y : y = P * Earned'
  OBVIOUS
<1>16. y \in Int /\ x + change <= y
  <2>1. PICK e : e = Earned'
    OBVIOUS
  <2>2. e \in Int /\ y = P * e /\ x + change <= P * e
    BY <1>15, <2>1, Zenon
  <2> QED BY <1>1, <2>2
<1>17. k = s * change /\ SumFunctionOnSet(f, Pools) <= s * x
  BY <1>8 DEF k
<1> HIDE DEF x, s
<1>18. s * (x + change) <= s * y
  <2>1. y - (x + change) \in Nat
    BY <1>14, <1>16
  <2>2. s * (y - (x + change)) \in Nat
    BY <1>14, <2>1
  <2>3. s * (y - (x + change)) = s * y - s * (x + change)
    BY <1>14, <1>16
  <2> QED BY <1>14, <1>16, <2>2, <2>3
<1>19. s * (x + change) = s * x + s * change /\ s * x \in Int /\ s * change \in Int /\ s * y \in Int
  BY <1>14, <1>16
<1>20. SumFunctionOnSet(h, Pools) <= s * y
  BY <1>5, <1>10, <1>12, <1>13, <1>17, <1>18, <1>19
<1> QED BY <1>1, <1>9, <1>15, <1>20 DEF Backed, s

\* The loads of a step that raises none.
LEMMA BackedStays ==
    ASSUME IInv, IInv', totalAllocPoint \in Nat, totalAllocPoint' = totalAllocPoint, Backed,
           \A q \in Pools : Load(q)' <= Load(q), Earned \in Int, Earned' \in Int, Earned <= Earned'
    PROVE  Backed'
<1> DEFINE f == [q \in Pools |-> Load(q)]
           P == ACC_HUSKY_PRECISION
<1>1. Scale \in Nat \ {0} /\ Scale' = Scale /\ IsFiniteSet(Pools) /\ P \in Nat
  BY LoadType, FairLaunchV2Assumption DEF Scale
<1>2. PICK h : h = [q \in Pools |-> Load(q)']
  OBVIOUS
<1>3. \A q \in Pools : f[q] \in Nat /\ f[q] = Load(q)
  BY LoadType
<1>4. \A q \in Pools : Load(q)' \in Nat
  <2>1. WeightNat'
    BY DEF WeightNat
  <2>2. IInv' /\ WeightNat' => LoadsNat'
    BY LoadsTyped, PTL
  <2> QED BY <2>1, <2>2 DEF LoadsNat
<1>5. ASSUME NEW q \in Pools PROVE h[q] \in Int /\ f[q] \in Int /\ 1 * h[q] <= f[q]
  <2>1. h[q] = Load(q)' /\ h[q] \in Nat /\ f[q] \in Nat /\ h[q] <= f[q]
    BY <1>2, <1>3, <1>4
  <2> HIDE DEF f
  <2> QED BY <2>1
<1>6. ScaledBelow(1, h, f, Pools)
  BY <1>5 DEF ScaledBelow
<1>7. SumFunctionOnSet(f, Pools) <= Scale * (P * Earned)
  BY DEF Backed, TotalLoad
<1>8. TotalLoad' = SumFunctionOnSet(h, Pools)
  BY <1>2 DEF TotalLoad
<1> HIDE DEF f
<1>9. /\ 1 * SumFunctionOnSet(h, Pools) <= SumFunctionOnSet(f, Pools)
      /\ SumFunctionOnSet(h, Pools) \in Int /\ SumFunctionOnSet(f, Pools) \in Int
  BY <1>1, <1>6, SumScaled
<1>10. PICK e : e = Earned'
  OBVIOUS
<1>11. e \in Int /\ Earned <= e
  BY <1>10, Zenon
<1>12. Scale * (P * Earned) <= Scale * (P * e)
  <2> DEFINE d == e - Earned
             s == Scale
  <2>1. d \in Nat /\ s \in Nat
    BY <1>1, <1>11
  <2>2. P * d \in Nat
    BY <1>1, <2>1
  <2>3. s * (P * d) \in Nat
    BY <2>1, <2>2
  <2>4. P * d = P * e - P * Earned /\ P * e \in Int /\ P * Earned \in Int
    BY <1>1, <1>11
  <2> HIDE DEF d, s
  <2>5. s * (P * e - P * Earned) = s * (P * e) - s * (P * Earned)
        /\ s * (P * e) \in Int /\ s * (P * Earned) \in Int
    BY <2>1, <2>4, Distribute
  <2> QED BY <2>3, <2>4, <2>5 DEF s
<1>13. Scale * (P * Earned) \in Int /\ Scale * (P * e) \in Int
  <2>1. P * Earned \in Int /\ P * e \in Int
    BY <1>1, <1>11
  <2> QED BY <1>1, <2>1
<1>14. SumFunctionOnSet(h, Pools) <= Scale * (P * e)
  BY <1>7, <1>9, <1>12, <1>13
<1> QED BY <1>1, <1>8, <1>10, <1>14 DEF Backed

\* The weights are naturals, as their sum is.
LEMMA WeightsNat ==
    ASSUME IInv, WeightsAddUp
    PROVE  totalAllocPoint \in Nat
<1> DEFINE f == [p \in Pools |-> pools[p].allocPoint]
<1>1. NatOn(f, Pools) /\ IsFiniteSet(Pools)
  BY FairLaunchV2Assumption DEF NatOn, IInv, TypeOK, PoolRecord
<1>2. totalAllocPoint = SumFunctionOnSet(f, Pools)
  BY DEF WeightsAddUp
<1> HIDE DEF f
<1> QED BY <1>1, <1>2, SumOfNats

\* The same, to be read after a step.
LEMMA WeightsTyped == IInv /\ WeightsAddUp => WeightNat
BY WeightsNat DEF WeightNat

\* The total follows a change of one weight.
LEMMA WeightsChange ==
    ASSUME IInv, IInv', WeightsAddUp, NEW p \in Pools,
           \A q \in Pools : q # p => pools'[q].allocPoint = pools[q].allocPoint,
           totalAllocPoint' = totalAllocPoint - pools[p].allocPoint + pools'[p].allocPoint
    PROVE  WeightsAddUp'
<1> DEFINE f == [q \in Pools |-> pools[q].allocPoint]
<1>1. PICK g : g = [q \in Pools |-> pools'[q].allocPoint]
  OBVIOUS
<1>2. \A q \in Pools : /\ f[q] = pools[q].allocPoint /\ f[q] \in Nat
                       /\ g[q] = pools'[q].allocPoint /\ g[q] \in Nat
  BY <1>1 DEF IInv, TypeOK, PoolRecord
<1>3. Differ(f, g, Pools, p) /\ IsFiniteSet(Pools)
  BY <1>2, FairLaunchV2Assumption DEF Differ
<1>4. totalAllocPoint = SumFunctionOnSet(f, Pools)
  BY DEF WeightsAddUp
<1> HIDE DEF f
<1>5. SumFunctionOnSet(g, Pools) = SumFunctionOnSet(f, Pools) - f[p] + g[p]
  BY <1>3, SumChange
<1>6. totalAllocPoint' = SumFunctionOnSet(g, Pools)
  BY <1>2, <1>4, <1>5
<1> QED BY <1>1, <1>6 DEF WeightsAddUp

\* And stays when they all do.
LEMMA WeightsKept ==
    ASSUME IInv, IInv', WeightsAddUp, totalAllocPoint' = totalAllocPoint,
           \A q \in Pools : pools'[q].allocPoint = pools[q].allocPoint
    PROVE  WeightsAddUp'
<1> DEFINE f == [q \in Pools |-> pools[q].allocPoint]
<1>1. PICK g : g = [q \in Pools |-> pools'[q].allocPoint]
  OBVIOUS
<1>2. \A q \in Pools : f[q] \in Int /\ g[q] = f[q]
  BY <1>1 DEF IInv, TypeOK, PoolRecord
<1>3. totalAllocPoint = SumFunctionOnSet(f, Pools) /\ IsFiniteSet(Pools)
  BY FairLaunchV2Assumption DEF WeightsAddUp
<1> HIDE DEF f
<1>4. SumFunctionOnSet(g, Pools) = SumFunctionOnSet(f, Pools)
  BY <1>2, <1>3, SumAgree
<1> QED BY <1>1, <1>3, <1>4 DEF WeightsAddUp

\* A block adds huskyPerBlock, shared by the weights.
LEMMA TickBacked ==
    ASSUME IInv, IInv', BackedInv, Tick
    PROVE  BackedInv'
<1> DEFINE f == [q \in Pools |-> pools[q].allocPoint]
           g == [q \in Pools |-> Load(q)]
           P == ACC_HUSKY_PRECISION
           c == huskyPerBlock * P
           T == totalAllocPoint
           s == Scale
<1>1. /\ UNCHANGED <<pools, users, totalAllocPoint, husky, v1Acc, v1Block, steady, ops>>
      /\ block' = block + 1
  BY DEF Tick, rewards
<1>2. /\ IsFiniteSet(Pools) /\ P \in Nat /\ huskyPerBlock \in Nat /\ block \in Nat
      /\ V1Type /\ WeightsAddUp /\ T \in Nat /\ DummySupply \in Nat
  BY WeightsNat, FairLaunchV2Assumption DEF BackedInv, IInv, TypeOK
<1>3. c \in Nat /\ s \in Nat \ {0} /\ T <= s
  BY <1>2, LoadType
<1>4. V1Type' /\ WeightsAddUp'
  BY <1>1, <1>2 DEF V1Type, WeightsAddUp
<1>5. ASSUME steady PROVE Backed'
  <2>1. PICK h : h = [q \in Pools |-> Load(q)']
    OBVIOUS
  <2>2. ASSUME NEW q \in Pools
        PROVE  f[q] \in Int /\ g[q] \in Int /\ h[q] \in Int /\ h[q] <= c * f[q] + g[q]
    <3> DEFINE k == s * Claims(users[q], pools[q].accHuskyPerShare)
               w == Waiting(pools[q], block)
               v == Waiting(pools[q], block + 1)
    <3>1. pools[q] \in PoolRecord /\ f[q] = pools[q].allocPoint /\ f[q] \in Nat
      BY DEF IInv, TypeOK, PoolRecord
    <3>2. w \in Nat /\ v \in Nat /\ v <= c * f[q] + w
      BY <1>2, <3>1, WaitingFacts
    <3>3. g[q] = k + w /\ h[q] = k + v
      <4>1. Scale' = Scale
        BY <1>1 DEF Scale
      <4>2. Load(q)' = Scale' * Claims(users'[q], pools'[q].accHuskyPerShare)
                         + Waiting(pools'[q], block')
        BY DEF Load
      <4> QED BY <1>1, <2>1, <4>1, <4>2 DEF Load
    <3>4. k \in Nat
      BY <1>2, <1>3, LoadType
    <3> HIDE DEF k, w, v, f, g, c
    <3>5. c * f[q] \in Nat
      BY <1>3, <3>1
    <3> QED BY <3>1, <3>2, <3>3, <3>4, <3>5
  <2>3. Bounded(h, c, f, g, Pools)
    BY <2>2 DEF Bounded
  <2>4. T = SumFunctionOnSet(f, Pools) /\ SumFunctionOnSet(g, Pools) <= s * (P * Earned)
    BY <1>2, <1>5 DEF WeightsAddUp, BackedInv, Backed, TotalLoad
  <2>5. TotalLoad' = SumFunctionOnSet(h, Pools) /\ Scale' = s
    BY <1>1, <2>1 DEF TotalLoad, Scale
  <2>6. Earned \in Int /\ Earned' = Earned + huskyPerBlock
    <3> DEFINE x == Times(DummySupply, v1Acc)
               b == huskyPerBlock * block
    <3>1. x \in Nat /\ b \in Nat /\ husky \in Nat /\ ops \in Nat
      BY <1>2, TimesMono DEF V1Type
    <3>2. huskyPerBlock * (block + 1) = b + huskyPerBlock
      BY <1>2
    <3>3. Earned = husky - x + b + ops
      BY DEF Earned
    <3>4. Earned' = husky - x + huskyPerBlock * (block + 1) + ops
      BY <1>1 DEF Earned
    <3> HIDE DEF x, b
    <3> QED BY <1>2, <3>1, <3>2, <3>3, <3>4
  <2> DEFINE X == P * Earned
  <2>7. X \in Int
    BY <1>2, <2>6
  <2>8. P * (Earned + huskyPerBlock) = X + c
    BY <1>2, <2>6
  <2>9. SumFunctionOnSet(f, Pools) \in Int /\ SumFunctionOnSet(g, Pools) \in Int
        /\ SumFunctionOnSet(h, Pools) \in Int
    BY <1>2, <2>2, SumStep
  <2> HIDE DEF f, g, c, X, s, T
  <2>10. SumFunctionOnSet(h, Pools)
           <= c * SumFunctionOnSet(f, Pools) + SumFunctionOnSet(g, Pools)
    BY <1>2, <1>3, <2>3, SumOrder
  <2>11. c * T <= c * s /\ c * T \in Nat /\ c * s \in Nat
    BY <1>2, <1>3, MulMono
  <2>12. s * (X + c) = s * X + c * s /\ s * X \in Int
    BY <1>3, <2>7
  <2>13. SumFunctionOnSet(g, Pools) <= s * X
    BY <2>4 DEF X
  <2>14. SumFunctionOnSet(h, Pools) <= s * (X + c)
    BY <2>4, <2>9, <2>10, <2>11, <2>12, <2>13
  <2> QED BY <2>5, <2>6, <2>8, <2>14 DEF Backed
<1> QED BY <1>1, <1>4, <1>5 DEF BackedInv

\* A call that settles one account on its updated pool and pays it.
LEMMA SettleBacked ==
    ASSUME IInv, IInv', BackedInv, NEW p \in Pools, NEW u \in Accounts, NEW user \in UserRecord,
           pools' = [pools EXCEPT ![p] = updatePool(p)],
           users' = [users EXCEPT ![p][u] = user],
           UNCHANGED <<totalAllocPoint, block, steady>>,
           harvestFromFairLaunchV1, NEW paid \in 0..(husky + FromV1),
           husky' = husky + FromV1 - paid, ops' = ops + 1,
           Pos(user, AccNow(p)) <= Pos(users[p][u], AccNow(p))
                                     + (ACC_HUSKY_PRECISION - ACC_HUSKY_PRECISION * paid)
    PROVE  BackedInv'
<1> DEFINE P == ACC_HUSKY_PRECISION
           change == P - P * paid
<1>1. /\ V1Type /\ WeightsAddUp /\ P \in Nat /\ TypeOK /\ pools \in [Pools -> PoolRecord]
      /\ users \in [Pools -> [Accounts -> UserRecord]] /\ stake[p] \in Int /\ block \in Nat
  BY FairLaunchV2Assumption DEF BackedInv, IInv, TypeOK
<1>2. totalAllocPoint \in Nat
  BY <1>1, WeightsNat
<1>3. V1Type' /\ Earned \in Int /\ Earned' = Earned - paid + 1
  BY <1>1, EarnedStep
<1>4. paid \in Int /\ change \in Int
  <2>1. V1Type' /\ husky' \in Nat
    BY <1>3 DEF V1Type
  <2>2. paid \in Int
    OBVIOUS
  <2> QED BY <1>1, <2>2
<1>5. /\ updatePool(p).accHuskyPerShare = AccNow(p) /\ updatePool(p).lastRewardBlock >= block
      /\ updatePool(p).allocPoint = pools[p].allocPoint /\ AccNow(p) \in Nat
  BY <1>1, UpdateFacts DEF updatePool, AccNow
<1>6. /\ pools'[p] = updatePool(p) /\ users'[p][u] = user
      /\ \A v \in Accounts : v # u => users'[p][v] = users[p][v]
      /\ \A q \in Pools : q # p => pools'[q] = pools[q] /\ users'[q] = users[q]
  BY <1>1
<1>7. WeightsAddUp'
  BY <1>1, <1>5, <1>6, WeightsKept
<1>8. ASSUME steady PROVE Backed'
  <2>1. Backed
    BY <1>8 DEF BackedInv
  <2>2. PICK new : new = users'[p]
    OBVIOUS
  <2>3. new \in [Accounts -> UserRecord] /\ new[u] = user
        /\ \A v \in Accounts : v # u => new[v] = users[p][v]
    BY <1>6, <2>2 DEF IInv, TypeOK
  <2> DEFINE y == AccNow(p)
             us == users[p]
  <2>4. Claims(new, y) = Claims(us, y) - Pos(us[u], y) + Pos(user, y)
    <3>1. us \in [Accounts -> UserRecord]
      BY <1>1
    <3> QED BY <1>5, <2>3, <3>1, ClaimsChange
  <2>5. Claims(us, y) \in Nat /\ Pos(us[u], y) \in Nat /\ Pos(user, y) \in Nat
        /\ Pos(user, y) <= Pos(us[u], y) + change
    BY <1>1, <1>5, ClaimsType, PosType
  <2> HIDE DEF change
  <2>6. Claims(new, y) <= Claims(us, y) + change
    <3> HIDE DEF y, us
    <3> QED BY <1>4, <2>4, <2>5
  <2>7. Load(p)' <= Load(p) + Scale * change
    BY <1>2, <1>4, <1>5, <1>6, <2>2, <2>6, LoadRefreshed
  <2>8. ASSUME NEW q \in Pools, q # p PROVE Load(q)' <= Load(q)
    <3>1. Claims(users[q], pools[q].accHuskyPerShare) \in Nat
      BY <1>2, LoadType
    <3>2. Claims(users'[q], pools[q].accHuskyPerShare)
            <= Claims(users[q], pools[q].accHuskyPerShare)
      BY <1>6, <2>8, <3>1
    <3> QED BY <1>2, <1>6, <2>8, <3>2, LoadKept
  <2>9. PICK e : e = Earned'
    OBVIOUS
  <2>10. e \in Int /\ P * Earned + change <= P * e
    <3>1. e = Earned - paid + 1
      BY <1>3, <2>9
    <3>2. P * (Earned - paid + 1) = P * Earned - P * paid + P
      BY <1>1, <1>3, <1>4
    <3>3. P * Earned \in Int /\ P * paid \in Int
      BY <1>1, <1>3, <1>4
    <3>4. P * e = P * Earned - P * paid + P
      BY <3>1, <3>2, Zenon
    <3>5. P * Earned + change = P * e
      BY <1>1, <3>3, <3>4 DEF change
    <3>6. e \in Int
      BY <1>3, <1>4, <3>1
    <3>7. P * e \in Int
      BY <1>1, <3>6
    <3> QED BY <3>5, <3>6, <3>7
  <2>11. Earned' \in Int /\ P * Earned + change <= P * Earned'
    BY <2>9, <2>10, Zenon
  <2> QED BY <1>2, <1>3, <1>4, <2>1, <2>7, <2>8, <2>11, BackedMoves
<1> QED BY <1>3, <1>7, <1>8 DEF BackedInv

\* deposit rounds the debt of the new stake down: a call's unit.
LEMMA DepositBacked ==
    ASSUME IInv, IInv', BackedInv, NEW sender \in Accounts, NEW for \in Accounts,
           NEW p \in Pools, NEW amount \in Amounts, deposit(sender, for, p, amount)
    PROVE  BackedInv'
<1> DEFINE old == users[p][for]
           y == updatePool(p).accHuskyPerShare
           P == ACC_HUSKY_PRECISION
           A == old.amount
           d == old.rewardDebt
           t == Times(amount, y)
           new == [amount |-> A + amount, rewardDebt |-> DebtAfterDeposit(old, amount, y),
                   fundedBy |-> sender]
<1>1. /\ pools' = [pools EXCEPT ![p] = updatePool(p)]
      /\ users' = [users EXCEPT ![p][for] = new]
      /\ UNCHANGED <<totalAllocPoint, block, steady>>
      /\ harvestFromFairLaunchV1 /\ husky' = husky + FromV1 /\ ops' = ops + 1
  BY DEF deposit, PoolBeforeStake, Called
<1>2. /\ old \in UserRecord /\ A \in Nat /\ d \in Nat /\ amount \in Nat /\ P \in Nat \ {0}
      /\ TypeOK /\ stake[p] \in Int
  BY FairLaunchV2Assumption DEF IInv, TypeOK, UserRecord
<1>3. y = AccNow(p) /\ y \in Nat
  BY <1>2, UpdateFacts DEF updatePool, AccNow
<1>4. new = [amount |-> A + amount, rewardDebt |-> d + t, fundedBy |-> sender]
  BY DEF DebtAfterDeposit
<1> HIDE DEF new, y
<1> DEFINE X == amount * y
           Y == A * y
<1>5. X \in Nat /\ Y \in Nat /\ (A + amount) * y = Y + X
  BY <1>2, <1>3
<1>6. t = X \div P
  BY DEF Times
<1> HIDE DEF X, Y, t, A, d
<1>7. t \in Nat /\ P * t <= X /\ X < P * t + P
  BY <1>2, <1>5, <1>6, FloorBounds
<1>8. new \in UserRecord /\ new.amount = A + amount /\ new.rewardDebt = d + t
  BY <1>2, <1>4, <1>7 DEF UserRecord
<1>9. Claim(old, y) = Y - P * d /\ Claim(new, y) = (Y + X) - (P * d + P * t)
      /\ P * d \in Int /\ P * t \in Int
  <2>1. P * (d + t) = P * d + P * t /\ P * d \in Int /\ P * t \in Int
    BY <1>2, <1>7
  <2>2. Claim(new, y) = (A + amount) * y - P * (d + t)
    BY <1>8 DEF Claim
  <2>3. Claim(old, y) = A * y - P * d
    BY DEF Claim, A, d
  <2> QED BY <1>5, <2>1, <2>2, <2>3 DEF Y
<1>10. Pos(new, y) <= Pos(old, y) + P
  <2>1. Claim(new, y) <= Claim(old, y) + P /\ Claim(new, y) \in Int /\ Claim(old, y) \in Int
    BY <1>2, <1>5, <1>7, <1>9
  <2> QED BY <1>2, <2>1 DEF Pos
<1>11. 0 \in 0..(husky + FromV1) /\ husky' = husky + FromV1 - 0 /\ P - P * 0 = P
  <2>1. V1Type
    BY DEF BackedInv
  <2>2. husky \in Nat /\ FromV1 \in Nat
    BY <2>1, FromV1Type DEF V1Type
  <2> QED BY <1>1, <1>2, <2>2
<1>12. Pos(new, AccNow(p)) <= Pos(users[p][for], AccNow(p)) + (P - P * 0)
  BY <1>3, <1>10, <1>11
<1> QED BY <1>1, <1>8, <1>11, <1>12, SettleBacked

\* A payment takes from a claim what it pays.
LEMMA PaidClaim ==
    ASSUME NEW y \in Nat, NEW A \in Nat, NEW a \in Nat, a <= A, NEW d \in Nat,
           NEW old \in UserRecord, old.amount = A, old.rewardDebt = d,
           NEW new \in UserRecord, new.amount = A - a,
           new.rewardDebt = Times(A, y) - Times(a, y),
           NEW paid \in Nat, paid = Times(A, y) - d
    PROVE  Pos(new, y) <= Pos(old, y) + (ACC_HUSKY_PRECISION - ACC_HUSKY_PRECISION * paid)
<1> DEFINE P == ACC_HUSKY_PRECISION
           X == a * y
           Y == A * y
           t == X \div P
           r == Y \div P
<1>1. P \in Nat \ {0} /\ X \in Nat /\ Y \in Nat
  BY FairLaunchV2Assumption
<1>2. Times(A, y) = r /\ Times(a, y) = t
  BY DEF Times
<1>3. (A - a) * y = Y - X
  OBVIOUS
<1>4. Claim(old, y) = Y - P * d
  BY DEF Claim
<1>5. Claim(new, y) = (Y - X) - P * (r - t)
  <2>1. Claim(new, y) = (A - a) * y - P * (Times(A, y) - Times(a, y))
    BY DEF Claim
  <2> HIDE DEF r, t, X, Y
  <2> QED BY <1>2, <1>3, <2>1, Zenon
<1>6. t \in Nat /\ P * t <= X /\ r \in Nat /\ P * r <= Y
  <2> HIDE DEF X, Y
  <2> QED BY <1>1, FloorBounds
<1> HIDE DEF X, Y, t, r, P
<1>7. P * (r - t) = P * r - P * t /\ P * r \in Int /\ P * t \in Int /\ P * d \in Int
  BY <1>1, <1>6
<1>8. paid = r - d
  BY <1>2
<1>9. P * paid = P * r - P * d /\ P * paid \in Int
  <2>1. P * (r - d) = P * r - P * d
    BY <1>1, <1>6
  <2> QED BY <1>7, <1>8, <2>1
<1>10. Claim(new, y) <= Claim(old, y) - P * paid /\ Claim(old, y) - P * paid >= 0
       /\ Claim(new, y) \in Int /\ Claim(old, y) \in Int
  BY <1>1, <1>4, <1>5, <1>6, <1>7, <1>9
<1>11. Pos(new, y) <= Claim(old, y) - P * paid /\ Claim(old, y) <= Pos(old, y)
       /\ Pos(old, y) \in Int /\ Pos(new, y) \in Int
  BY <1>9, <1>10 DEF Pos
<1>12. Pos(new, y) <= Pos(old, y) + (P - P * paid)
  BY <1>1, <1>9, <1>10, <1>11
<1> QED BY <1>12 DEF P

\* withdraw pays what is pending and rounds the debt of the rest up.
LEMMA WithdrawBacked ==
    ASSUME IInv, IInv', BackedInv, NEW sender \in Accounts, NEW for \in Accounts,
           NEW p \in Pools, NEW amount \in Amounts, withdraw(sender, for, p, amount)
    PROVE  BackedInv'
<1> DEFINE old == users[p][for]
           y == updatePool(p).accHuskyPerShare
           A == old.amount
           d == old.rewardDebt
           funder == IF A = amount THEN NoAddress ELSE sender
           new == [amount |-> A - amount, rewardDebt |-> DebtAfterWithdraw(old, amount, y),
                   fundedBy |-> funder]
           paid == Pending(p, for, y)
<1>1. /\ pools' = [pools EXCEPT ![p] = updatePool(p)]
      /\ users' = [users EXCEPT ![p][for] = new]
      /\ UNCHANGED <<totalAllocPoint, block, steady>> /\ ops' = ops + 1 /\ amount <= A
      /\ Harvest(p, for, y)
  BY DEF withdraw, Called
<1>2. /\ harvestFromFairLaunchV1 /\ husky' = husky + FromV1 - paid
      /\ paid \in 0..(husky + FromV1)
  BY <1>1 DEF Harvest
<1>3. /\ old \in UserRecord /\ A \in Nat /\ d \in Nat /\ amount \in Nat
      /\ TypeOK /\ stake[p] \in Int /\ funder \in Accounts \cup {NoAddress}
      /\ users' \in [Pools -> [Accounts -> UserRecord]]
      /\ users \in [Pools -> [Accounts -> UserRecord]]
  BY FairLaunchV2Assumption DEF IInv, TypeOK, UserRecord
<1>4. y = AccNow(p) /\ y \in Nat
  BY <1>3, UpdateFacts DEF updatePool, AccNow
<1>5. /\ new.amount = A - amount /\ new.rewardDebt = Times(A, y) - Times(amount, y)
      /\ paid = Times(A, y) - d
  BY DEF DebtAfterWithdraw, Pending
<1> HIDE DEF new, y, paid
<1>6. users'[p][for] = new
  BY <1>1, <1>3
<1>7. new \in UserRecord
  BY <1>3, <1>6
<1>8. paid \in Nat
  BY <1>2
<1>9. Pos(new, y) <= Pos(old, y) + (ACC_HUSKY_PRECISION - ACC_HUSKY_PRECISION * paid)
  BY <1>1, <1>3, <1>4, <1>5, <1>7, <1>8, PaidClaim
<1> QED BY <1>1, <1>2, <1>4, <1>7, <1>9, SettleBacked

\* harvest pays what is pending.
LEMMA HarvestBacked ==
    ASSUME IInv, IInv', BackedInv, NEW sender \in Accounts, NEW p \in Pools, harvest(sender, p)
    PROVE  BackedInv'
<1> DEFINE old == users[p][sender]
           y == updatePool(p).accHuskyPerShare
           A == old.amount
           d == old.rewardDebt
           new == [old EXCEPT !.rewardDebt = Times(A, y)]
           paid == Pending(p, sender, y)
<1>1. /\ pools' = [pools EXCEPT ![p] = updatePool(p)]
      /\ users' = [users EXCEPT ![p][sender].rewardDebt = Times(A, y)]
      /\ UNCHANGED <<totalAllocPoint, block, steady>> /\ ops' = ops + 1
      /\ Harvest(p, sender, y)
  BY DEF harvest, Called
<1>2. /\ harvestFromFairLaunchV1 /\ husky' = husky + FromV1 - paid
      /\ paid \in 0..(husky + FromV1)
  BY <1>1 DEF Harvest
<1>3. /\ old \in UserRecord /\ A \in Nat /\ d \in Nat /\ TypeOK /\ stake[p] \in Int
      /\ users' \in [Pools -> [Accounts -> UserRecord]]
      /\ users \in [Pools -> [Accounts -> UserRecord]]
  BY DEF IInv, TypeOK, UserRecord
<1>4. y = AccNow(p) /\ y \in Nat
  BY <1>3, UpdateFacts DEF updatePool, AccNow
<1>5. users' = [users EXCEPT ![p][sender] = new]
  BY <1>1, <1>3
<1>6. paid = Times(A, y) - d
  BY DEF Pending
<1>7. Times(A, y) \in Nat /\ Times(0, y) = 0 /\ A - 0 = A
  <2> HIDE DEF y, A
  <2>1. Times(A, y) \in Nat
    <3>1. A \in Nat /\ y \in Nat /\ y <= y
      BY <1>3, <1>4
    <3> QED BY <3>1, TimesMono
  <2>2. Times(0, y) = 0
    BY <1>4, TimesZero
  <2>3. A - 0 = A
    BY <1>3
  <2> QED BY <2>1, <2>2, <2>3
<1>8. new \in UserRecord /\ new.amount = A - 0 /\ new.rewardDebt = Times(A, y) - Times(0, y)
  <2>1. new \in UserRecord /\ new.amount = A /\ new.rewardDebt = Times(A, y)
    <3> HIDE DEF y
    <3> QED BY <1>3, <1>7 DEF UserRecord
  <2> HIDE DEF new, y, A
  <2> QED BY <1>7, <2>1
<1> HIDE DEF new, y, paid
<1>9. paid \in Nat
  BY <1>2
<1>10. Pos(new, y) <= Pos(old, y) + (ACC_HUSKY_PRECISION - ACC_HUSKY_PRECISION * paid)
  <2>1. 0 \in Nat /\ 0 <= A
    BY <1>3
  <2> QED BY <1>3, <1>4, <1>6, <1>8, <1>9, <2>1, PaidClaim
<1> QED BY <1>1, <1>2, <1>4, <1>5, <1>8, <1>10, SettleBacked

\* emergencyWithdraw gives a claim up.
LEMMA EmergencyBacked ==
    ASSUME IInv, IInv', BackedInv, NEW sender \in Accounts, NEW p \in Pools,
           emergencyWithdraw(sender, p)
    PROVE  BackedInv'
<1>1. /\ users' = [users EXCEPT ![p][sender] = NoUser] /\ ops' = ops + 1
      /\ UNCHANGED <<pools, totalAllocPoint, husky, v1Acc, v1Block, block, steady>>
  BY DEF emergencyWithdraw, Called, rewards
<1>2. /\ V1Type /\ WeightsAddUp /\ users \in [Pools -> [Accounts -> UserRecord]]
      /\ users' \in [Pools -> [Accounts -> UserRecord]] /\ totalAllocPoint \in Nat
      /\ ops \in Nat /\ husky \in Nat /\ block \in Nat /\ v1Acc \in Nat
      /\ huskyPerBlock \in Nat /\ DummySupply \in Nat
  BY WeightsNat, FairLaunchV2Assumption DEF BackedInv, IInv, TypeOK, V1Type
<1>3. V1Type' /\ WeightsAddUp'
  BY <1>1, <1>2 DEF V1Type, WeightsAddUp
<1>4. ASSUME steady PROVE Backed'
  <2>1. ASSUME NEW q \in Pools PROVE Load(q)' <= Load(q)
    <3> DEFINE x == pools[q].accHuskyPerShare
               us == users[q]
    <3>1. PICK new : new = users'[q]
      OBVIOUS
    <3>2. new \in [Accounts -> UserRecord] /\ us \in [Accounts -> UserRecord] /\ x \in Nat
      BY <1>2, <3>1 DEF IInv, TypeOK, PoolRecord
    <3>3. Claims(us, x) \in Nat
      BY <3>2, ClaimsType
    <3>4. Claims(new, x) <= Claims(us, x)
      <4>1. CASE q # p
        <5>1. new = us
          BY <1>1, <1>2, <3>1, <4>1
        <5> QED BY <3>3, <5>1
      <4>2. CASE q = p
        <5>1. new[sender] = NoUser /\ \A v \in Accounts : v # sender => new[v] = us[v]
          BY <1>1, <1>2, <3>1, <4>2
        <5>2. Claims(new, x) = Claims(us, x) - Pos(us[sender], x) + Pos(NoUser, x)
          BY <3>2, <5>1, ClaimsChange
        <5>3. Pos(us[sender], x) \in Nat
          BY <3>2, PosType
        <5>4. Pos(NoUser, x) = 0
          <6>1. NoUser.amount = 0 /\ NoUser.rewardDebt = 0 /\ ACC_HUSKY_PRECISION \in Nat
            BY FairLaunchV2Assumption DEF NoUser
          <6>2. 0 * x - ACC_HUSKY_PRECISION * 0 = 0
            BY <3>2, <6>1
          <6> QED BY <6>1, <6>2 DEF Pos, Claim
        <5> HIDE DEF us, x
        <5> QED BY <3>3, <5>2, <5>3, <5>4
      <4> QED BY <4>1, <4>2
    <3> QED BY <1>1, <1>2, <3>1, <3>4, LoadKept
  <2>2. Earned \in Int /\ Earned' = Earned + 1
    <3> DEFINE x == Times(DummySupply, v1Acc)
               b == huskyPerBlock * block
    <3>1. x \in Nat
      BY <1>2, TimesMono
    <3>2. b \in Nat
      BY <1>2
    <3>3. Earned = husky - x + b + ops /\ Earned' = husky - x + b + (ops + 1)
      BY <1>1 DEF Earned
    <3> HIDE DEF x, b
    <3> QED BY <1>2, <3>1, <3>2, <3>3
  <2>3. Earned' \in Int /\ Earned <= Earned'
    BY <2>2
  <2>4. Backed
    BY <1>4 DEF BackedInv
  <2> QED BY <1>1, <1>2, <2>1, <2>2, <2>3, <2>4, BackedStays
<1> QED BY <1>1, <1>3, <1>4 DEF BackedInv

\* massUpdatePools raises no load.
LEMMA MassUpdateBacked ==
    ASSUME IInv, IInv', BackedInv, NEW pids \in SUBSET Pools, massUpdatePools(pids)
    PROVE  BackedInv'
<1>1. /\ pools' = [p \in Pools |-> IF p \in pids THEN updatePool(p) ELSE pools[p]]
      /\ harvestFromFairLaunchV1 /\ husky' = husky + FromV1
      /\ UNCHANGED <<users, totalAllocPoint, block, steady, ops>>
  BY DEF massUpdatePools
<1>2. /\ V1Type /\ WeightsAddUp /\ TypeOK /\ totalAllocPoint \in Nat
      /\ husky \in Nat /\ FromV1 \in Nat /\ ops \in Nat
  BY WeightsNat, FromV1Type DEF BackedInv, IInv, V1Type
<1>3. V1Type' /\ Earned \in Int /\ Earned' = Earned - 0 + 0
  <2>1. 0 \in 0..(husky + FromV1) /\ husky' = husky + FromV1 - 0 /\ 0 \in Nat /\ ops' = ops + 0
    BY <1>1, <1>2
  <2> QED BY <1>1, <1>2, <2>1, EarnedStep
<1>4. ASSUME NEW q \in Pools
      PROVE  /\ updatePool(q).accHuskyPerShare = AccNow(q)
             /\ updatePool(q).lastRewardBlock >= block
             /\ updatePool(q).allocPoint = pools[q].allocPoint
             /\ pools'[q] = IF q \in pids THEN updatePool(q) ELSE pools[q]
  <2>1. stake[q] \in Int
    BY <1>2 DEF TypeOK
  <2> QED BY <1>1, <1>2, <2>1, UpdateFacts DEF updatePool, AccNow
<1>5. WeightsAddUp'
  BY <1>1, <1>2, <1>4, WeightsKept
<1>6. ASSUME steady PROVE Backed'
  <2>1. ASSUME NEW q \in Pools PROVE Load(q)' <= Load(q)
    <3>1. CASE q \in pids
      <4>1. pools'[q].accHuskyPerShare = AccNow(q) /\ pools'[q].lastRewardBlock >= block
        BY <1>4, <3>1
      <4>2. Claims(users[q], AccNow(q)) \in Nat
        BY <1>2, Refill
      <4>3. Claims(users'[q], AccNow(q)) <= Claims(users[q], AccNow(q)) + 0 /\ 0 \in Int
        BY <1>1, <4>2
      <4>4. Load(q)' <= Load(q) + Scale * 0
        BY <1>1, <1>2, <4>1, <4>3, LoadRefreshed
      <4>5. Scale \in Nat /\ Load(q) \in Nat
        BY <1>2, LoadType
      <4>6. Load(q) + Scale * 0 = Load(q)
        BY <4>5
      <4> QED BY <4>4, <4>6
    <3>2. CASE q \notin pids
      <4>1. Claims(users[q], pools[q].accHuskyPerShare) \in Nat
        BY <1>2, LoadType
      <4>2. Claims(users'[q], pools[q].accHuskyPerShare)
              <= Claims(users[q], pools[q].accHuskyPerShare)
        BY <1>1, <4>1
      <4> QED BY <1>1, <1>2, <1>4, <3>2, <4>2, LoadKept
    <3> QED BY <3>1, <3>2
  <2>2. Earned' \in Int /\ Earned <= Earned'
    BY <1>3
  <2>3. Backed
    BY <1>6 DEF BackedInv
  <2> QED BY <1>1, <1>2, <1>3, <2>1, <2>2, <2>3, BackedStays
<1> QED BY <1>1, <1>3, <1>5, <1>6 DEF BackedInv

\* addPool dilutes the pools that wait; the new one starts with nothing.
LEMMA AddPoolBacked ==
    ASSUME IInv, IInv', BackedInv, NEW p \in Pools, NEW a \in AllocPoints,
           NEW locked \in BOOLEAN, NEW start \in StartBlocks, addPool(p, a, start, locked)
    PROVE  BackedInv'
<1> DEFINE from == IF block > start THEN block ELSE start
           pool == [NoPool EXCEPT !.added = TRUE, !.allocPoint = a, !.locked = locked,
                                  !.lastRewardBlock = from]
           T == totalAllocPoint
           s == Scale
           t == IF T + a = 0 THEN 1 ELSE T + a
           P == ACC_HUSKY_PRECISION
<1>1. /\ ~pools[p].added /\ pools' = [pools EXCEPT ![p] = pool]
      /\ totalAllocPoint' = T + a
      /\ UNCHANGED <<users, husky, v1Acc, v1Block, block, steady, ops>>
  BY DEF addPool, rewards
<1>2. /\ V1Type /\ WeightsAddUp /\ TypeOK /\ FreshPools /\ T \in Nat /\ block \in Nat
      /\ a \in Nat /\ start \in Nat /\ pools \in [Pools -> PoolRecord] /\ P \in Nat
      /\ IsFiniteSet(Pools) /\ users[p] \in [Accounts -> UserRecord]
  BY WeightsNat, FairLaunchV2Assumption DEF BackedInv, IInv, TypeOK
<1>3. from \in Nat /\ from >= block
  BY <1>2
<1> HIDE DEF from
<1>4. /\ pool \in PoolRecord /\ pool.accHuskyPerShare = 0 /\ pool.allocPoint = a
      /\ pool.lastRewardBlock = from
  BY <1>2, <1>3 DEF NoPool, PoolRecord
<1> HIDE DEF pool
<1>5. pools[p].accHuskyPerShare = 0 /\ pools[p].allocPoint = 0
  BY <1>1, <1>2 DEF FreshPools
<1>6. pools'[p] = pool /\ \A q \in Pools : q # p => pools'[q] = pools[q]
  BY <1>1, <1>2
<1>7. V1Type' /\ WeightsAddUp'
  <2>1. V1Type'
    BY <1>1, <1>2 DEF V1Type
  <2>2. T + a = T - pools[p].allocPoint + pool.allocPoint
    BY <1>2, <1>4, <1>5
  <2> QED BY <1>1, <1>2, <1>6, <2>1, <2>2, WeightsChange
<1>8. Scale' = t /\ s \in Nat \ {0} /\ t \in Nat \ {0} /\ s <= t
  <2>1. s \in Nat \ {0} /\ t \in Nat \ {0} /\ s <= t
    BY <1>2 DEF Scale
  <2> QED BY <1>1, <2>1 DEF Scale
<1>9. ASSUME steady PROVE Backed'
  <2> DEFINE C == [q \in Pools |-> Claims(users[q], pools[q].accHuskyPerShare)]
             W == [q \in Pools |-> Waiting(pools[q], block)]
             L == [q \in Pools |-> Load(q)]
             m == 0 - s
  <2>1. PICK H : H = [q \in Pools |-> Load(q)']
    OBVIOUS
  <2>2. ASSUME NEW q \in Pools
        PROVE  /\ C[q] \in Nat /\ W[q] \in Nat /\ L[q] \in Nat /\ L[q] = s * C[q] + W[q]
               /\ H[q] = t * C[q] + W[q]
    <3>1. C[q] \in Nat /\ W[q] \in Nat /\ L[q] \in Nat /\ L[q] = s * C[q] + W[q]
      BY <1>2, LoadType DEF Load
    <3>2. H[q] = t * Claims(users[q], pools'[q].accHuskyPerShare) + Waiting(pools'[q], block)
      BY <1>1, <1>8, <2>1 DEF Load
    <3>3. C[q] = Claims(users[q], pools[q].accHuskyPerShare) /\ W[q] = Waiting(pools[q], block)
      OBVIOUS
    <3> HIDE DEF C, W, L, t, s
    <3>4. CASE q # p
      <4>1. H[q] = t * C[q] + W[q]
        BY <1>6, <3>2, <3>3, <3>4
      <4> QED BY <3>1, <4>1
    <3>5. CASE q = p
      <4>1. Waiting(pool, block) = 0 /\ Waiting(pools[p], block) = 0
        BY <1>2, <1>3, <1>4, <1>5, WaitingFacts
      <4>2. H[q] = t * C[q] + W[q]
        BY <1>4, <1>5, <1>6, <3>2, <3>3, <3>5, <4>1
      <4> QED BY <3>1, <4>2
    <3> QED BY <3>4, <3>5
  <2>3. SumFunctionOnSet(L, Pools) <= s * (P * Earned)
    BY <1>9 DEF BackedInv, Backed, TotalLoad
  <2>4. TotalLoad' = SumFunctionOnSet(H, Pools)
    BY <2>1 DEF TotalLoad
  <2> HIDE DEF C, W, L, s, t
  <2>5. m \in Int /\ t \in Int
    BY <1>8
  <2>6. ASSUME NEW q \in Pools
        PROVE  /\ C[q] \in Int /\ W[q] \in Int /\ L[q] \in Int /\ H[q] \in Int
               /\ H[q] <= t * C[q] + W[q]
               /\ W[q] <= m * C[q] + L[q]
    <3> DEFINE c == C[q]
               w == W[q]
    <3>1. c \in Nat /\ w \in Nat /\ L[q] = s * c + w /\ H[q] = t * c + w
      BY <2>2
    <3> HIDE DEF c, w
    <3>2. s * c \in Nat /\ t * c \in Nat /\ m * c = 0 - s * c
      BY <1>8, <3>1
    <3>3. L[q] \in Int /\ H[q] \in Int /\ H[q] <= t * c + w /\ w <= m * c + L[q]
      BY <3>1, <3>2
    <3> QED BY <3>1, <3>3 DEF c, w
  <2>7. Bounded(H, t, C, W, Pools) /\ Bounded(W, m, C, L, Pools)
    BY <2>6 DEF Bounded
  <2> DEFINE c == SumFunctionOnSet(C, Pools)
             w == SumFunctionOnSet(W, Pools)
             l == SumFunctionOnSet(L, Pools)
             h == SumFunctionOnSet(H, Pools)
  <2>8. h <= t * c + w
    BY <1>2, <2>5, <2>7, SumOrder
  <2>9. w <= m * c + l
    BY <1>2, <2>5, <2>7, SumOrder
  <2>10. c \in Int /\ w \in Int /\ l \in Int /\ h \in Int
    BY <1>2, <2>6, SumStep
  <2>11. c <= P * Earned /\ Earned \in Int
    <3>1. ASSUME NEW q \in Pools PROVE C[q] \in Int /\ Scale * C[q] <= Load(q)
      <4>1. C[q] \in Nat /\ W[q] \in Nat /\ L[q] = s * C[q] + W[q] /\ L[q] = Load(q)
        BY <2>2 DEF L
      <4>2. s * C[q] \in Nat
        BY <1>8, <4>1
      <4> QED BY <4>1, <4>2 DEF s
    <3>2. Backed
      BY <1>9 DEF BackedInv
    <3> QED BY <1>2, <3>1, <3>2, Covered
  <2>12. Earned' = Earned
    BY <1>1 DEF Earned
  <2> DEFINE X == P * Earned
             d == t - s
  <2>13. X \in Int /\ c <= X /\ l <= s * X
    BY <1>2, <2>3, <2>11
  <2> HIDE DEF c, w, l, h, X
  <2>14. d \in Nat /\ t = s + d
    BY <1>8
  <2>15. d * c <= d * X /\ d * c \in Int /\ d * X \in Int
    <3>1. X - c \in Nat
      BY <2>10, <2>13
    <3>2. d * (X - c) \in Nat
      BY <2>14, <3>1
    <3>3. d * (X - c) = d * X - d * c /\ d * X \in Int /\ d * c \in Int
      BY <2>10, <2>13, <2>14, Distribute
    <3> QED BY <3>2, <3>3
  <2>16. /\ t * c = s * c + d * c /\ t * X = s * X + d * X /\ m * c = 0 - s * c
         /\ s * c \in Int /\ s * X \in Int
    BY <1>8, <2>10, <2>13, <2>14
  <2>17. h <= t * X
    BY <2>8, <2>9, <2>10, <2>13, <2>15, <2>16
  <2> QED BY <1>8, <2>4, <2>12, <2>17 DEF Backed, X, h
<1> QED BY <1>1, <1>7, <1>9 DEF BackedInv

\* setPool: once every pool is up to date nothing waits, and the weights may change.
LEMMA SetPoolBacked ==
    ASSUME IInv, IInv', BackedInv, NEW p \in Pools, NEW a \in AllocPoints,
           NEW locked \in BOOLEAN, setPool(p, a, locked)
    PROVE  BackedInv'
<1> DEFINE up == updatePool(p)
           pool == [up EXCEPT !.allocPoint = a, !.locked = locked]
           T == totalAllocPoint
           P == ACC_HUSKY_PRECISION
<1>1. /\ pools[p].added /\ pools' = [pools EXCEPT ![p] = pool]
      /\ totalAllocPoint' = T - pools[p].allocPoint + a
      /\ steady' = (steady /\ \A q \in Pools \ {p} :
                       pools[q].added => pools[q].lastRewardBlock >= block)
      /\ UNCHANGED <<users, block>> /\ ops' = ops + 1
      /\ harvestFromFairLaunchV1 /\ husky' = husky + FromV1
  BY DEF setPool, Called
<1>2. /\ V1Type /\ WeightsAddUp /\ TypeOK /\ FreshPools /\ T \in Nat /\ block \in Nat
      /\ a \in Nat /\ pools \in [Pools -> PoolRecord] /\ P \in Nat
      /\ IsFiniteSet(Pools) /\ stake[p] \in Int /\ husky \in Nat /\ FromV1 \in Nat
  BY WeightsNat, FromV1Type, FairLaunchV2Assumption DEF BackedInv, IInv, TypeOK, V1Type
<1>3. V1Type' /\ Earned \in Int /\ Earned' = Earned - 0 + 1
  <2>1. 0 \in 0..(husky + FromV1) /\ husky' = husky + FromV1 - 0 /\ 1 \in Nat
    BY <1>1, <1>2
  <2> QED BY <1>1, <1>2, <2>1, EarnedStep
<1>4. up \in PoolRecord /\ up.accHuskyPerShare = AccNow(p) /\ up.lastRewardBlock >= block
  BY <1>2, UpdateFacts DEF updatePool, AccNow
<1> HIDE DEF up
<1>5. /\ pool \in PoolRecord /\ pool.accHuskyPerShare = AccNow(p)
      /\ pool.lastRewardBlock >= block /\ pool.allocPoint = a
  BY <1>2, <1>4 DEF PoolRecord
<1> HIDE DEF pool
<1>6. pools'[p] = pool /\ \A q \in Pools : q # p => pools'[q] = pools[q]
  BY <1>1, <1>2
<1>7. WeightsAddUp'
  BY <1>1, <1>2, <1>5, <1>6, WeightsChange
<1>8. totalAllocPoint' \in Nat /\ Scale' \in Nat \ {0}
  <2>1. IInv' /\ WeightsAddUp' => WeightNat'
    BY WeightsTyped, PTL
  <2>2. totalAllocPoint' \in Nat
    BY <1>7, <2>1 DEF WeightNat
  <2> QED BY <2>2 DEF Scale
<1>9. ASSUME steady' PROVE Backed'
  <2>1. steady /\ Backed /\ \A q \in Pools :
          q # p => (pools[q].added => pools[q].lastRewardBlock >= block)
    BY <1>1, <1>9 DEF BackedInv
  <2>2. PICK t : t = Scale'
    OBVIOUS
  <2>3. PICK H : H = [q \in Pools |-> Load(q)']
    OBVIOUS
  <2> DEFINE C == [q \in Pools |-> IF q = p THEN Claims(users[p], AccNow(p))
                                   ELSE Claims(users[q], pools[q].accHuskyPerShare)]
             z == [q \in Pools |-> 0]
  <2>4. ASSUME NEW q \in Pools
        PROVE  C[q] \in Nat /\ Scale * C[q] <= Load(q) /\ H[q] = t * C[q] + 0
    <3>1. H[q] = t * Claims(users[q], pools'[q].accHuskyPerShare) + Waiting(pools'[q], block)
      BY <1>1, <2>2, <2>3 DEF Load
    <3>2. C[q] = IF q = p THEN Claims(users[p], AccNow(p))
                 ELSE Claims(users[q], pools[q].accHuskyPerShare)
      OBVIOUS
    <3> HIDE DEF C
    <3>3. CASE q = p
      <4>1. Waiting(pool, block) = 0
        BY <1>2, <1>5, WaitingFacts
      <4>2. Claims(users[p], AccNow(p)) \in Nat /\ Scale * Claims(users[p], AccNow(p)) <= Load(p)
        BY <1>2, Refill
      <4>3. C[q] = Claims(users[q], AccNow(q))
        BY <3>2, <3>3
      <4>4. H[q] = t * C[q] + 0
        BY <1>5, <1>6, <3>1, <3>3, <4>1, <4>3
      <4> QED BY <3>3, <4>2, <4>3, <4>4
    <3>4. CASE q # p
      <4>1. Waiting(pools[q], block) = 0
        <5>1. pools[q] \in PoolRecord
          BY <1>2
        <5>2. pools[q].lastRewardBlock >= block \/ pools[q].allocPoint = 0
          BY <1>2, <2>1, <3>4 DEF FreshPools
        <5> QED BY <1>2, <5>1, <5>2, WaitingFacts
      <4> DEFINE c == Claims(users[q], pools[q].accHuskyPerShare)
      <4>2. c \in Nat /\ Load(q) = Scale * c + 0 /\ Scale \in Nat
        BY <1>2, <4>1, LoadType DEF Load
      <4>3. C[q] = c
        BY <3>2, <3>4
      <4>4. H[q] = t * C[q] + 0
        BY <1>6, <3>1, <3>4, <4>1, <4>3
      <4> HIDE DEF c
      <4>5. Scale * c \in Nat
        BY <4>2
      <4>6. Scale * c <= Load(q)
        BY <4>2, <4>5
      <4> QED BY <4>2, <4>3, <4>4, <4>6
    <3> QED BY <3>3, <3>4
  <2>5. \A q \in Pools : z[q] = 0
    OBVIOUS
  <2> HIDE DEF C, z
  <2>6. t \in Nat \ {0}
    BY <1>8, <2>2
  <2>7. ASSUME NEW q \in Pools
        PROVE  C[q] \in Int /\ z[q] \in Int /\ H[q] \in Int /\ H[q] <= t * C[q] + z[q]
    <3> DEFINE c == C[q]
    <3>1. c \in Nat /\ H[q] = t * c + 0 /\ z[q] = 0
      BY <2>4, <2>5
    <3> HIDE DEF c
    <3>2. t * c \in Nat
      BY <2>6, <3>1
    <3> QED BY <3>1, <3>2 DEF c
  <2>8. Bounded(H, t, C, z, Pools)
    BY <2>7 DEF Bounded
  <2>9. SumFunctionOnSet(C, Pools) <= P * Earned
    <3>1. \A q \in Pools : C[q] \in Int /\ Scale * C[q] <= Load(q)
      BY <2>4
    <3> QED BY <1>2, <2>1, <3>1, Covered
  <2> DEFINE c == SumFunctionOnSet(C, Pools)
             h == SumFunctionOnSet(H, Pools)
             X == P * Earned
  <2>10. h <= t * c + SumFunctionOnSet(z, Pools)
    BY <1>2, <2>6, <2>8, SumOrder
  <2>11. SumFunctionOnSet(z, Pools) = 0
    BY <1>2, <2>5, SumOfZeros
  <2>12. c \in Int /\ h \in Int /\ X \in Int /\ c <= X
    <3>1. c \in Int /\ h \in Int
      BY <1>2, <2>7, SumStep
    <3>2. X \in Int
      BY <1>2, <1>3
    <3> QED BY <2>9, <3>1, <3>2
  <2>13. TotalLoad' = h
    BY <2>3 DEF TotalLoad
  <2>14. PICK e : e = Earned'
    OBVIOUS
  <2>15. P * e = X + P /\ P * e \in Int
    <3>1. e = Earned + 1 /\ e \in Int
      BY <1>3, <2>14
    <3> QED BY <1>2, <1>3, <3>1
  <2> HIDE DEF c, h, X
  <2>16. t * c <= t * (P * e)
    <3> DEFINE y == P * e
    <3>1. y \in Int /\ y - c \in Nat
      BY <1>2, <2>12, <2>15
    <3> HIDE DEF y
    <3>2. t * (y - c) \in Nat
      BY <2>6, <3>1
    <3>3. t * (y - c) = t * y - t * c /\ t * y \in Int /\ t * c \in Int
      BY <2>6, <2>12, <3>1, Distribute
    <3>4. t * c <= t * y
      BY <3>2, <3>3
    <3> QED BY <3>4 DEF y
  <2>17. h <= t * (P * e)
    <3>1. t * c \in Int /\ t * (P * e) \in Int
      BY <2>6, <2>12, <2>15
    <3> QED BY <2>10, <2>11, <2>12, <2>16, <3>1
  <2> QED BY <2>2, <2>13, <2>14, <2>17 DEF Backed
<1> QED BY <1>3, <1>7, <1>9 DEF BackedInv

\* Every step keeps the rewards backed.
LEMMA BackedSteps ==
    ASSUME IInv, IInv', BackedInv, [Next]_vars
    PROVE  BackedInv'
<1>1. ASSUME UNCHANGED <<pools, users, totalAllocPoint, husky, v1Acc, v1Block, block,
                         steady, ops>>
      PROVE  BackedInv'
  <2>1. TotalLoad' = TotalLoad /\ Scale' = Scale /\ Earned' = Earned
    BY <1>1 DEF TotalLoad, Load, Scale, Earned
  <2> QED BY <1>1, <2>1 DEF BackedInv, V1Type, WeightsAddUp, Backed
<1>2. CASE UNCHANGED vars
  BY <1>1, <1>2 DEF vars, rewards
<1>3. CASE Tick
  BY <1>3, TickBacked
<1>4. ASSUME NEW u \in Accounts, claimLock(u) PROVE BackedInv'
  BY <1>1, <1>4 DEF claimLock, rewards
<1>5. CASE \E pids \in SUBSET Pools \ {{}} : massUpdatePools(pids)
  BY <1>5, MassUpdateBacked
<1>6. CASE \E sender, for \in Accounts, p \in Pools, amount \in Amounts :
              deposit(sender, for, p, amount) \/ withdraw(sender, for, p, amount)
  BY <1>6, DepositBacked, WithdrawBacked
<1>7. CASE \E sender \in Accounts, p \in Pools :
              harvest(sender, p) \/ emergencyWithdraw(sender, p)
  BY <1>7, HarvestBacked, EmergencyBacked
<1>8. CASE \E p \in Pools, a \in AllocPoints, locked \in BOOLEAN :
              setPool(p, a, locked) \/ \E start \in StartBlocks : addPool(p, a, start, locked)
  BY <1>8, SetPoolBacked, AddPoolBacked
<1>9. CASE \E p \in Pools, amount \in Amounts : SendStake(p, amount)
  BY <1>1, <1>9 DEF SendStake, rewards
<1> QED BY <1>2, <1>3, <1>4, <1>5, <1>6, <1>7, <1>8, <1>9 DEF Next

\* Nothing is promised at the start.
LEMMA BackedInit == ASSUME Init PROVE BackedInv
<1>1. /\ pools = [p \in Pools |-> NoPool] /\ totalAllocPoint = 0 /\ block = 0
      /\ users = [p \in Pools |-> [u \in Accounts |-> NoUser]]
      /\ husky = 0 /\ v1Acc = 0 /\ v1Block = 0 /\ ops = 0
  BY DEF Init
<1>2. IsFiniteSet(Pools) /\ IsFiniteSet(Accounts) /\ ACC_HUSKY_PRECISION \in Nat \ {0}
      /\ DummySupply \in Nat /\ huskyPerBlock \in Nat
  BY FairLaunchV2Assumption
<1>3. V1Type
  BY <1>1 DEF V1Type
<1>4. WeightsAddUp
  <2> DEFINE f == [p \in Pools |-> pools[p].allocPoint]
  <2>1. \A p \in Pools : f[p] = 0
    BY <1>1 DEF NoPool
  <2> HIDE DEF f
  <2>2. SumFunctionOnSet(f, Pools) = 0
    BY <1>2, <2>1, SumOfZeros
  <2> QED BY <1>1, <2>2 DEF WeightsAddUp, f
<1>5. TotalLoad = 0
  <2> DEFINE f == [p \in Pools |-> Load(p)]
  <2>1. ASSUME NEW p \in Pools PROVE Load(p) = 0
    <3>1. Claims(users[p], pools[p].accHuskyPerShare) = 0
      <4> DEFINE g == [u \in Accounts |-> Pos(users[p][u], pools[p].accHuskyPerShare)]
      <4>1. ASSUME NEW u \in Accounts PROVE g[u] = 0
        <5>1. /\ users[p][u].amount = 0 /\ users[p][u].rewardDebt = 0
              /\ pools[p].accHuskyPerShare = 0
          BY <1>1 DEF NoUser, NoPool
        <5>2. 0 * 0 - ACC_HUSKY_PRECISION * 0 = 0
          BY <1>2
        <5> QED BY <5>1, <5>2 DEF Pos, Claim
      <4> HIDE DEF g
      <4>2. SumFunctionOnSet(g, Accounts) = 0
        BY <1>2, <4>1, SumOfZeros
      <4> QED BY <4>2 DEF Claims, g
    <3>2. Waiting(pools[p], block) = 0
      <4>1. pools[p] \in PoolRecord /\ pools[p].allocPoint = 0 /\ block \in Nat
        BY <1>1 DEF NoPool, PoolRecord
      <4> QED BY <4>1, WaitingFacts
    <3>3. Scale = 1
      BY <1>1 DEF Scale
    <3> QED BY <3>1, <3>2, <3>3 DEF Load
  <2>2. \A p \in Pools : f[p] = 0
    BY <2>1
  <2> HIDE DEF f
  <2>3. SumFunctionOnSet(f, Pools) = 0
    BY <1>2, <2>2, SumOfZeros
  <2> QED BY <2>3 DEF TotalLoad, f
<1>6. Earned = 0 /\ Scale = 1
  <2>1. DummySupply * 0 = 0 /\ huskyPerBlock * 0 = 0
    BY <1>2
  <2>2. Times(DummySupply, 0) = 0
    BY <1>2, <2>1, ZeroDiv DEF Times
  <2> QED BY <1>1, <2>1, <2>2 DEF Earned, Scale
<1>7. Backed
  <2>1. 1 * (ACC_HUSKY_PRECISION * 0) = 0
    BY <1>2
  <2> QED BY <1>5, <1>6, <2>1 DEF Backed
<1> QED BY <1>3, <1>4, <1>7 DEF BackedInv

\* The rewards are backed in every behaviour.
LEMMA BackedInvariance == Spec => [](IInv /\ BackedInv)
<1>1. Init => BackedInv
  BY BackedInit
<1>2. IInv /\ IInv' /\ BackedInv /\ [Next]_vars => BackedInv'
  BY BackedSteps
<1> QED BY <1>1, <1>2, Invariance, PTL DEF Spec

\* FairLaunchV2.sol _harvest, for any number of pools and accounts: while setPool only
\* meets pools that are up to date, what all accounts together can harvest is within
\* the HUSKI held and drawn from FairLaunch, but for FairLaunch's dust and one unit a
\* call, so that its require ("wtf not enough husky") refuses nobody a whole reward.
THEOREM RewardsAlwaysBacked == Spec => []RewardsBacked
<1>1. IInv /\ BackedInv => RewardsBacked
  <2> SUFFICES ASSUME IInv, BackedInv PROVE RewardsBacked
    OBVIOUS
  <2>1. totalAllocPoint \in Nat
    BY WeightsNat DEF BackedInv
  <2> QED BY <2>1, BackedEnough
<1> QED BY <1>1, BackedInvariance, PTL

\* accHuskyPerShare of FairLaunch's master pool: rounded down once a block at most.
V1Tracks(acc, now) ==
    LET minted == (huskyPerBlock * now) * ACC_HUSKY_PRECISION
    IN  DummySupply * acc <= minted /\ minted <= DummySupply * acc + DummySupply * now
V1Inv == V1Type /\ V1Tracks(v1Acc, v1Block)

\* Each draw of the rewards rounds down once.
LEMMA V1TracksNow ==
    ASSUME IInv, V1Inv
    PROVE  V1Tracks(v1AccNow, block)
<1> DEFINE D == DummySupply
           P == ACC_HUSKY_PRECISION
           h == huskyPerBlock
           c == h * P
           n == block - v1Block
           k == n * huskyPerBlock * ACC_HUSKY_PRECISION
           g == k \div D
<1>1. /\ v1Acc \in Nat /\ v1Block \in Nat /\ block \in Nat /\ v1Block <= block
      /\ h \in Nat /\ D \in Nat \ {0} /\ P \in Nat
  BY FairLaunchV2Assumption DEF V1Inv, V1Type, IInv, TypeOK
<1>2. n \in Nat /\ block = v1Block + n /\ c \in Nat
  BY <1>1
<1>3. k = c * n /\ (h * block) * P = c * block /\ (h * v1Block) * P = c * v1Block
  BY <1>1, <1>2
<1>4. v1AccNow = v1Acc + g
  BY DEF v1AccNow
<1>5. D * v1Acc <= (h * v1Block) * P /\ (h * v1Block) * P <= D * v1Acc + D * v1Block
  BY DEF V1Inv, V1Tracks
<1> HIDE DEF n, c, k
<1>6. k \in Nat
  BY <1>2, <1>3
<1>7. g \in Nat /\ D * g <= k /\ k < D * g + D
  BY <1>1, <1>6, FloorBounds
<1> HIDE DEF g
<1>8. /\ D * (v1Acc + g) = D * v1Acc + D * g /\ D * block = D * v1Block + D * n
      /\ c * block = c * v1Block + k
  BY <1>1, <1>2, <1>3, <1>7
<1>9. k <= D * g + D * n
  <2>1. CASE n = 0
    BY <1>1, <1>2, <1>3, <1>7, <2>1
  <2>2. CASE n > 0
    <3>1. D * 1 <= D * n
      BY <1>1, <1>2, <2>2, MulMono
    <3>2. D * n \in Nat /\ D * g \in Nat
      BY <1>1, <1>2, <1>7
    <3> QED BY <1>1, <1>6, <1>7, <3>1, <3>2
  <2> QED BY <1>2, <2>1, <2>2
<1> DEFINE a == D * v1Acc
           b == D * g
           e == D * v1Block
           f == D * n
           m == c * v1Block
<1>10. a \in Nat /\ b \in Nat /\ e \in Nat /\ f \in Nat /\ m \in Nat
  BY <1>1, <1>2, <1>7
<1>11. a <= m /\ m <= a + e /\ b <= k /\ k <= b + f
  BY <1>3, <1>5, <1>7, <1>9
<1> HIDE DEF a, b, e, f, m
<1>12. a + b <= m + k /\ m + k <= (a + b) + (e + f)
  BY <1>6, <1>10, <1>11
<1>13. D * v1AccNow = a + b /\ (h * block) * P = m + k /\ D * block = e + f
  BY <1>3, <1>4, <1>8 DEF a, b, e, f, m
<1> QED BY <1>12, <1>13 DEF V1Tracks

\* FairLaunchV2.sol harvestFromFairLaunchV1: the dust that RewardsBacked allows for is
\* never negative and below one unit, and DummySupply / ACC_HUSKY_PRECISION units a block.
V1DustSmall ==
    /\ V1Dust >= 0
    /\ ACC_HUSKY_PRECISION * V1Dust < ACC_HUSKY_PRECISION + DummySupply * block

\* The bound from the invariant.
LEMMA V1DustBound == IInv /\ V1Inv => V1DustSmall
<1> SUFFICES ASSUME IInv, V1Inv PROVE V1DustSmall
  OBVIOUS
<1> DEFINE D == DummySupply
           P == ACC_HUSKY_PRECISION
           b == huskyPerBlock * block
           m == D * block
<1>1. D \in Nat /\ P \in Nat \ {0} /\ block \in Nat /\ huskyPerBlock \in Nat
  BY FairLaunchV2Assumption DEF IInv, TypeOK
<1>2. b \in Nat /\ m \in Nat
  BY <1>1
<1>3. PICK acc : acc = v1AccNow
  OBVIOUS
<1>4. acc \in Nat
  BY <1>3, FromV1Type DEF V1Inv
<1> DEFINE x == D * acc
           t == x \div P
<1>5. x <= b * P /\ b * P <= x + m
  BY <1>3, V1TracksNow DEF V1Tracks
<1>6. V1Dust = b - t
  BY <1>3 DEF V1Dust, Times
<1>7. x \in Nat
  BY <1>1, <1>4
<1> HIDE DEF b, m, x
<1>8. t \in Nat /\ P * t <= x /\ x < P * t + P
  BY <1>1, <1>7, FloorBounds
<1> HIDE DEF t
<1>9. b * P = P * b /\ P * b \in Nat /\ P * t \in Nat /\ P * (b - t) = P * b - P * t
  BY <1>1, <1>2, <1>8
<1>10. t <= b
  <2>1. P * t <= P * b
    BY <1>5, <1>7, <1>8, <1>9
  <2> QED BY <1>1, <1>2, <1>8, <2>1, MulCancel
<1>11. b - t >= 0
  BY <1>2, <1>8, <1>10
<1>12. P * (b - t) < P + m
  BY <1>1, <1>2, <1>5, <1>7, <1>8, <1>9
<1> QED BY <1>6, <1>11, <1>12 DEF V1DustSmall, m

\* Only draws touch FairLaunch's accumulator.
LEMMA V1Steps ==
    ASSUME [Next]_vars
    PROVE  harvestFromFairLaunchV1 \/ UNCHANGED <<v1Acc, v1Block>>
<1>1. CASE UNCHANGED vars
  BY <1>1 DEF vars, rewards
<1>2. CASE Tick
  BY <1>2 DEF Tick, rewards
<1>3. CASE \E pids \in SUBSET Pools \ {{}} : massUpdatePools(pids)
  BY <1>3 DEF massUpdatePools
<1>4. ASSUME NEW sender, NEW for, NEW p, NEW amount,
             deposit(sender, for, p, amount) \/ withdraw(sender, for, p, amount)
      PROVE  harvestFromFairLaunchV1
  <2>1. CASE deposit(sender, for, p, amount)
    BY <2>1 DEF deposit
  <2>2. CASE withdraw(sender, for, p, amount)
    <3>1. Harvest(p, for, updatePool(p).accHuskyPerShare)
      BY <2>2 DEF withdraw
    <3> QED BY <3>1 DEF Harvest
  <2> QED BY <1>4, <2>1, <2>2
<1>5. ASSUME NEW sender, NEW p, harvest(sender, p) \/ emergencyWithdraw(sender, p)
      PROVE  harvestFromFairLaunchV1 \/ UNCHANGED <<v1Acc, v1Block>>
  <2>1. CASE harvest(sender, p)
    <3>1. Harvest(p, sender, updatePool(p).accHuskyPerShare)
      BY <2>1 DEF harvest
    <3> QED BY <3>1 DEF Harvest
  <2>2. CASE emergencyWithdraw(sender, p)
    BY <2>2 DEF emergencyWithdraw, rewards
  <2> QED BY <1>5, <2>1, <2>2
<1>6. CASE \E user \in Accounts : claimLock(user)
  BY <1>6 DEF claimLock, rewards
<1>7. CASE \E p \in Pools, a \in AllocPoints, locked \in BOOLEAN :
              setPool(p, a, locked) \/ \E start \in StartBlocks : addPool(p, a, start, locked)
  BY <1>7 DEF setPool, addPool, rewards
<1>8. CASE \E p \in Pools, amount \in Amounts : SendStake(p, amount)
  BY <1>8 DEF SendStake, rewards
<1> QED BY <1>1, <1>2, <1>3, <1>4, <1>5, <1>6, <1>7, <1>8 DEF Next

\* FairLaunchV2.sol harvestFromFairLaunchV1: however often and whenever the rewards are
\* drawn, FairLaunch's rounding has kept back less than one unit and, for each block,
\* DummySupply / ACC_HUSKY_PRECISION units; RewardsBacked is meant up to that.
THEOREM V1DustAlwaysSmall == Spec => []V1DustSmall
<1>1. Init => V1Inv
  <2> SUFFICES ASSUME Init PROVE V1Inv
    OBVIOUS
  <2>1. V1Type /\ v1Acc = 0 /\ v1Block = 0
    BY BackedInit DEF BackedInv, Init
  <2>2. DummySupply \in Nat /\ huskyPerBlock \in Nat /\ ACC_HUSKY_PRECISION \in Nat
    BY FairLaunchV2Assumption
  <2>3. DummySupply * 0 = 0 /\ (huskyPerBlock * 0) * ACC_HUSKY_PRECISION = 0
    BY <2>2
  <2> QED BY <2>1, <2>3 DEF V1Inv, V1Tracks
<1>2. IInv /\ V1Inv /\ BackedInv' /\ [Next]_vars => V1Inv'
  <2> SUFFICES ASSUME IInv, V1Inv, BackedInv', [Next]_vars PROVE V1Inv'
    OBVIOUS
  <2>1. V1Type'
    BY DEF BackedInv
  <2>2. CASE harvestFromFairLaunchV1
    <3>1. V1Tracks(v1AccNow, block)
      BY V1TracksNow
    <3>2. PICK acc, now : acc = v1AccNow /\ now = block
      OBVIOUS
    <3>3. v1Acc' = acc /\ v1Block' = now /\ V1Tracks(acc, now)
      BY <2>2, <3>1, <3>2 DEF harvestFromFairLaunchV1
    <3> QED BY <2>1, <3>3 DEF V1Inv
  <2>3. CASE UNCHANGED <<v1Acc, v1Block>>
    BY <2>1, <2>3 DEF V1Inv
  <2> QED BY <2>2, <2>3, V1Steps
<1> QED BY <1>1, <1>2, BackedInvariance, V1DustBound, PTL DEF Spec
=============================================================================
