---------------------------- MODULE VaultProofs ----------------------------
(***************************************************************************)
(* Proofs about Vault.  The inductive invariant is the conjunction of the  *)
(* four state invariants: the types (no SafeMath underflow) need the debt  *)
(* shares to add up, a share is worth par only if they do, and the pool    *)
(* covers the ibTokens only if a removed debt is worth no more than the    *)
(* pool.                                                                   *)
(***************************************************************************)
EXTENDS Vault, LedgerMathProofs

\* The conjunct only the proof needs: a position is somebody's, at some worker,
\* from the moment it has an id, and owes nothing before.
PositionsWellFormed ==
    \A id \in Ids :
        IF id < nextPositionID
        THEN positions[id].owner \in Users /\ positions[id].worker \in Workers
        ELSE positions[id].debtShare = 0

IInv ==
    /\ TypeOK /\ PositionsWellFormed
    /\ DebtSharesConserved /\ DebtShareAtLeastPar /\ LendersWhole

\* The borrow rate of a well-formed slope model is a natural number.
LEMMA RateIsNat ==
    ASSUME NEW m, WellFormedSlopes(m), NEW debt \in Nat, NEW floating \in Nat
    PROVE  getInterestRate(m, debt, floating) \in Nat
<1> USE SlopeScaleAssumption
<1>1. CASE debt = 0 /\ floating = 0
  BY <1>1 DEF getInterestRate
<1>2. CASE ~(debt = 0 /\ floating = 0)
  <2> DEFINE u == utilization(debt, floating)
             y == YearlyRate(m, u)
  <2>1. debt * FullUtilization \in Nat /\ debt + floating \in Nat \ {0}
    BY <1>2
  <2>2. u \in Nat
    BY <2>1, FloorBounds DEF utilization
  <2>3. /\ m.ceil1 \in Nat \ {0} /\ m.ceil2 \in Nat /\ m.ceil3 \in Nat
        /\ m.max1 \in Nat /\ m.max2 \in Nat /\ m.max3 \in Nat
        /\ m.ceil3 - m.ceil2 \in Nat \ {0} /\ m.max3 - m.max2 \in Nat
    BY DEF WellFormedSlopes, SlopeModel
  <2> HIDE DEF u
  <2>4. u * m.max1 \in Nat
    BY <2>2, <2>3
  <2>5. (u * m.max1) \div m.ceil1 \in Nat
    BY <2>3, <2>4, FloorBounds
  <2>6. ASSUME ~(u < m.ceil2)
        PROVE  ((u - m.ceil2) * (m.max3 - m.max2)) \div (m.ceil3 - m.ceil2) \in Nat
    <3>1. u - m.ceil2 \in Nat
      BY <2>2, <2>3, <2>6
    <3>2. (u - m.ceil2) * (m.max3 - m.max2) \in Nat
      BY <3>1, <2>3
    <3> QED BY <3>2, <2>3, FloorBounds
  <2>7. y \in Nat
    BY <2>3, <2>5, <2>6 DEF YearlyRate
  <2> HIDE DEF y
  <2>8. y \div Year \in Nat
    BY <2>7, FloorBounds
  <2> QED BY <1>2, <2>8 DEF getInterestRate, y, u
<1> QED BY <1>1, <1>2

\* The accrue modifier: interest is a natural number, none is charged on an
\* empty pool, and the reserve gets no more than the interest.
LEMMA AccrueFacts ==
    ASSUME TypeOK, NEW value \in Nat
    PROVE  \E interest \in Nat, toReserve \in Nat :
              /\ AccruedDebtVal(value) = vaultDebtVal + interest
              /\ AccruedReserve(value) = reservePool + toReserve
              /\ toReserve <= interest
              /\ vaultDebtVal = 0 => interest = 0
<1> USE ScaleAssumption
<1> DEFINE floating == (cash + value) - value
           rate == getInterestRate(config.interestModel, vaultDebtVal, floating)
           I == pendingInterest(cash + value, value)
           R == (I * config.reservePoolBps) \div BPS
<1>1. cash \in Nat /\ vaultDebtVal \in Nat /\ reservePool \in Nat /\ now \in Nat
      /\ lastAccrueTime \in Nat /\ config \in Configs /\ floating \in Nat
  BY DEF TypeOK
<1>2. WellFormedSlopes(config.interestModel) /\ config.reservePoolBps \in 0..BPS
  BY <1>1, ConfigAssumption
<1> HIDE DEF floating
<1>3. rate \in Nat
  BY <1>1, <1>2, RateIsNat
<1> HIDE DEF rate
<1>4. I \in Nat /\ (vaultDebtVal = 0 => I = 0)
  <2>1. CASE now > lastAccrueTime
    <3> DEFINE x == rate * vaultDebtVal * (now - lastAccrueTime)
    <3>1. now - lastAccrueTime \in Nat
      BY <2>1, <1>1
    <3>2. rate * vaultDebtVal \in Nat
      BY <1>1, <1>3
    <3>3. x \in Nat /\ (vaultDebtVal = 0 => x = 0)
      BY <3>1, <3>2, <1>1, <1>3
    <3> HIDE DEF x
    <3>4. x \div WAD \in Nat /\ (x = 0 => x \div WAD = 0)
      BY <3>3
    <3>5. I = x \div WAD
      BY <2>1 DEF pendingInterest, x, rate, floating
    <3> QED BY <3>3, <3>4, <3>5
  <2>2. CASE ~(now > lastAccrueTime)
    BY <2>2 DEF pendingInterest
  <2> QED BY <2>1, <2>2
<1> HIDE DEF I
<1>5. R \in 0..I
  BY <1>2, <1>4, FractionBounds
<1>6. AccruedDebtVal(value) = vaultDebtVal + I /\ AccruedReserve(value) = reservePool + R
  BY DEF AccruedDebtVal, AccruedReserve, I
<1> HIDE DEF R
<1>7. R \in Nat /\ R <= I
  BY <1>4, <1>5
<1> QED BY <1>4, <1>6, <1>7

\* _removeDebt, on a pool whose value has been accrued to V: nothing underflows,
\* and what is left is again at par and sums up with any new share of id.
LEMMA RemoveDebtFacts ==
    ASSUME IInv, NEW id \in Ids, NEW V \in Nat, vaultDebtVal <= V,
           vaultDebtVal = 0 => V = 0
    PROVE  LET share == positions[id].debtShare
           IN  /\ share \in 0..vaultDebtShare
               /\ debtShareToVal(share, V, vaultDebtShare) \in 0..V
               /\ DebtValLeft(share, V) = V - debtShareToVal(share, V, vaultDebtShare)
               /\ DebtShareLeft(share) \in Nat
               /\ DebtShareLeft(share) <= DebtValLeft(share, V)
               /\ DebtShareLeft(share) = 0 => DebtValLeft(share, V) = 0
               /\ \A v \in Nat : SumsTo([debtShares EXCEPT ![id] = v], MaxPositions,
                                        DebtShareLeft(share) + v)
<1> USE ScaleAssumption
<1> DEFINE share == positions[id].debtShare
<1>1. debtShares \in [1..MaxPositions -> Nat] /\ debtShares[id] = share
      /\ vaultDebtShare \in Nat /\ id \in 1..MaxPositions
  BY DEF IInv, TypeOK, debtShares, Position, Ids
<1>2. share \in 0..vaultDebtShare
      /\ \A v \in Nat : SumsTo([debtShares EXCEPT ![id] = v], MaxPositions,
                               vaultDebtShare - share + v)
  <2>1. SumsTo(debtShares, MaxPositions, vaultDebtShare)
    BY DEF IInv, DebtSharesConserved
  <2>2. ASSUME NEW v \in Nat
        PROVE  /\ debtShares[id] <= vaultDebtShare
               /\ SumsTo([debtShares EXCEPT ![id] = v], MaxPositions,
                         vaultDebtShare - debtShares[id] + v)
    BY <1>1, <2>1, SumUpdate
  <2>3. share <= vaultDebtShare
    BY <2>2, <1>1
  <2> QED BY <2>2, <2>3, <1>1
<1> HIDE DEF share
<1>3. vaultDebtShare <= V /\ (vaultDebtShare = 0 => V = 0)
  BY DEF IInv, DebtShareAtLeastPar, TypeOK
<1>4. DebtShareLeft(share) = vaultDebtShare - share
  BY DEF DebtShareLeft
<1>5. CASE vaultDebtShare = 0
  BY <1>1, <1>2, <1>3, <1>4, <1>5 DEF debtShareToVal, DebtValLeft, share
<1>6. CASE vaultDebtShare # 0
  <2> DEFINE v == (share * V) \div vaultDebtShare
  <2>1. vaultDebtShare \in Nat \ {0}
    BY <1>1, <1>6
  <2>2. v \in 0..V /\ vaultDebtShare - share <= V - v /\ (share = vaultDebtShare => v = V)
    BY <2>1, <1>2, <1>3, RemoveRounds
  <2>3. debtShareToVal(share, V, vaultDebtShare) = v
    BY <1>6 DEF debtShareToVal
  <2> HIDE DEF v
  <2>4. DebtValLeft(share, V) = V - v
    BY <2>3 DEF DebtValLeft
  <2> QED BY <1>1, <1>2, <1>4, <2>2, <2>3, <2>4 DEF share
<1> QED BY <1>5, <1>6

\* _addDebt, on a pool of S1 shares worth V1: the new shares are at most the debt.
LEMMA AddDebtFacts ==
    ASSUME NEW V1 \in Nat, NEW S1 \in Nat, S1 <= V1, S1 = 0 => V1 = 0, NEW debt \in Nat
    PROVE  /\ debtValToShare(debt, V1, S1) \in 0..debt
           /\ S1 = 0 => debtValToShare(debt, V1, S1) = debt
<1>1. CASE S1 = 0
  BY <1>1 DEF debtValToShare
<1>2. CASE S1 # 0
  <2>1. V1 \in Nat \ {0} /\ S1 \in 0..V1
    BY <1>2
  <2>2. (debt * S1) \div V1 \in 0..debt
    BY <2>1, FractionBounds
  <2> QED BY <1>2, <2>2 DEF debtValToShare
<1> QED BY <1>1, <1>2

\* deposit keeps the invariant: the ibTokens minted are rounded down.
LEMMA DepositStep ==
    ASSUME IInv, NEW amount \in Deposits, deposit(amount)
    PROVE  IInv'
<1> USE ScaleAssumption
<1> DEFINE V == AccruedDebtVal(amount)
           R == AccruedReserve(amount)
           total == totalToken(cash, V, R)
           share == MintedShare(amount, total)
<1>1. amount \in Nat /\ TypeOK
  BY AmountAssumption DEF IInv
<1>2. PICK interest \in Nat, toReserve \in Nat :
        /\ V = vaultDebtVal + interest /\ R = reservePool + toReserve
        /\ toReserve <= interest /\ (vaultDebtVal = 0 => interest = 0)
  BY <1>1, AccrueFacts
<1>3. /\ amount <= BaseSupply - cash /\ total >= 0
      /\ reservePool' = R /\ lastAccrueTime' = now /\ vaultDebtVal' = V
      /\ totalSupply' = totalSupply + share /\ cash' = cash + amount
      /\ UNCHANGED <<vaultDebtShare, farm, admin, now, shortfall>>
  BY DEF deposit, Accrue
<1> HIDE DEF V, R
<1>4. /\ cash \in 0..BaseSupply /\ totalSupply \in Nat /\ reservePool \in Nat
      /\ vaultDebtVal \in Nat /\ vaultDebtShare \in Nat /\ now \in 0..MaxTime
      /\ V \in Nat /\ R \in Nat
  BY <1>1, <1>2 DEF TypeOK
<1>5. total \in Nat /\ total = cash + V - R
  BY <1>3, <1>4 DEF totalToken
<1>6. share \in Nat /\ (totalSupply <= total => share <= amount)
  <2> HIDE DEF total
  <2>1. CASE total = 0
    BY <2>1, <1>1 DEF MintedShare
  <2>2. CASE total # 0
    <3>1. share = (amount * totalSupply) \div total /\ amount * totalSupply \in Nat
      BY <2>2, <1>1, <1>4 DEF MintedShare
    <3>2. share \in Nat
      BY <3>1, <2>2, <1>5, FloorBounds
    <3>3. ASSUME totalSupply <= total PROVE share <= amount
      <4>1. totalSupply \in 0..total /\ total \in Nat \ {0}
        BY <3>3, <2>2, <1>4, <1>5
      <4>2. (amount * totalSupply) \div total \in 0..amount
        BY <4>1, <1>1, FractionBounds
      <4> QED BY <4>2, <3>1, <1>1
    <3> QED BY <3>2, <3>3
  <2> QED BY <2>1, <2>2
<1> HIDE DEF share, total
<1>7. TypeOK'
  BY <1>1, <1>3, <1>4, <1>6 DEF TypeOK, farm, admin
<1>8. (PositionsWellFormed /\ DebtSharesConserved)'
  BY <1>3 DEF IInv, PositionsWellFormed, DebtSharesConserved, debtShares, farm
<1>9. DebtShareAtLeastPar'
  BY <1>2, <1>3, <1>4 DEF IInv, DebtShareAtLeastPar
<1>10. LendersWhole'
  <2> SUFFICES ASSUME ~shortfall
               PROVE  totalSupply' <= totalToken(cash, vaultDebtVal, reservePool)'
    BY <1>3 DEF LendersWhole
  <2>1. totalSupply <= cash + vaultDebtVal - reservePool
    BY DEF IInv, LendersWhole, totalToken
  <2>2. totalSupply <= total
    BY <2>1, <1>2, <1>4, <1>5
  <2>3. totalToken(cash, vaultDebtVal, reservePool)' = total + amount
    BY <1>1, <1>3, <1>4, <1>5 DEF totalToken
  <2> QED BY <2>2, <2>3, <1>1, <1>3, <1>4, <1>5, <1>6
<1> QED BY <1>7, <1>8, <1>9, <1>10 DEF IInv

\* withdraw keeps the invariant: the tokens paid are rounded down.
LEMMA WithdrawStep ==
    ASSUME IInv, NEW share \in Shares, withdraw(share)
    PROVE  IInv'
<1> USE ScaleAssumption
<1> DEFINE V == AccruedDebtVal(0)
           R == AccruedReserve(0)
           total == totalToken(cash, V, R)
           amount == RedeemedAmount(share, total)
<1>1. share \in Nat /\ TypeOK
  BY AmountAssumption DEF IInv
<1>2. PICK interest \in Nat, toReserve \in Nat :
        /\ V = vaultDebtVal + interest /\ R = reservePool + toReserve
        /\ toReserve <= interest /\ (vaultDebtVal = 0 => interest = 0)
  BY <1>1, AccrueFacts
<1>3. /\ totalSupply > 0 /\ share <= totalSupply /\ total >= 0 /\ amount <= cash
      /\ reservePool' = R /\ lastAccrueTime' = now /\ vaultDebtVal' = V
      /\ totalSupply' = totalSupply - share /\ cash' = cash - amount
      /\ UNCHANGED <<vaultDebtShare, farm, admin, now, shortfall>>
  BY DEF withdraw, Accrue
<1> HIDE DEF V, R
<1>4. /\ cash \in 0..BaseSupply /\ totalSupply \in Nat /\ reservePool \in Nat
      /\ vaultDebtVal \in Nat /\ vaultDebtShare \in Nat /\ now \in 0..MaxTime
      /\ V \in Nat /\ R \in Nat
  BY <1>1, <1>2 DEF TypeOK
<1>5. total \in Nat /\ total = cash + V - R
  BY <1>3, <1>4 DEF totalToken
<1>6. /\ amount \in Nat
      /\ totalSupply <= total => totalSupply - share <= total - amount
  <2> HIDE DEF total
  <2>1. totalSupply \in Nat \ {0} /\ share \in 0..totalSupply
    BY <1>1, <1>3, <1>4
  <2>2. amount = (share * total) \div totalSupply
    BY DEF RedeemedAmount
  <2> QED BY <2>1, <2>2, <1>5, RemoveRounds
<1> HIDE DEF amount, total
<1>7. TypeOK'
  BY <1>1, <1>3, <1>4, <1>6 DEF TypeOK, farm, admin
<1>8. (PositionsWellFormed /\ DebtSharesConserved)'
  BY <1>3 DEF IInv, PositionsWellFormed, DebtSharesConserved, debtShares, farm
<1>9. DebtShareAtLeastPar'
  BY <1>2, <1>3, <1>4 DEF IInv, DebtShareAtLeastPar
<1>10. LendersWhole'
  <2> SUFFICES ASSUME ~shortfall
               PROVE  totalSupply' <= totalToken(cash, vaultDebtVal, reservePool)'
    BY <1>3 DEF LendersWhole
  <2>1. totalSupply <= cash + vaultDebtVal - reservePool
    BY DEF IInv, LendersWhole, totalToken
  <2>2. totalSupply <= total
    BY <2>1, <1>2, <1>4, <1>5
  <2>3. totalToken(cash, vaultDebtVal, reservePool)' = total - amount
    BY <1>3, <1>4, <1>5, <1>6 DEF totalToken
  <2> QED BY <2>2, <2>3, <1>1, <1>3, <1>4, <1>5, <1>6
<1> QED BY <1>7, <1>8, <1>9, <1>10 DEF IInv

\* Both cases of work keep the invariant: what leaves the vault as a loan comes
\* back as debt, and a new share never exceeds the debt it stands for.
LEMMA WorkStep ==
    ASSUME IInv, NEW id \in Ids,
           NEW pos \in [worker : Workers, owner : Users, debtShare : Nat],
           pos.debtShare = positions[id].debtShare,
           NEW principal \in Principals, NEW loan \in Loans,
           NEW maxReturn \in MaxReturns, NEW back \in Backs,
           NEW h \in HealthLevels, NEW success \in BOOLEAN,
           workOn(id, pos, principal, loan, maxReturn, back, h, success),
           nextPositionID' \in 1..(MaxPositions + 1),
           nextPositionID <= nextPositionID',
           \A i \in Ids : i < nextPositionID' => i < nextPositionID \/ i = id,
           id < nextPositionID'
    PROVE  IInv'
<1> USE ScaleAssumption
<1> DEFINE V == AccruedDebtVal(principal)
           R == AccruedReserve(principal)
           removed == debtShareToVal(pos.debtShare, V, vaultDebtShare)
           V1 == DebtValLeft(pos.debtShare, V)
           S1 == DebtShareLeft(pos.debtShare)
           lessDebt == Min2(removed + loan, Min2(back, maxReturn))
           debt == removed + loan - lessDebt
           share == IF debt > 0 THEN debtValToShare(debt, V1, S1) ELSE 0
           prize == ((back - lessDebt) * config.closeBps) \div BPS
<1>1. /\ principal \in Nat /\ loan \in Nat /\ maxReturn \in Nat /\ back \in Nat
      /\ TypeOK
  BY AmountAssumption DEF IInv
<1>2. PICK interest \in Nat, toReserve \in Nat :
        /\ V = vaultDebtVal + interest /\ R = reservePool + toReserve
        /\ toReserve <= interest /\ (vaultDebtVal = 0 => interest = 0)
  BY <1>1, AccrueFacts
<1>3. /\ fairLaunchPoolId # NoPool
      /\ principal + loan <= cash + principal
      /\ back <= BaseSupply - (cash - loan)
      /\ success => CanUnstake(pos.owner, pos.debtShare)
      /\ reservePool' = R /\ lastAccrueTime' = now
      /\ vaultDebtVal' = V1 + debt /\ vaultDebtShare' = S1 + share
      /\ positions' = [positions EXCEPT ![id] = [pos EXCEPT !.debtShare = share]]
      /\ staked' = fairLaunchDeposit(pos.owner, share,
                      fairLaunchWithdraw(pos.owner, pos.debtShare, success))
      /\ cash' = cash + principal - (principal + loan) + back
                   - (back - lessDebt - prize)
      /\ health' = [health EXCEPT ![id] = h]
      /\ UNCHANGED <<totalSupply, admin, now, shortfall>>
  BY DEF workOn, Accrue
<1> HIDE DEF V, R
<1>4. /\ cash \in 0..BaseSupply /\ totalSupply \in Nat /\ reservePool \in Nat
      /\ vaultDebtVal \in Nat /\ vaultDebtShare \in Nat /\ now \in 0..MaxTime
      /\ V \in Nat /\ R \in Nat /\ vaultDebtVal <= V /\ (vaultDebtVal = 0 => V = 0)
  BY <1>1, <1>2 DEF TypeOK
<1>5. /\ removed \in 0..V /\ V1 = V - removed /\ S1 \in Nat /\ S1 <= V1
      /\ S1 = 0 => V1 = 0
      /\ \A v \in Nat : SumsTo([debtShares EXCEPT ![id] = v], MaxPositions, S1 + v)
  BY <1>4, RemoveDebtFacts
<1> HIDE DEF removed, V1, S1
<1>6. lessDebt \in Nat /\ lessDebt <= back /\ debt \in Nat
  BY <1>1, <1>4, <1>5 DEF Min2
<1> HIDE DEF lessDebt
<1>7. prize \in Nat /\ prize <= back - lessDebt
  <2>1. back - lessDebt \in Nat /\ config.closeBps \in 0..BPS
    BY <1>1, <1>6, ConfigAssumption DEF TypeOK
  <2>2. prize \in 0..(back - lessDebt)
    BY <2>1, FractionBounds
  <2> QED BY <2>1, <2>2
<1> HIDE DEF prize, debt
<1>8. share \in Nat /\ share <= debt /\ (S1 = 0 => share = debt)
  <2>1. V1 \in Nat /\ S1 \in Nat /\ S1 <= V1 /\ (S1 = 0 => V1 = 0) /\ debt \in Nat
    BY <1>4, <1>5, <1>6
  <2>2. debtValToShare(debt, V1, S1) \in 0..debt
        /\ (S1 = 0 => debtValToShare(debt, V1, S1) = debt)
    BY <2>1, AddDebtFacts, SMTT(30)
  <2> QED BY <2>2, <1>6
<1> HIDE DEF share
<1>9. cash' = cash - loan + lessDebt + prize /\ cash' \in 0..BaseSupply
  BY <1>1, <1>3, <1>4, <1>6, <1>7
<1>10. positions' \in [Ids -> Position]
  BY <1>1, <1>3, <1>8 DEF TypeOK, Position
<1>11. staked' \in [Pools -> [Users -> Nat]]
  <2>1. fairLaunchPoolId \in Pools /\ pos.owner \in Users /\ pos.debtShare \in Nat
        /\ staked \in [Pools -> [Users -> Nat]]
    BY <1>1, <1>3 DEF TypeOK
  <2> DEFINE st == fairLaunchWithdraw(pos.owner, pos.debtShare, success)
  <2>2. st \in [Pools -> [Users -> Nat]]
    <3>1. CASE success
      <4>1. staked[fairLaunchPoolId][pos.owner] - pos.debtShare \in Nat
        BY <2>1, <3>1, <1>3 DEF CanUnstake
      <4> QED BY <2>1, <3>1, <4>1 DEF fairLaunchWithdraw
    <3>2. CASE ~success
      BY <2>1, <3>2 DEF fairLaunchWithdraw
    <3> QED BY <3>1, <3>2
  <2> HIDE DEF st
  <2>3. staked' = [st EXCEPT ![fairLaunchPoolId][pos.owner] = @ + share]
    BY <1>3 DEF fairLaunchDeposit, st
  <2> QED BY <2>1, <2>2, <2>3, <1>8
<1>12. TypeOK'
  <2>1. health' \in [Ids -> HealthLevels \cup {0}]
    BY <1>1, <1>3 DEF TypeOK
  <2>2. vaultDebtVal' \in Nat /\ vaultDebtShare' \in Nat /\ reservePool' \in Nat
    BY <1>3, <1>4, <1>5, <1>6, <1>8
  <2> QED BY <1>1, <1>3, <1>4, <1>9, <1>10, <1>11, <2>1, <2>2 DEF TypeOK, admin
<1>13. PositionsWellFormed'
  <2> SUFFICES ASSUME NEW i \in Ids
               PROVE  IF i < nextPositionID'
                      THEN positions'[i].owner \in Users /\ positions'[i].worker \in Workers
                      ELSE positions'[i].debtShare = 0
    BY DEF PositionsWellFormed
  <2>1. positions \in [Ids -> Position]
    BY <1>1 DEF TypeOK
  <2>2. CASE i = id
    BY <2>1, <2>2, <1>3
  <2>3. CASE i # id
    <3>1. positions'[i] = positions[i]
      BY <2>1, <2>3, <1>3
    <3>2. i \in Int /\ nextPositionID \in Int /\ nextPositionID' \in Int
      BY <1>1 DEF TypeOK, Ids
    <3>3. i < nextPositionID => i < nextPositionID'
      BY <3>2
    <3>4. i < nextPositionID' => i < nextPositionID
      BY <2>3
    <3> QED BY <3>1, <3>3, <3>4 DEF IInv, PositionsWellFormed
  <2> QED BY <2>2, <2>3
<1>14. DebtSharesConserved'
  <2>1. debtShares' = [debtShares EXCEPT ![id] = share]
    BY <1>1, <1>3 DEF TypeOK, debtShares
  <2>2. SumsTo(debtShares', MaxPositions, S1 + share)
    BY <2>1, <1>5, <1>8
  <2> QED BY <2>2, <1>3 DEF DebtSharesConserved
<1>15. DebtShareAtLeastPar'
  BY <1>3, <1>4, <1>5, <1>6, <1>8 DEF DebtShareAtLeastPar
<1>16. LendersWhole'
  <2> SUFFICES ASSUME ~shortfall
               PROVE  totalSupply <= totalToken(cash, vaultDebtVal, reservePool)'
    BY <1>3 DEF LendersWhole
  <2>1. totalSupply <= cash + vaultDebtVal - reservePool
    BY DEF IInv, LendersWhole, totalToken
  <2>2. vaultDebtVal' = V + loan - lessDebt
    BY <1>1, <1>3, <1>4, <1>5, <1>6 DEF debt
  <2>3. totalToken(cash, vaultDebtVal, reservePool)' = cash + prize + V - R
    BY <2>2, <1>1, <1>3, <1>4, <1>6, <1>7, <1>9 DEF totalToken
  <2> QED BY <2>1, <2>3, <1>2, <1>4, <1>7
<1> QED BY <1>12, <1>13, <1>14, <1>15, <1>16 DEF IInv

\* kill keeps the invariant: a liquidation that covers the debt leaves the
\* lenders what they had, and one that does not is recorded as a shortfall.
LEMMA KillStep ==
    ASSUME IInv, NEW id \in Ids, NEW back \in Backs, NEW success \in BOOLEAN,
           kill(id, back, success)
    PROVE  IInv'
<1> USE ScaleAssumption
<1> DEFINE pos == positions[id]
           V == AccruedDebtVal(0)
           R == AccruedReserve(0)
           debt == debtShareToVal(pos.debtShare, V, vaultDebtShare)
           V1 == DebtValLeft(pos.debtShare, V)
           S1 == DebtShareLeft(pos.debtShare)
           prize == (back * config.killBps) \div BPS
           rest == back - prize
           left == IF rest > debt THEN rest - debt ELSE 0
<1>1. back \in Nat /\ TypeOK
  BY AmountAssumption DEF IInv
<1>2. PICK interest \in Nat, toReserve \in Nat :
        /\ V = vaultDebtVal + interest /\ R = reservePool + toReserve
        /\ toReserve <= interest /\ (vaultDebtVal = 0 => interest = 0)
  BY <1>1, AccrueFacts
<1>3. /\ fairLaunchPoolId # NoPool /\ pos.debtShare > 0
      /\ back <= BaseSupply - cash
      /\ success => CanUnstake(pos.owner, pos.debtShare)
      /\ reservePool' = R /\ lastAccrueTime' = now
      /\ vaultDebtVal' = V1 /\ vaultDebtShare' = S1
      /\ positions' = [positions EXCEPT ![id].debtShare = 0]
      /\ staked' = fairLaunchWithdraw(pos.owner, pos.debtShare, success)
      /\ cash' = cash + back - prize - left
      /\ health' = [health EXCEPT ![id] = 0]
      /\ shortfall' = (shortfall \/ rest < debt)
      /\ UNCHANGED <<totalSupply, nextPositionID, admin, now>>
  BY DEF kill, Accrue
<1> HIDE DEF V, R
<1>4. /\ cash \in 0..BaseSupply /\ totalSupply \in Nat /\ reservePool \in Nat
      /\ vaultDebtVal \in Nat /\ vaultDebtShare \in Nat /\ now \in 0..MaxTime
      /\ V \in Nat /\ R \in Nat /\ vaultDebtVal <= V /\ (vaultDebtVal = 0 => V = 0)
  BY <1>1, <1>2 DEF TypeOK
<1>5. /\ debt \in 0..V /\ V1 = V - debt /\ S1 \in Nat /\ S1 <= V1
      /\ S1 = 0 => V1 = 0
      /\ \A v \in Nat : SumsTo([debtShares EXCEPT ![id] = v], MaxPositions, S1 + v)
  BY <1>4, RemoveDebtFacts
<1>6. prize \in Nat /\ prize <= back
  <2>1. config.killBps \in 0..BPS
    BY <1>1, ConfigAssumption DEF TypeOK
  <2>2. prize \in 0..back
    BY <2>1, <1>1, FractionBounds
  <2> QED BY <1>1, <2>2
<1>7. pos \in Position /\ pos.owner \in Users /\ fairLaunchPoolId \in Pools
      /\ staked \in [Pools -> [Users -> Nat]] /\ positions \in [Ids -> Position]
  <2>1. pos \in Position /\ fairLaunchPoolId \in Pools
        /\ staked \in [Pools -> [Users -> Nat]] /\ positions \in [Ids -> Position]
    BY <1>1, <1>3 DEF TypeOK
  <2>2. pos.owner \in Users
    BY <1>3 DEF IInv, PositionsWellFormed
  <2> QED BY <2>1, <2>2
<1> HIDE DEF debt, V1, S1, prize
<1>8. left \in Nat /\ left <= rest /\ (rest >= debt => rest - left = debt)
  BY <1>1, <1>5, <1>6
<1>9. cash' = cash + rest - left /\ cash' \in 0..BaseSupply
  BY <1>1, <1>3, <1>4, <1>6, <1>8
<1>10. staked' \in [Pools -> [Users -> Nat]]
  <2>1. CASE success
    <3>1. staked[fairLaunchPoolId][pos.owner] - pos.debtShare \in Nat
      BY <1>3, <1>7, <2>1 DEF CanUnstake, Position
    <3> QED BY <1>3, <1>7, <2>1, <3>1 DEF fairLaunchWithdraw
  <2>2. CASE ~success
    BY <1>3, <1>7, <2>2 DEF fairLaunchWithdraw
  <2> QED BY <2>1, <2>2
<1>11. TypeOK'
  <2>1. positions' \in [Ids -> Position]
    BY <1>3, <1>7 DEF Position
  <2>2. health' \in [Ids -> HealthLevels \cup {0}]
    BY <1>1, <1>3 DEF TypeOK
  <2>3. shortfall' \in BOOLEAN
    BY <1>3
  <2>4. vaultDebtVal' \in Nat /\ vaultDebtShare' \in Nat /\ reservePool' \in Nat
    BY <1>3, <1>4, <1>5
  <2> QED
    BY <1>1, <1>3, <1>4, <1>9, <1>10, <2>1, <2>2, <2>3, <2>4 DEF TypeOK, admin
<1>12. PositionsWellFormed'
  <2> SUFFICES ASSUME NEW i \in Ids
               PROVE  /\ positions'[i].owner = positions[i].owner
                      /\ positions'[i].worker = positions[i].worker
                      /\ positions[i].debtShare = 0 => positions'[i].debtShare = 0
    BY <1>3 DEF IInv, PositionsWellFormed
  <2> QED BY <1>3, <1>7 DEF Position
<1>13. DebtSharesConserved'
  <2>1. debtShares' = [debtShares EXCEPT ![id] = 0]
    BY <1>3, <1>7 DEF debtShares, Position
  <2>2. SumsTo([debtShares EXCEPT ![id] = 0], MaxPositions, S1 + 0)
    BY <1>5, Zenon
  <2>3. S1 + 0 = S1
    BY <1>5
  <2> QED BY <2>1, <2>2, <2>3, <1>3 DEF DebtSharesConserved
<1>14. DebtShareAtLeastPar'
  BY <1>3, <1>5 DEF DebtShareAtLeastPar
<1>15. LendersWhole'
  <2> SUFFICES ASSUME ~shortfall, rest >= debt
               PROVE  totalSupply <= totalToken(cash, vaultDebtVal, reservePool)'
    <3>1. ~shortfall' => ~shortfall /\ ~(rest < debt)
      BY <1>3
    <3>2. ~(rest < debt) => rest >= debt
      BY <1>1, <1>5, <1>6
    <3> QED BY <1>3, <3>1, <3>2 DEF LendersWhole
  <2>1. totalSupply <= cash + vaultDebtVal - reservePool
    BY DEF IInv, LendersWhole, totalToken
  <2>2. totalToken(cash, vaultDebtVal, reservePool)' = cash + V - R
    BY <1>1, <1>3, <1>4, <1>5, <1>6, <1>8, <1>9 DEF totalToken
  <2> QED BY <2>1, <2>2, <1>2, <1>4
<1> QED BY <1>11, <1>12, <1>13, <1>14, <1>15 DEF IInv

\* The steps that touch neither positions nor debt keep the invariant.
LEMMA OtherStep ==
    ASSUME IInv,
           \/ \E v \in Values : withdrawReserve(v) \/ reduceReserve(v) \/ Donate(v)
           \/ \E c \in Configs : updateConfig(c)
           \/ \E t \in DebtTokens, pid \in Pools \cup {NoPool} : updateDebtToken(t, pid)
           \/ \E pid \in Pools \cup {NoPool} : setFairLaunchPoolId(pid)
           \/ Tick
           \/ \E id \in Ids, h \in HealthLevels : MarketMove(id, h)
           \/ UNCHANGED vars
    PROVE  IInv'
<1> USE ScaleAssumption
<1>1. UNCHANGED <<vaultDebtVal, vaultDebtShare, positions, nextPositionID, staked,
                  totalSupply, lastAccrueTime, shortfall>>
  BY DEF withdrawReserve, reduceReserve, Donate, updateConfig, updateDebtToken,
         setFairLaunchPoolId, Tick, MarketMove, vars, books, farm, admin
<1>2. /\ cash' \in 0..BaseSupply /\ reservePool' \in Nat
      /\ cash' - reservePool' >= cash - reservePool
  <2>1. Values \subseteq Nat /\ cash \in 0..BaseSupply /\ reservePool \in Nat
    BY AmountAssumption DEF IInv, TypeOK
  <2> QED
    BY <2>1 DEF withdrawReserve, reduceReserve, Donate, updateConfig, updateDebtToken,
         setFairLaunchPoolId, Tick, MarketMove, vars, books, farm, admin
<1>3. /\ now' \in 0..MaxTime /\ lastAccrueTime \in 0..now'
  BY DEF withdrawReserve, reduceReserve, Donate, updateConfig, updateDebtToken,
         setFairLaunchPoolId, Tick, MarketMove, vars, books, farm, admin, IInv, TypeOK
<1>4. config' \in Configs /\ debtToken' \in DebtTokens
      /\ fairLaunchPoolId' \in Pools \cup {NoPool}
  BY DEF withdrawReserve, reduceReserve, Donate, updateConfig, updateDebtToken,
         setFairLaunchPoolId, Tick, MarketMove, vars, books, farm, admin, IInv, TypeOK
<1>5. health' \in [Ids -> HealthLevels \cup {0}]
  BY DEF withdrawReserve, reduceReserve, Donate, updateConfig, updateDebtToken,
         setFairLaunchPoolId, Tick, MarketMove, vars, books, farm, admin, IInv, TypeOK
<1>6. TypeOK'
  BY <1>1, <1>2, <1>3, <1>4, <1>5 DEF IInv, TypeOK
<1>7. (PositionsWellFormed /\ DebtSharesConserved /\ DebtShareAtLeastPar)'
  BY <1>1 DEF IInv, PositionsWellFormed, DebtSharesConserved, debtShares,
              DebtShareAtLeastPar
<1>8. LendersWhole'
  <2> SUFFICES ASSUME ~shortfall
               PROVE  totalSupply <= totalToken(cash, vaultDebtVal, reservePool)'
    BY <1>1 DEF LendersWhole
  <2>1. totalSupply <= cash + vaultDebtVal - reservePool
    BY DEF IInv, LendersWhole, totalToken
  <2>2. /\ totalSupply \in Nat /\ vaultDebtVal \in Nat
        /\ cash \in 0..BaseSupply /\ reservePool \in Nat
    BY DEF IInv, TypeOK
  <2>3. totalToken(cash, vaultDebtVal, reservePool)' = cash' + vaultDebtVal - reservePool'
    BY <1>1 DEF totalToken
  <2>4. cash' \in Int /\ reservePool' \in Int
    BY <1>2
  <2>5. cash' - reservePool' >= cash - reservePool
    BY <1>2
  <2>6. totalSupply <= cash' + vaultDebtVal - reservePool'
    <3>1. \A c, r \in Int : c - r >= cash - reservePool => totalSupply <= c + vaultDebtVal - r
      BY <2>1, <2>2
    <3> QED BY <3>1, <2>4, <2>5
  <2> QED BY <2>3, <2>6
<1> QED BY <1>6, <1>7, <1>8 DEF IInv

\* The inductive invariant holds initially and is kept by every step.
LEMMA InvInit == Init => IInv
<1> SUFFICES ASSUME Init PROVE IInv
  OBVIOUS
<1> USE ScaleAssumption
<1>1. TypeOK
  <2>1. positions \in [Ids -> Position]
    BY DEF Init, Position
  <2>2. staked \in [Pools -> [Users -> Nat]]
    BY DEF Init
  <2>3. health \in [Ids -> HealthLevels \cup {0}]
    BY DEF Init
  <2>4. shortfall \in BOOLEAN /\ config \in Configs /\ debtToken \in DebtTokens
        /\ fairLaunchPoolId \in Pools \cup {NoPool}
    BY DEF Init
  <2>5. /\ cash \in 0..BaseSupply /\ now \in 0..MaxTime /\ lastAccrueTime \in 0..now
        /\ nextPositionID \in 1..(MaxPositions + 1)
    BY DEF Init
  <2>6. /\ totalSupply \in Nat /\ reservePool \in Nat
        /\ vaultDebtVal \in Nat /\ vaultDebtShare \in Nat
    BY DEF Init
  <2> QED BY <2>1, <2>2, <2>3, <2>4, <2>5, <2>6 DEF TypeOK
<1>2. PositionsWellFormed
  BY DEF Init, PositionsWellFormed, Ids
<1>3. DebtSharesConserved
  <2>1. \A i \in 1..MaxPositions : debtShares[i] = 0
    BY DEF Init, debtShares, Ids
  <2>2. SumsTo(debtShares, MaxPositions, 0)
    BY <2>1, SumsToZero
  <2> QED BY <2>2 DEF Init, DebtSharesConserved
<1>4. DebtShareAtLeastPar /\ LendersWhole
  BY DEF Init, DebtShareAtLeastPar, LendersWhole, totalToken
<1> QED BY <1>1, <1>2, <1>3, <1>4 DEF IInv

\* Every action preserves the inductive invariant.
LEMMA InvNext == IInv /\ [Next]_vars => IInv'
<1> SUFFICES ASSUME IInv, [Next]_vars PROVE IInv'
  OBVIOUS
<1>1. CASE \E a \in Deposits : deposit(a)
  BY <1>1, DepositStep
<1>2. CASE \E s \in Shares : withdraw(s)
  BY <1>2, WithdrawStep
<1>3. CASE \E u \in Users, w \in Workers, p \in Principals, l \in Loans,
              m \in MaxReturns, b \in Backs, h \in HealthLevels :
              workNew(u, w, p, l, m, b, h)
  <2>1. PICK u \in Users, w \in Workers, p \in Principals, l \in Loans,
             m \in MaxReturns, b \in Backs, h \in HealthLevels :
             workNew(u, w, p, l, m, b, h)
    BY <1>3
  <2> DEFINE id == nextPositionID
             pos == [worker |-> w, owner |-> u, debtShare |-> 0]
  <2>2. id \in Ids /\ nextPositionID' = id + 1 /\ id \in Nat /\ MaxPositions \in Nat
    BY <2>1, ScaleAssumption DEF workNew, IInv, TypeOK, Ids
  <2>6. workOn(id, pos, p, l, m, b, h, FALSE)
    BY <2>1, Zenon DEF workNew
  <2>3. pos \in [worker : Workers, owner : Users, debtShare : Nat]
    OBVIOUS
  <2>4. pos.debtShare = positions[id].debtShare
    BY <2>2 DEF IInv, PositionsWellFormed
  <2>5. /\ nextPositionID' \in 1..(MaxPositions + 1)
        /\ nextPositionID <= nextPositionID' /\ id < nextPositionID'
        /\ \A i \in Ids : i < nextPositionID' => i < nextPositionID \/ i = id
    BY <2>2 DEF Ids
  <2> HIDE DEF id, pos
  <2> QED BY <2>2, <2>3, <2>4, <2>5, <2>6, WorkStep
<1>4. CASE \E id \in Ids, p \in Principals, l \in Loans, m \in MaxReturns,
              b \in Backs, h \in HealthLevels, success \in Outcomes :
              workExisting(id, p, l, m, b, h, success)
  <2>1. PICK id \in Ids, p \in Principals, l \in Loans, m \in MaxReturns,
             b \in Backs, h \in HealthLevels, success \in Outcomes :
             workExisting(id, p, l, m, b, h, success)
    BY <1>4
  <2> DEFINE pos == positions[id]
  <2>2. id < nextPositionID /\ nextPositionID' = nextPositionID
        /\ workOn(id, pos, p, l, m, b, h, success) /\ success \in BOOLEAN
    BY <2>1, AmountAssumption DEF workExisting
  <2>3. pos \in [worker : Workers, owner : Users, debtShare : Nat]
    BY <2>2 DEF IInv, TypeOK, PositionsWellFormed, Position
  <2>4. pos.debtShare = positions[id].debtShare
    OBVIOUS
  <2>5. /\ nextPositionID' \in 1..(MaxPositions + 1)
        /\ nextPositionID <= nextPositionID' /\ id < nextPositionID'
        /\ \A i \in Ids : i < nextPositionID' => i < nextPositionID \/ i = id
    BY <2>2, ScaleAssumption DEF IInv, TypeOK
  <2> HIDE DEF pos
  <2> QED BY <2>2, <2>3, <2>4, <2>5, WorkStep
<1>5. CASE \E id \in Ids, b \in Backs, success \in Outcomes : kill(id, b, success)
  BY <1>5, KillStep, AmountAssumption
<1>6. CASE \/ \E v \in Values : withdrawReserve(v) \/ reduceReserve(v) \/ Donate(v)
           \/ \E c \in Configs : updateConfig(c)
           \/ \E t \in DebtTokens, pid \in Pools \cup {NoPool} : updateDebtToken(t, pid)
           \/ \E pid \in Pools \cup {NoPool} : setFairLaunchPoolId(pid)
           \/ Tick
           \/ \E id \in Ids, h \in HealthLevels : MarketMove(id, h)
           \/ UNCHANGED vars
  BY <1>6, OtherStep
<1> QED BY <1>1, <1>2, <1>3, <1>4, <1>5, <1>6 DEF Next

\* Vault.sol, every operation: the variables keep their types, so no SafeMath
\* subtraction of the modelled operations underflows beyond its guard.
THEOREM TypeCorrect == Spec => []TypeOK
<1>1. IInv => TypeOK
  BY DEF IInv
<1> QED BY <1>1, InvInit, InvNext, PTL DEF Spec

\* Vault.sol _addDebt and _removeDebt: the debt shares of the positions sum up to
\* vaultDebtShare, whatever the order of work, kill and accruals.
THEOREM DebtSharesAlwaysConserved == Spec => []DebtSharesConserved
<1>1. IInv => DebtSharesConserved
  BY DEF IInv
<1> QED BY <1>1, InvInit, InvNext, PTL DEF Spec

\* Vault.sol debtValToShare and debtShareToVal: a debt share never falls below
\* par, and the pool's value is zero when it has no share.
THEOREM DebtShareAlwaysAtLeastPar == Spec => []DebtShareAtLeastPar
<1>1. IInv => DebtShareAtLeastPar
  BY DEF IInv
<1> QED BY <1>1, InvInit, InvNext, PTL DEF Spec

\* Vault.sol totalToken: the pool covers every ibToken until a kill recovers
\* less than the debt it closes.
THEOREM LendersAlwaysWhole == Spec => []LendersWhole
<1>1. IInv => LendersWhole
  BY DEF IInv
<1> QED BY <1>1, InvInit, InvNext, PTL DEF Spec
-----------------------------------------------------------------------------
(* What a step does to the debt pool. *)

\* The inductive invariant holds of every behaviour of the vault.
LEMMA Invariance == Spec => []IInv
<1> QED BY InvInit, InvNext, PTL DEF Spec

\* A work or kill on position id: the pool is accrued to V, the position's shares
\* are removed, and debt is added for share.
DebtMoves(id, V, debt, share) ==
    LET old == positions[id].debtShare
        V1  == DebtValLeft(old, V)
        S1  == DebtShareLeft(old)
    IN  /\ V \in Nat /\ debt \in Nat /\ share \in Nat
        /\ vaultDebtVal <= V /\ (vaultDebtVal = 0 => V = 0)
        /\ share = IF debt > 0 THEN debtValToShare(debt, V1, S1) ELSE 0
        /\ vaultDebtVal' = V1 + debt /\ vaultDebtShare' = S1 + share
        /\ positions'[id].debtShare = share
        /\ \A i \in Ids : i # id => positions'[i] = positions[i]

\* The pool's worth to the lenders does not fall and no ibToken is minted.
LendersKeep ==
    /\ totalSupply' = totalSupply
    /\ shortfall => shortfall'
    /\ ~shortfall' => totalToken(cash, vaultDebtVal, reservePool)'
                        >= totalToken(cash, vaultDebtVal, reservePool)

\* What work is called with: pos is the position, or a new one at a fresh id.
Works(id, pos, principal, loan, maxReturn, back, h, success) ==
    /\ pos \in [worker : Workers, owner : Users, debtShare : Nat]
    /\ pos.debtShare = positions[id].debtShare
    /\ positions[id].owner = pos.owner \/ positions[id].debtShare = 0
    /\ principal \in Nat /\ loan \in Nat /\ maxReturn \in Nat /\ back \in Nat
    /\ h \in Nat /\ success \in BOOLEAN
    /\ workOn(id, pos, principal, loan, maxReturn, back, h, success)

\* A call of work, new position or not, is workOn with arguments of their types.
LEMMA WorkCases ==
    ASSUME IInv,
           \/ \E u \in Users, w \in Workers, p \in Principals, l \in Loans,
                 m \in MaxReturns, b \in Backs, h \in HealthLevels :
                 workNew(u, w, p, l, m, b, h)
           \/ \E id \in Ids, p \in Principals, l \in Loans, m \in MaxReturns,
                 b \in Backs, h \in HealthLevels, success \in Outcomes :
                 workExisting(id, p, l, m, b, h, success)
    PROVE  \E id \in Ids : \E pos, p, l, m, b, h, success : Works(id, pos, p, l, m, b, h, success)
<1>1. ASSUME NEW u \in Users, NEW w \in Workers, NEW p \in Principals, NEW l \in Loans,
             NEW m \in MaxReturns, NEW b \in Backs, NEW h \in HealthLevels,
             workNew(u, w, p, l, m, b, h)
      PROVE  \E id \in Ids : \E pos, x1, x2, x3, x4, x5, x6 :
                Works(id, pos, x1, x2, x3, x4, x5, x6)
  <2> DEFINE id == nextPositionID
             pos == [worker |-> w, owner |-> u, debtShare |-> 0]
  <2>1. id \in Ids
    BY <1>1 DEF workNew
  <2>2. workOn(id, pos, p, l, m, b, h, FALSE)
    BY <1>1, Zenon DEF workNew
  <2>3. pos \in [worker : Workers, owner : Users, debtShare : Nat] /\ pos.debtShare = 0
    OBVIOUS
  <2>4. id \in Nat
    BY DEF IInv, TypeOK
  <2>5. positions[id].debtShare = 0
    BY <2>1, <2>4 DEF IInv, PositionsWellFormed
  <2>6. p \in Nat /\ l \in Nat /\ m \in Nat /\ b \in Nat /\ h \in Nat
    BY AmountAssumption
  <2> HIDE DEF id, pos
  <2>7. Works(id, pos, p, l, m, b, h, FALSE)
    BY <2>2, <2>3, <2>5, <2>6 DEF Works
  <2> QED BY <2>1, <2>7
<1>2. ASSUME NEW id \in Ids, NEW p \in Principals, NEW l \in Loans, NEW m \in MaxReturns,
             NEW b \in Backs, NEW h \in HealthLevels, NEW success \in Outcomes,
             workExisting(id, p, l, m, b, h, success)
      PROVE  \E i \in Ids : \E pos, x1, x2, x3, x4, x5, x6 :
                Works(i, pos, x1, x2, x3, x4, x5, x6)
  <2> DEFINE pos == positions[id]
  <2>1. id < nextPositionID /\ workOn(id, pos, p, l, m, b, h, success)
    BY <1>2 DEF workExisting
  <2>2. pos \in [worker : Workers, owner : Users, debtShare : Nat]
    BY <2>1 DEF IInv, TypeOK, PositionsWellFormed, Position
  <2>3. /\ p \in Nat /\ l \in Nat /\ m \in Nat /\ b \in Nat /\ h \in Nat
        /\ success \in BOOLEAN
    BY AmountAssumption
  <2>4. Works(id, pos, p, l, m, b, h, success)
    BY <2>1, <2>2, <2>3 DEF Works
  <2> QED BY <2>4
<1> QED BY <1>1, <1>2

\* work moves debt as above, at a health the work factor accepts.
LEMMA WorkMoves ==
    ASSUME IInv, NEW id \in Ids, NEW pos, NEW principal, NEW loan, NEW maxReturn, NEW back,
           NEW h, NEW success, Works(id, pos, principal, loan, maxReturn, back, h, success)
    PROVE  /\ LendersKeep /\ config' = config /\ health'[id] = h
           /\ positions'[id].worker = pos.worker /\ positions'[id].owner = pos.owner
           /\ \E V, debt, share :
                 /\ DebtMoves(id, V, debt, share)
                 /\ debt > 0 => WorkFactorMet(config.worker[pos.worker], h, debt)
<1> USE ScaleAssumption
<1> DEFINE V == AccruedDebtVal(principal)
           R == AccruedReserve(principal)
           old == pos.debtShare
           removed == debtShareToVal(old, V, vaultDebtShare)
           V1 == DebtValLeft(old, V)
           S1 == DebtShareLeft(old)
           lessDebt == Min2(removed + loan, Min2(back, maxReturn))
           debt == removed + loan - lessDebt
           share == IF debt > 0 THEN debtValToShare(debt, V1, S1) ELSE 0
           prize == ((back - lessDebt) * config.closeBps) \div BPS
<1>1. /\ principal \in Nat /\ loan \in Nat /\ maxReturn \in Nat /\ back \in Nat
      /\ TypeOK /\ pos \in [worker : Workers, owner : Users, debtShare : Nat]
      /\ old = positions[id].debtShare
  BY DEF IInv, Works
<1>2. PICK interest \in Nat, toReserve \in Nat :
        /\ V = vaultDebtVal + interest /\ R = reservePool + toReserve
        /\ toReserve <= interest /\ (vaultDebtVal = 0 => interest = 0)
  BY <1>1, AccrueFacts
<1>3. /\ principal + loan <= cash + principal
      /\ reservePool' = R
      /\ vaultDebtVal' = V1 + debt /\ vaultDebtShare' = S1 + share
      /\ positions' = [positions EXCEPT ![id] = [pos EXCEPT !.debtShare = share]]
      /\ cash' = cash + principal - (principal + loan) + back
                   - (back - lessDebt - prize)
      /\ health' = [health EXCEPT ![id] = h]
      /\ totalSupply' = totalSupply /\ config' = config /\ shortfall' = shortfall
      /\ debt > 0 => WorkFactorMet(config.worker[pos.worker], h, debt)
  BY DEF Works, workOn, Accrue, admin
<1> HIDE DEF V, R
<1>4. /\ cash \in Nat /\ totalSupply \in Nat /\ reservePool \in Nat
      /\ vaultDebtVal \in Nat /\ vaultDebtShare \in Nat
      /\ V \in Nat /\ R \in Nat /\ vaultDebtVal <= V /\ (vaultDebtVal = 0 => V = 0)
      /\ positions \in [Ids -> Position] /\ health \in [Ids -> HealthLevels \cup {0}]
      /\ config \in Configs
  BY <1>1, <1>2 DEF TypeOK
<1>5. /\ removed \in 0..V /\ V1 = V - removed /\ S1 \in Nat /\ S1 <= V1
      /\ S1 = 0 => V1 = 0
  BY <1>1, <1>4, RemoveDebtFacts
<1> HIDE DEF removed, V1, S1
<1>6. lessDebt \in Nat /\ lessDebt <= back /\ debt \in Nat
  BY <1>1, <1>4, <1>5 DEF Min2
<1> HIDE DEF lessDebt
<1>7. prize \in Nat /\ prize <= back - lessDebt
  <2>1. back - lessDebt \in Nat /\ config.closeBps \in 0..BPS
    BY <1>1, <1>4, <1>6, ConfigAssumption
  <2>2. prize \in 0..(back - lessDebt)
    BY <2>1, FractionBounds
  <2> QED BY <2>1, <2>2
<1>8. V + loan - lessDebt = V1 + debt
  BY <1>1, <1>4, <1>5, <1>6
<1> HIDE DEF prize, debt
<1>9. share \in Nat
  <2>1. V1 \in Nat /\ S1 \in Nat /\ S1 <= V1 /\ (S1 = 0 => V1 = 0) /\ debt \in Nat
    BY <1>4, <1>5, <1>6
  <2>2. debtValToShare(debt, V1, S1) \in 0..debt
    BY <2>1, AddDebtFacts, SMTT(30)
  <2> QED BY <2>2, <1>6
<1>10. LendersKeep
  <2>1. cash' = cash - loan + lessDebt + prize
    BY <1>1, <1>3, <1>4, <1>6, <1>7
  <2>2. totalToken(cash, vaultDebtVal, reservePool)' = cash + prize + V - R
    BY <2>1, <1>1, <1>3, <1>4, <1>6, <1>7, <1>8 DEF totalToken
  <2>3. totalToken(cash, vaultDebtVal, reservePool) = cash + vaultDebtVal - reservePool
    BY DEF totalToken
  <2> QED BY <2>2, <2>3, <1>2, <1>3, <1>4, <1>7 DEF LendersKeep
<1>11. V1 = DebtValLeft(positions[id].debtShare, V) /\ S1 = DebtShareLeft(positions[id].debtShare)
       /\ share = IF debt > 0 THEN debtValToShare(debt, V1, S1) ELSE 0
  BY <1>1 DEF V1, S1
<1> HIDE DEF share
<1>12. /\ positions'[id].debtShare = share /\ health'[id] = h
       /\ positions'[id].worker = pos.worker /\ positions'[id].owner = pos.owner
       /\ \A i \in Ids : i # id => positions'[i] = positions[i]
  BY <1>1, <1>3, <1>4
<1>13. DebtMoves(id, V, debt, share)
  BY <1>3, <1>4, <1>6, <1>9, <1>11, <1>12 DEF DebtMoves
<1> HIDE DEF old
<1> QED BY <1>3, <1>10, <1>12, <1>13

\* kill removes the position's debt and adds none.
LEMMA KillMoves ==
    ASSUME IInv, NEW id \in Ids, NEW back \in Backs, NEW success \in BOOLEAN,
           kill(id, back, success)
    PROVE  /\ LendersKeep
           /\ \E V : DebtMoves(id, V, 0, 0)
<1> USE ScaleAssumption
<1> DEFINE old == positions[id].debtShare
           V == AccruedDebtVal(0)
           R == AccruedReserve(0)
           debt == debtShareToVal(old, V, vaultDebtShare)
           V1 == DebtValLeft(old, V)
           S1 == DebtShareLeft(old)
           prize == (back * config.killBps) \div BPS
           rest == back - prize
           left == IF rest > debt THEN rest - debt ELSE 0
<1>1. back \in Nat /\ TypeOK
  BY AmountAssumption DEF IInv
<1>2. PICK interest \in Nat, toReserve \in Nat :
        /\ V = vaultDebtVal + interest /\ R = reservePool + toReserve
        /\ toReserve <= interest /\ (vaultDebtVal = 0 => interest = 0)
  BY <1>1, AccrueFacts
<1>3. /\ reservePool' = R /\ vaultDebtVal' = V1 /\ vaultDebtShare' = S1
      /\ positions' = [positions EXCEPT ![id].debtShare = 0]
      /\ cash' = cash + back - prize - left
      /\ shortfall' = (shortfall \/ rest < debt)
      /\ totalSupply' = totalSupply
  BY DEF kill, Accrue
<1> HIDE DEF V, R
<1>4. /\ cash \in Nat /\ reservePool \in Nat /\ vaultDebtVal \in Nat
      /\ V \in Nat /\ R \in Nat /\ vaultDebtVal <= V /\ (vaultDebtVal = 0 => V = 0)
      /\ positions \in [Ids -> Position] /\ config \in Configs
  BY <1>1, <1>2 DEF TypeOK
<1>5. debt \in 0..V /\ V1 = V - debt /\ S1 \in Nat
  BY <1>4, RemoveDebtFacts
<1>6. prize \in Nat /\ prize <= back
  <2>1. config.killBps \in 0..BPS
    BY <1>4, ConfigAssumption
  <2>2. prize \in 0..back
    BY <2>1, <1>1, FractionBounds
  <2> QED BY <1>1, <2>2
<1>7. V1 = DebtValLeft(positions[id].debtShare, V) /\ S1 = DebtShareLeft(positions[id].debtShare)
  OBVIOUS
<1> HIDE DEF debt, V1, S1, prize
<1>8. LendersKeep
  <2> SUFFICES ASSUME ~shortfall'
               PROVE  totalToken(cash, vaultDebtVal, reservePool)'
                        >= totalToken(cash, vaultDebtVal, reservePool)
    BY <1>3 DEF LendersKeep
  <2>1. ~(rest < debt)
    BY <1>3
  <2>2. left \in Nat /\ rest - left = debt
    BY <2>1, <1>1, <1>5, <1>6
  <2>3. totalToken(cash, vaultDebtVal, reservePool)' = cash + V - R
    BY <2>2, <1>1, <1>3, <1>4, <1>5, <1>6 DEF totalToken
  <2>4. totalToken(cash, vaultDebtVal, reservePool) = cash + vaultDebtVal - reservePool
    BY DEF totalToken
  <2> QED BY <2>3, <2>4, <1>2, <1>4
<1>9. /\ positions'[id].debtShare = 0
      /\ \A i \in Ids : i # id => positions'[i] = positions[i]
  BY <1>3, <1>4 DEF Position
<1>10. vaultDebtVal' = V1 + 0 /\ vaultDebtShare' = S1 + 0
  BY <1>3, <1>4, <1>5
<1>11. DebtMoves(id, V, 0, 0)
  BY <1>4, <1>7, <1>9, <1>10 DEF DebtMoves
<1> QED BY <1>8, <1>11

\* Two positions together hold no more shares than there are.
LEMMA SharesOfTwo ==
    ASSUME IInv, NEW id \in Ids, NEW other \in Ids, id # other
    PROVE  /\ positions[id].debtShare \in Nat /\ positions[other].debtShare \in Nat
           /\ positions[other].debtShare <= vaultDebtShare - positions[id].debtShare
           /\ positions[id].debtShare <= vaultDebtShare
<1> DEFINE f == debtShares
           g == [debtShares EXCEPT ![id] = 0]
           t == vaultDebtShare - f[id] + 0
<1>1. f \in [1..MaxPositions -> Nat] /\ f[id] = positions[id].debtShare
      /\ f[other] = positions[other].debtShare
      /\ vaultDebtShare \in Nat /\ id \in 1..MaxPositions /\ other \in 1..MaxPositions
      /\ MaxPositions \in Nat /\ SumsTo(f, MaxPositions, vaultDebtShare)
  BY ScaleAssumption DEF IInv, TypeOK, debtShares, Position, Ids, DebtSharesConserved
<1>2. g \in [1..MaxPositions -> Nat] /\ g[other] = f[other]
  BY <1>1
<1>3. f[id] <= vaultDebtShare /\ SumsTo([f EXCEPT ![id] = 0], MaxPositions, t)
  BY <1>1, SumUpdate
<1>4. SumsTo(g, MaxPositions, t)
  BY <1>3
<1>5. t \in Nat /\ t = vaultDebtShare - f[id]
  BY <1>1, <1>3
<1> HIDE DEF f, g, t
<1>6. g[other] <= t
  BY <1>1, <1>2, <1>4, <1>5, SumUpdate
<1> QED BY <1>1, <1>2, <1>3, <1>5, <1>6

\* A debt that moves makes no other position's debt fall: what is removed is
\* rounded down in favour of those who stay, and so are the shares for what is added.
LEMMA OthersValue ==
    ASSUME IInv, NEW id \in Ids, NEW other \in Ids, id # other,
           NEW V, NEW debt, NEW share, DebtMoves(id, V, debt, share)
    PROVE  debtShareToVal(positions[other].debtShare, vaultDebtVal', vaultDebtShare')
             >= debtShareToVal(positions[other].debtShare, vaultDebtVal, vaultDebtShare)
<1> DEFINE s == positions[other].debtShare
           old == positions[id].debtShare
           S == vaultDebtShare
           V1 == DebtValLeft(old, V)
           S1 == DebtShareLeft(old)
<1>1. /\ V \in Nat /\ debt \in Nat /\ share \in Nat /\ vaultDebtVal <= V
      /\ (vaultDebtVal = 0 => V = 0)
      /\ share = IF debt > 0 THEN debtValToShare(debt, V1, S1) ELSE 0
      /\ vaultDebtVal' = V1 + debt /\ vaultDebtShare' = S1 + share
  BY DEF DebtMoves
<1>2. s \in Nat /\ old \in Nat /\ s <= S - old /\ old <= S
  BY SharesOfTwo
<1>3. vaultDebtVal \in Nat /\ S \in Nat
  BY DEF IInv, TypeOK
<1>4. S1 = S - old /\ S1 \in Nat
  BY <1>2, <1>3 DEF DebtShareLeft
<1>5. /\ V1 \in Nat /\ S1 <= V1
  <2>1. debtShareToVal(old, V, S) \in 0..V /\ V1 = V - debtShareToVal(old, V, S) /\ S1 <= V1
    BY <1>1, RemoveDebtFacts
  <2> QED BY <2>1, <1>1
<1>6. CASE s = 0
  <2>1. S1 + share \in Nat /\ V1 + debt \in Nat
    BY <1>1, <1>4, <1>5
  <2>2. ASSUME NEW a \in Nat, NEW b \in Nat PROVE debtShareToVal(0, a, b) = 0
    <3>1. b # 0 => b \in Nat \ {0} /\ 0 * a = 0
      OBVIOUS
    <3> QED BY <3>1, ZeroDiv DEF debtShareToVal
  <2> HIDE DEF V1, S1
  <2> QED BY <2>1, <2>2, <1>1, <1>3, <1>6
<1>7. CASE s # 0
  <2>1. S1 \in Nat \ {0} /\ S \in Nat \ {0} /\ V1 \in Nat \ {0} /\ old \in 0..S
    BY <1>2, <1>3, <1>4, <1>5, <1>7
  <2> DEFINE S2 == S1 + share
             V2 == V1 + debt
             val == (old * V) \div S
  <2>2. S2 \in Nat \ {0} /\ V2 \in Nat
    BY <2>1, <1>1
  <2>3. debtShareToVal(s, vaultDebtVal, S) = (s * vaultDebtVal) \div S
        /\ debtShareToVal(s, vaultDebtVal', vaultDebtShare') = (s * V2) \div S2
        /\ V1 = V - val
    BY <2>1, <2>2, <1>1 DEF debtShareToVal, DebtValLeft
  <2>4. (s * vaultDebtVal) \div S <= (s * V) \div S
    <3>1. s * vaultDebtVal <= s * V /\ s * vaultDebtVal \in Nat /\ s * V \in Nat
      BY <1>1, <1>2, <1>3, MulMono
    <3> QED BY <3>1, <2>1, DivMono
  <2>5. V * S1 <= V1 * S
    <3>1. (V - val) * S >= V * (S - old)
      BY <2>1, <1>1, RemoveRounds
    <3>2. V * S1 \in Int /\ V1 * S \in Int
      BY <2>1, <1>1
    <3> QED BY <3>1, <3>2, <2>3, <1>4
  <2> HIDE DEF V1, S1, val, old, s, S
  <2>6. (s * V) \div S <= (s * V1) \div S1
    BY <2>1, <2>5, <1>1, <1>2, RatioMono
  <2>7. V1 * S2 <= V2 * S1
    <3>1. V1 * share <= debt * S1 /\ V1 * share \in Int /\ debt * S1 \in Int
      <4>1. CASE debt > 0
        <5>1. share = (debt * S1) \div V1 /\ debt * S1 \in Nat
          BY <4>1, <2>1, <1>1 DEF debtValToShare
        <5> QED BY <5>1, <2>1, <1>1, FloorBounds
      <4>2. CASE ~(debt > 0)
        <5>1. share = 0 /\ debt = 0
          BY <4>2, <1>1
        <5> QED BY <5>1, <2>1
      <4> QED BY <4>1, <4>2
    <3>2. V1 * (S1 + share) = V1 * S1 + V1 * share /\ V1 * S1 \in Int
      BY <2>1, <1>1, Distribute
    <3>3. (V1 + debt) * S1 = V1 * S1 + debt * S1
      BY <2>1, <1>1
    <3> QED BY <3>1, <3>2, <3>3
  <2>8. (s * V1) \div S1 <= (s * V2) \div S2
    <3> HIDE DEF S2, V2
    <3> QED BY <2>1, <2>2, <2>7, <1>2, RatioMono
  <2>9. /\ (s * vaultDebtVal) \div S \in Int /\ (s * V) \div S \in Int
        /\ (s * V1) \div S1 \in Int /\ (s * V2) \div S2 \in Int
    <3>1. s * vaultDebtVal \in Nat /\ s * V \in Nat /\ s * V1 \in Nat /\ s * V2 \in Nat
      BY <2>1, <2>2, <1>1, <1>2, <1>3
    <3> HIDE DEF S2, V2
    <3> QED BY <3>1, <2>1, <2>2, FloorBounds
  <2> HIDE DEF S2, V2
  <2>10. (s * vaultDebtVal) \div S <= (s * V2) \div S2
    BY <2>4, <2>6, <2>8, <2>9
  <2>11. debtShareToVal(s, vaultDebtVal', vaultDebtShare') >= debtShareToVal(s, vaultDebtVal, S)
    BY <2>3, <2>9, <2>10
  <2> QED BY <2>11 DEF s, S
<1> QED BY <1>6, <1>7

\* The steps that move debt, and the others.
MovesDebt ==
    \E id \in Ids :
        \/ \E pos, p, l, m, b, h, success : Works(id, pos, p, l, m, b, h, success)
        \/ \E b \in Backs, success \in BOOLEAN : kill(id, b, success)
Pays == (\E a \in Deposits : deposit(a)) \/ (\E s \in Shares : withdraw(s))
Settings ==
    \/ \E v \in Values : withdrawReserve(v) \/ reduceReserve(v) \/ Donate(v)
    \/ \E c \in Configs : updateConfig(c)
    \/ \E t \in DebtTokens, pid \in Pools \cup {NoPool} : updateDebtToken(t, pid)
    \/ \E pid \in Pools \cup {NoPool} : setFairLaunchPoolId(pid)
    \/ Tick
    \/ \E id \in Ids, h \in HealthLevels : MarketMove(id, h)

\* Every step moves one position's debt, moves money of lenders, or changes settings.
LEMMA NextCases ==
    ASSUME IInv, Next
    PROVE  MovesDebt \/ Pays \/ Settings
<1>1. ASSUME \/ \E u \in Users, w \in Workers, p \in Principals, l \in Loans,
                   m \in MaxReturns, b \in Backs, h \in HealthLevels :
                   workNew(u, w, p, l, m, b, h)
             \/ \E id \in Ids, p \in Principals, l \in Loans, m \in MaxReturns,
                   b \in Backs, h \in HealthLevels, success \in Outcomes :
                   workExisting(id, p, l, m, b, h, success)
      PROVE  MovesDebt
  BY <1>1, WorkCases DEF MovesDebt
<1>2. ASSUME \E id \in Ids, b \in Backs, success \in Outcomes : kill(id, b, success)
      PROVE  MovesDebt
  BY <1>2, AmountAssumption DEF MovesDebt
<1> QED BY <1>1, <1>2 DEF Next, Pays, Settings

\* Deposits, withdrawals and the settings leave the positions as they are.
LEMMA PositionsStay ==
    ASSUME Pays \/ Settings
    PROVE  positions' = positions /\ staked' = staked
BY DEF Pays, Settings, deposit, withdraw, withdrawReserve, reduceReserve, Donate,
       updateConfig, updateDebtToken, setFairLaunchPoolId, Tick, MarketMove, farm

\* Vault.sol _removeDebt and _addDebt: no work or kill on one position lowers the
\* debt of another, whatever is rounded.
THEOREM OthersDebtKept == Spec => OthersDebtNeverFalls
<1> DEFINE A == \A id, other \in Ids :
                  /\ positions'[id] = positions[id]
                  /\ positions'[other] # positions[other]
                  => debtShareToVal(positions[id].debtShare, vaultDebtVal', vaultDebtShare')
                       >= debtShareToVal(positions[id].debtShare, vaultDebtVal, vaultDebtShare)
<1>1. ASSUME IInv, [Next]_vars PROVE [A]_vars
  <2> SUFFICES ASSUME Next, NEW id \in Ids, NEW other \in Ids,
                      positions'[id] = positions[id], positions'[other] # positions[other]
               PROVE  debtShareToVal(positions[id].debtShare, vaultDebtVal', vaultDebtShare')
                       >= debtShareToVal(positions[id].debtShare, vaultDebtVal, vaultDebtShare)
    BY <1>1
  <2>1. MovesDebt
    BY <1>1, NextCases, PositionsStay
  <2>2. PICK i \in Ids : \E V, debt, share : DebtMoves(i, V, debt, share)
    BY <1>1, <2>1, WorkMoves, KillMoves DEF MovesDebt
  <2>3. PICK V, debt, share : DebtMoves(i, V, debt, share)
    BY <2>2
  <2>4. other = i /\ id # i
    BY <2>3 DEF DebtMoves
  <2> QED BY <1>1, <2>3, <2>4, OthersValue
<1> QED BY <1>1, Invariance, PTL DEF Spec, OthersDebtNeverFalls

\* Vault.sol work: the debt of the shares a position is given is worth no more
\* than the debt the work factor accepted.
LEMMA OwnValue ==
    ASSUME IInv, NEW id \in Ids, NEW V, NEW debt, NEW share, DebtMoves(id, V, debt, share),
           share > 0
    PROVE  /\ debtShareToVal(share, vaultDebtVal', vaultDebtShare') \in Nat
           /\ debtShareToVal(share, vaultDebtVal', vaultDebtShare') <= debt
           /\ debt > 0 /\ debt \in Nat
<1> DEFINE old == positions[id].debtShare
           V1 == DebtValLeft(old, V)
           S1 == DebtShareLeft(old)
           S2 == S1 + share
           V2 == V1 + debt
<1>1. /\ V \in Nat /\ debt \in Nat /\ share \in Nat /\ vaultDebtVal <= V
      /\ (vaultDebtVal = 0 => V = 0)
      /\ share = IF debt > 0 THEN debtValToShare(debt, V1, S1) ELSE 0
      /\ vaultDebtVal' = V2 /\ vaultDebtShare' = S2
  BY DEF DebtMoves
<1>2. /\ debtShareToVal(old, V, vaultDebtShare) \in 0..V
      /\ V1 = V - debtShareToVal(old, V, vaultDebtShare)
      /\ S1 \in Nat /\ S1 <= V1 /\ (S1 = 0 => V1 = 0)
  BY <1>1, RemoveDebtFacts
<1>3. V1 \in Nat /\ debt > 0
  BY <1>1, <1>2
<1>4. S2 \in Nat \ {0} /\ V2 \in Nat
  BY <1>1, <1>2, <1>3
<1>5. debtShareToVal(share, vaultDebtVal', vaultDebtShare') = (share * V2) \div S2
  BY <1>1, <1>4 DEF debtShareToVal
<1>6. share * V1 <= debt * S1 /\ share * V1 \in Int /\ debt * S1 \in Int
  <2> HIDE DEF V1, S1
  <2>1. CASE S1 = 0
    BY <2>1, <1>1, <1>2
  <2>2. CASE S1 # 0
    <3>1. V1 \in Nat \ {0}
      BY <2>2, <1>2
    <3>2. share = (debt * S1) \div V1 /\ debt * S1 \in Nat
      BY <2>2, <1>1, <1>2, <1>3 DEF debtValToShare
    <3>3. V1 * share <= debt * S1 /\ V1 * share = share * V1 /\ V1 * share \in Int
      BY <3>1, <3>2, <1>1, FloorBounds
    <3> QED BY <3>2, <3>3
  <2> QED BY <2>1, <2>2
<1>7. share * V2 <= debt * S2
  <2> HIDE DEF V1, S1
  <2>1. share * (V1 + debt) = share * V1 + share * debt
        /\ debt * (S1 + share) = debt * S1 + debt * share
        /\ share * debt = debt * share /\ share * debt \in Int
    BY <1>1, <1>2, <1>3, Distribute
  <2> QED BY <2>1, <1>6
<1>8. share * V2 \in Nat
  BY <1>1, <1>4
<1> HIDE DEF V2, S2
<1> DEFINE x == share * V2
           q == x \div S2
<1>9. q \in Nat /\ S2 * q <= x /\ x <= S2 * debt /\ x \in Nat
  <2>1. x \in Nat /\ x <= S2 * debt
    <3>1. debt * S2 = S2 * debt
      BY <1>1, <1>4
    <3> QED BY <3>1, <1>7, <1>8
  <2> HIDE DEF x
  <2> QED BY <2>1, <1>4, FloorBounds
<1>10. q <= debt
  <2> HIDE DEF q, x
  <2>1. S2 * q \in Int /\ S2 * debt \in Int
    BY <1>1, <1>4, <1>9
  <2>2. S2 * q <= S2 * debt
    BY <2>1, <1>9
  <2> QED BY <2>2, <1>1, <1>4, <1>9, MulCancel
<1> QED BY <1>1, <1>3, <1>5, <1>9, <1>10

\* Vault.sol work and kill: the position whose debt work has just accepted cannot
\* be killed in the state work leaves, when the kill factor is not below the work
\* factor.
THEOREM NeverKillableAfterWork == Spec => NotKillableAfterWork
<1> DEFINE A == \A id \in Ids :
                  /\ positions'[id].debtShare # positions[id].debtShare
                  /\ positions'[id].debtShare > 0
                  /\ config.worker[positions'[id].worker].workFactor
                       <= config.worker[positions'[id].worker].killFactor
                  => ~Killable(id, vaultDebtVal, vaultDebtShare)'
<1>1. ASSUME IInv, [Next]_vars PROVE [A]_vars
  <2> DEFINE conf(id) == config.worker[positions'[id].worker]
  <2> SUFFICES ASSUME Next, NEW id \in Ids,
                      positions'[id].debtShare # positions[id].debtShare,
                      positions'[id].debtShare > 0,
                      conf(id).workFactor <= conf(id).killFactor
               PROVE  ~Killable(id, vaultDebtVal, vaultDebtShare)'
    BY <1>1
  <2>1. MovesDebt
    BY <1>1, NextCases, PositionsStay
  <2>2. ASSUME NEW i \in Ids, NEW b \in Backs, NEW success \in BOOLEAN, kill(i, b, success)
        PROVE  FALSE
    <3>1. PICK V : DebtMoves(i, V, 0, 0)
      BY <1>1, <2>2, KillMoves
    <3>2. positions'[i].debtShare = 0 /\ \A j \in Ids : j # i => positions'[j] = positions[j]
      BY <3>1 DEF DebtMoves
    <3> QED BY <3>2
  <2>3. PICK i \in Ids : \E pos, p, l, m, b, h, success : Works(i, pos, p, l, m, b, h, success)
    BY <2>1, <2>2 DEF MovesDebt
  <2>4. PICK pos, p, l, m, b, h, success : Works(i, pos, p, l, m, b, h, success)
    BY <2>3
  <2>5. /\ config' = config /\ health'[i] = h /\ positions'[i].worker = pos.worker
        /\ \E V, debt, share :
              /\ DebtMoves(i, V, debt, share)
              /\ debt > 0 => WorkFactorMet(config.worker[pos.worker], h, debt)
    BY <1>1, <2>4, WorkMoves
  <2>6. PICK V, debt, share :
              /\ DebtMoves(i, V, debt, share)
              /\ debt > 0 => WorkFactorMet(config.worker[pos.worker], h, debt)
    BY <2>5
  <2>7. i = id /\ positions'[id].debtShare = share
    BY <2>6 DEF DebtMoves
  <2> DEFINE val == debtShareToVal(share, vaultDebtVal', vaultDebtShare')
             wf == config.worker[pos.worker].workFactor
             kf == config.worker[pos.worker].killFactor
  <2>8. val \in Nat /\ val <= debt /\ debt > 0 /\ debt \in Nat
    BY <1>1, <2>6, <2>7, OwnValue
  <2>9. h * wf >= debt * BPS /\ wf <= kf
    BY <2>5, <2>6, <2>7, <2>8 DEF WorkFactorMet
  <2>10. h \in Nat /\ wf \in Nat /\ kf \in Nat /\ BPS \in Nat
    BY <1>1, <2>4, ConfigAssumption, ScaleAssumption DEF Works, IInv, TypeOK
  <2>11. Killable(id, vaultDebtVal, vaultDebtShare)' <=> h * kf < val * BPS
    BY <2>5, <2>7 DEF Killable, debtShareToVal
  <2> HIDE DEF val, wf, kf
  <2>12. h * wf <= h * kf /\ h * wf \in Nat /\ h * kf \in Nat
    BY <2>9, <2>10, MulMono
  <2>13. BPS * val <= BPS * debt /\ BPS * val = val * BPS /\ BPS * debt = debt * BPS
         /\ BPS * val \in Nat /\ BPS * debt \in Nat
    BY <2>8, <2>10, MulMono
  <2> QED BY <2>9, <2>11, <2>12, <2>13
<1> QED BY <1>1, Invariance, PTL DEF Spec, NotKillableAfterWork

-----------------------------------------------------------------------------
(* The price of the ibToken, totalToken() / totalSupply(). *)

\* What a step may do to the price once no kill has recovered less than the debt.
PriceKept ==
    ~shortfall' =>
      totalToken(cash, vaultDebtVal, reservePool)' * totalSupply
        >= totalToken(cash, vaultDebtVal, reservePool) * totalSupply'

\* Minting m shares for a base tokens keeps the price when m is rounded down, and
\* the pool was accrued from T0 to T before.
LEMMA MintKeepsPrice ==
    ASSUME NEW T0 \in Nat, NEW T \in Nat, NEW N \in Nat, NEW a \in Nat, NEW m \in Nat,
           T0 <= T, T * m <= a * N
    PROVE  (T + a) * N >= T0 * (N + m)
<1>1. N * T0 <= N * T /\ N * T0 \in Nat /\ N * T \in Nat /\ N * T0 = T0 * N /\ N * T = T * N
  BY MulMono
<1>2. m * T0 <= m * T /\ m * T0 \in Nat /\ m * T \in Nat /\ m * T0 = T0 * m /\ m * T = T * m
  BY MulMono
<1>3. (T + a) * N = N * T + a * N /\ a * N \in Nat
  OBVIOUS
<1>4. T0 * (N + m) = T0 * N + T0 * m
  BY Distribute
<1> QED BY <1>1, <1>2, <1>3, <1>4

\* deposit mints rounded down.
LEMMA DepositPrice ==
    ASSUME IInv, NEW amount \in Deposits, deposit(amount)
    PROVE  PriceKept
<1> USE ScaleAssumption
<1> DEFINE V == AccruedDebtVal(amount)
           R == AccruedReserve(amount)
           total == totalToken(cash, V, R)
           share == MintedShare(amount, total)
           T0 == totalToken(cash, vaultDebtVal, reservePool)
           N == totalSupply
<1> SUFFICES ASSUME ~shortfall'
             PROVE  totalToken(cash, vaultDebtVal, reservePool)' * totalSupply
                      >= T0 * totalSupply'
  BY DEF PriceKept
<1>1. amount \in Nat /\ TypeOK
  BY AmountAssumption DEF IInv
<1>2. PICK interest \in Nat, toReserve \in Nat :
        /\ V = vaultDebtVal + interest /\ R = reservePool + toReserve
        /\ toReserve <= interest /\ (vaultDebtVal = 0 => interest = 0)
  BY <1>1, AccrueFacts
<1>3. /\ total >= 0 /\ reservePool' = R /\ vaultDebtVal' = V
      /\ totalSupply' = totalSupply + share /\ cash' = cash + amount /\ ~shortfall
  BY DEF deposit, Accrue
<1> HIDE DEF V, R
<1>4. /\ cash \in Nat /\ N \in Nat /\ reservePool \in Nat
      /\ vaultDebtVal \in Nat /\ V \in Nat /\ R \in Nat
  BY <1>1, <1>2 DEF TypeOK
<1>5. /\ total \in Nat /\ T0 \in Nat /\ T0 <= total /\ N <= T0
      /\ totalToken(cash, vaultDebtVal, reservePool)' = total + amount
  <2>1. N <= T0
    BY <1>3 DEF IInv, LendersWhole
  <2> QED BY <2>1, <1>1, <1>2, <1>3, <1>4 DEF totalToken
<1> HIDE DEF total, T0
<1>6. share \in Nat /\ total * share <= amount * N
  <2>1. CASE total = 0
    BY <2>1, <1>1, <1>4, <1>5 DEF MintedShare
  <2>2. CASE total # 0
    <3>1. share = (amount * N) \div total /\ amount * N \in Nat
      BY <2>2, <1>1, <1>4 DEF MintedShare
    <3> QED BY <3>1, <2>2, <1>5, FloorBounds
  <2> QED BY <2>1, <2>2
<1> HIDE DEF share
<1>7. (total + amount) * N >= T0 * (N + share)
  BY <1>1, <1>4, <1>5, <1>6, MintKeepsPrice
<1> QED BY <1>3, <1>5, <1>7

\* withdraw pays rounded down.
LEMMA WithdrawPrice ==
    ASSUME IInv, NEW share \in Shares, withdraw(share)
    PROVE  PriceKept
<1> USE ScaleAssumption
<1> DEFINE V == AccruedDebtVal(0)
           R == AccruedReserve(0)
           total == totalToken(cash, V, R)
           amount == RedeemedAmount(share, total)
           T0 == totalToken(cash, vaultDebtVal, reservePool)
           N == totalSupply
<1> SUFFICES ASSUME ~shortfall'
             PROVE  totalToken(cash, vaultDebtVal, reservePool)' * totalSupply
                      >= T0 * totalSupply'
  BY DEF PriceKept
<1>1. share \in Nat /\ TypeOK
  BY AmountAssumption DEF IInv
<1>2. PICK interest \in Nat, toReserve \in Nat :
        /\ V = vaultDebtVal + interest /\ R = reservePool + toReserve
        /\ toReserve <= interest /\ (vaultDebtVal = 0 => interest = 0)
  BY <1>1, AccrueFacts
<1>3. /\ totalSupply > 0 /\ share <= totalSupply /\ total >= 0
      /\ reservePool' = R /\ vaultDebtVal' = V
      /\ totalSupply' = totalSupply - share /\ cash' = cash - amount /\ ~shortfall
  BY DEF withdraw, Accrue
<1> HIDE DEF V, R
<1>4. /\ cash \in Nat /\ N \in Nat /\ reservePool \in Nat
      /\ vaultDebtVal \in Nat /\ V \in Nat /\ R \in Nat
  BY <1>1, <1>2 DEF TypeOK
<1>5. /\ total \in Nat /\ T0 \in Nat /\ T0 <= total /\ total = cash + V - R
  <2>1. N <= T0
    BY <1>3 DEF IInv, LendersWhole
  <2> QED BY <2>1, <1>1, <1>2, <1>3, <1>4 DEF totalToken
<1> HIDE DEF total, T0
<1>6. N \in Nat \ {0} /\ share \in 0..N /\ N - share \in Nat
  BY <1>1, <1>3, <1>4
<1>7. amount \in 0..total /\ (total - amount) * N >= total * (N - share)
  BY <1>5, <1>6, RemoveRounds DEF RedeemedAmount
<1> HIDE DEF amount
<1>8. totalToken(cash, vaultDebtVal, reservePool)' = total - amount
  BY <1>3, <1>4, <1>5, <1>7 DEF totalToken
<1>9. (N - share) * T0 <= (N - share) * total
  BY <1>5, <1>6, MulMono
<1>10. (N - share) * T0 = T0 * (N - share) /\ (N - share) * total = total * (N - share)
  BY <1>5, <1>6
<1>11. (total - amount) * N >= T0 * (N - share)
  <2>1. T0 * (N - share) \in Int /\ total * (N - share) \in Int /\ (total - amount) * N \in Int
    BY <1>5, <1>6, <1>7
  <2> QED BY <2>1, <1>7, <1>9, <1>10
<1> QED BY <1>3, <1>8, <1>11

\* Every other step mints no ibToken and does not lower the pool's worth.
LEMMA OtherPrice ==
    ASSUME IInv, MovesDebt \/ Settings
    PROVE  LendersKeep
<1>1. /\ cash \in Nat /\ totalSupply \in Nat /\ reservePool \in Nat /\ vaultDebtVal \in Nat
  BY DEF IInv, TypeOK
<1>2. CASE MovesDebt
  BY <1>2, WorkMoves, KillMoves DEF MovesDebt
<1>3. ASSUME NEW v \in Values, withdrawReserve(v) \/ reduceReserve(v) \/ Donate(v)
      PROVE  LendersKeep
  <2>1. v \in Nat
    BY AmountAssumption
  <2> QED BY <1>1, <1>3, <2>1 DEF LendersKeep, totalToken, withdrawReserve, reduceReserve, Donate
<1>4. ASSUME books' = books, shortfall' = shortfall
      PROVE  LendersKeep
  BY <1>1, <1>4 DEF LendersKeep, totalToken, books
<1>5. CASE Settings
  <2>1. ASSUME \/ \E c \in Configs : updateConfig(c)
               \/ \E t \in DebtTokens, pid \in Pools \cup {NoPool} : updateDebtToken(t, pid)
               \/ \E pid \in Pools \cup {NoPool} : setFairLaunchPoolId(pid)
               \/ Tick
               \/ \E id \in Ids, h \in HealthLevels : MarketMove(id, h)
        PROVE  books' = books /\ shortfall' = shortfall
    BY <2>1, Zenon DEF updateConfig, updateDebtToken, setFairLaunchPoolId, Tick, MarketMove
  <2> QED BY <1>3, <1>4, <1>5, <2>1 DEF Settings
<1> QED BY <1>2, <1>5

\* Vault.sol deposit, withdraw, work, kill: until a kill recovers less than the debt,
\* no step lowers the price of the ibToken, whatever is rounded.
THEOREM LenderPriceKept == Spec => LenderPriceNeverFalls
<1>1. ASSUME IInv, [Next]_vars PROVE [PriceKept]_vars
  <2> SUFFICES ASSUME Next PROVE PriceKept
    BY <1>1
  <2>1. CASE Pays
    BY <1>1, <2>1, DepositPrice, WithdrawPrice DEF Pays
  <2>2. CASE MovesDebt \/ Settings
    <3> SUFFICES ASSUME ~shortfall'
                 PROVE  totalToken(cash, vaultDebtVal, reservePool)' * totalSupply
                          >= totalToken(cash, vaultDebtVal, reservePool) * totalSupply'
      BY DEF PriceKept
    <3> DEFINE T0 == totalToken(cash, vaultDebtVal, reservePool)
               T1 == totalToken(cash, vaultDebtVal, reservePool)'
    <3>1. ~shortfall /\ totalSupply' = totalSupply /\ T1 >= T0
      BY <1>1, <2>2, OtherPrice DEF LendersKeep
    <3>2. totalSupply \in Nat /\ T0 \in Int
      BY <1>1 DEF IInv, TypeOK, totalToken
    <3>3. T1 \in Int
      <4>1. IInv'
        BY <1>1, InvNext
      <4> QED BY <4>1 DEF IInv, TypeOK, totalToken
    <3>4. totalSupply <= T0
      BY <1>1, <3>1 DEF IInv, LendersWhole
    <3> HIDE DEF T0, T1
    <3>5. T0 \in Nat /\ T1 \in Nat /\ T0 <= T1
      BY <3>1, <3>2, <3>3, <3>4
    <3>6. totalSupply * T0 <= totalSupply * T1
      BY <3>2, <3>5, MulMono
    <3>7. T1 * totalSupply >= T0 * totalSupply
      BY <3>2, <3>5, <3>6
    <3> QED BY <3>1, <3>7 DEF T0, T1
  <2> QED BY <1>1, <2>1, <2>2, NextCases
<1> QED BY <1>1, Invariance, PTL DEF Spec, LenderPriceNeverFalls, PriceKept

-----------------------------------------------------------------------------
(* The debt tokens farmers have staked in FairLaunch. *)

\* What farmer u has staked, by pool, and owes, by position.
StakedBy(u) == [p \in Pools |-> staked[p][u]]
OwedBy(u) == [id \in Ids |->
                IF positions[id].owner = u THEN positions[id].debtShare ELSE 0]

\* StakeCoversDebt with the sums taken over the same set in every state.
Covers(u) == SumFunctionOnSet(OwedBy(u), Ids) <= SumFunctionOnSet(StakedBy(u), Pools)

\* The debt shares of u's positions are the terms of OwedBy that are not zero.
LEMMA OwedIsSum ==
    ASSUME TypeOK, NEW u
    PROVE  SumFunctionOnSet(debtShares, {id \in Ids : positions[id].owner = u})
             = SumFunctionOnSet(OwedBy(u), Ids)
<1> DEFINE S == {id \in Ids : positions[id].owner = u}
           f == debtShares
           g == OwedBy(u)
<1>1. IsFiniteSet(Ids) /\ S \subseteq Ids
  BY FS_Interval, ScaleAssumption DEF Ids
<1>2. \A x \in S : f[x] \in Int /\ g[x] = f[x]
  BY DEF TypeOK, Position, debtShares, OwedBy
<1>3. \A x \in Ids : x \notin S => g[x] = 0
  BY DEF OwedBy
<1> HIDE DEF S, f, g
<1>4. SumFunctionOnSet(g, Ids) = SumFunctionOnSet(f, S)
  BY <1>1, <1>2, <1>3, SumExtend
<1> QED BY <1>4 DEF S, f, g

\* The invariant says of every farmer that the stakes cover the debt.
LEMMA CoversAll ==
    ASSUME TypeOK
    PROVE  StakeCoversDebt <=> \A u \in Users : Covers(u)
<1>1. ASSUME NEW u \in Users
      PROVE  /\ SumFunctionOnSet(OwedBy(u), Ids) \in Int
             /\ SumFunctionOnSet(StakedBy(u), Pools) \in Int
  <2> DEFINE f == OwedBy(u)
             g == StakedBy(u)
  <2>1. IsFiniteSet(Ids) /\ IsFiniteSet(Pools)
    BY FS_Interval, ScaleAssumption, AddressAssumption DEF Ids
  <2>2. NatOn(f, Ids) /\ NatOn(g, Pools)
    BY DEF TypeOK, Position, OwedBy, StakedBy, NatOn
  <2> HIDE DEF f, g
  <2>3. SumFunctionOnSet(f, Ids) \in Nat /\ SumFunctionOnSet(g, Pools) \in Nat
    BY <2>1, <2>2, SumOfNats
  <2> QED BY <2>3 DEF f, g
<1>2. ASSUME NEW u \in Users
      PROVE  Covers(u) <=>
               SumFunctionOnSet([p \in Pools |-> staked[p][u]], Pools)
                 >= SumFunctionOnSet(debtShares, {id \in Ids : positions[id].owner = u})
  BY <1>1, OwedIsSum DEF Covers, StakedBy
<1> QED BY <1>2 DEF StakeCoversDebt

\* A step on position id of farmer o: of the position's old share d is withdrawn from
\* the current pool, and the new share staked there.
StakeMoves(id, o, old, share, d) ==
    /\ id \in Ids /\ o \in Users /\ fairLaunchPoolId \in Pools
    /\ old \in Nat /\ share \in Nat /\ d \in Nat /\ d <= old
    /\ positions[id].debtShare = old /\ (positions[id].owner = o \/ old = 0)
    /\ positions'[id].debtShare = share /\ positions'[id].owner = o
    /\ \A i \in Ids : i # id => positions'[i] = positions[i]
    /\ staked'[fairLaunchPoolId][o] = staked[fairLaunchPoolId][o] - d + share
    /\ \A p \in Pools, u \in Users :
          ~(p = fairLaunchPoolId /\ u = o) => staked'[p][u] = staked[p][u]

\* work stakes in this way,
LEMMA WorkStakes ==
    ASSUME IInv, NEW id \in Ids, NEW pos, NEW principal, NEW loan, NEW maxReturn, NEW back,
           NEW h, NEW success, Works(id, pos, principal, loan, maxReturn, back, h, success)
    PROVE  \E o, old, share, d : StakeMoves(id, o, old, share, d)
<1> DEFINE o == pos.owner
           old == pos.debtShare
           pid == fairLaunchPoolId
           d == IF success THEN old ELSE 0
<1>1. /\ pos \in [worker : Workers, owner : Users, debtShare : Nat]
      /\ old = positions[id].debtShare /\ (positions[id].owner = o \/ old = 0)
      /\ success \in BOOLEAN
  BY DEF Works
<1>2. PICK V, debt, share : DebtMoves(id, V, debt, share)
  BY WorkMoves
<1>3. /\ positions'[id].owner = o /\ positions'[id].debtShare = share /\ share \in Nat
      /\ \A i \in Ids : i # id => positions'[i] = positions[i]
  BY <1>2, WorkMoves DEF DebtMoves
<1>4. PICK s : /\ positions' = [positions EXCEPT ![id] = [pos EXCEPT !.debtShare = s]]
               /\ staked' = fairLaunchDeposit(o, s, fairLaunchWithdraw(o, old, success))
  BY Zenon DEF Works, workOn
<1>5. s = share
  BY <1>1, <1>3, <1>4 DEF IInv, TypeOK
<1>6. pid \in Pools /\ staked \in [Pools -> [Users -> Nat]]
  BY DEF IInv, TypeOK, Works, workOn
<1>7. /\ staked'[pid][o] = staked[pid][o] - d + share
      /\ \A p \in Pools, u \in Users : ~(p = pid /\ u = o) => staked'[p][u] = staked[p][u]
  BY <1>1, <1>3, <1>4, <1>5, <1>6 DEF fairLaunchDeposit, fairLaunchWithdraw
<1>8. o \in Users /\ old \in Nat /\ d \in Nat /\ d <= old
  BY <1>1
<1>9. StakeMoves(id, o, old, share, d)
  BY <1>1, <1>3, <1>6, <1>7, <1>8 DEF StakeMoves
<1> QED BY <1>9

\* and so does kill.
LEMMA KillStakes ==
    ASSUME IInv, NEW id \in Ids, NEW back \in Backs, NEW success \in BOOLEAN,
           kill(id, back, success)
    PROVE  \E o, old, share, d : StakeMoves(id, o, old, share, d)
<1> DEFINE o == positions[id].owner
           old == positions[id].debtShare
           pid == fairLaunchPoolId
           d == IF success THEN old ELSE 0
<1>1. /\ pid # NoPool /\ old > 0
      /\ positions' = [positions EXCEPT ![id].debtShare = 0]
      /\ staked' = fairLaunchWithdraw(o, old, success)
  BY DEF kill
<1>2. /\ pid \in Pools /\ staked \in [Pools -> [Users -> Nat]] /\ old \in Nat
      /\ positions \in [Ids -> Position]
  BY <1>1 DEF IInv, TypeOK, Position
<1>3. o \in Users
  BY <1>1, <1>2 DEF IInv, PositionsWellFormed
<1>4. /\ positions'[id].owner = o /\ positions'[id].debtShare = 0
      /\ \A i \in Ids : i # id => positions'[i] = positions[i]
  BY <1>1, <1>2 DEF Position
<1>5. /\ staked'[pid][o] = staked[pid][o] - d + 0
      /\ \A p \in Pools, u \in Users : ~(p = pid /\ u = o) => staked'[p][u] = staked[p][u]
  BY <1>1, <1>2, <1>3 DEF fairLaunchWithdraw
<1>6. d \in Nat /\ d <= old
  BY <1>2
<1>7. StakeMoves(id, o, old, 0, d)
  BY <1>2, <1>3, <1>4, <1>5, <1>6 DEF StakeMoves
<1> QED BY <1>7

\* Both keep every farmer's stakes above the debt.
LEMMA StakeKept ==
    ASSUME TypeOK, TypeOK', NEW id, NEW o, NEW old, NEW share, NEW d,
           StakeMoves(id, o, old, share, d), NEW u \in Users, Covers(u)
    PROVE  Covers(u)'
<1> DEFINE f == OwedBy(u)
           f1 == OwedBy(u)'
           g == StakedBy(u)
           g1 == StakedBy(u)'
           pid == fairLaunchPoolId
<1>1. /\ IsFiniteSet(Ids) /\ IsFiniteSet(Pools) /\ id \in Ids /\ pid \in Pools
      /\ old \in Nat /\ share \in Nat /\ d \in Nat /\ d <= old
  BY FS_Interval, ScaleAssumption, AddressAssumption DEF Ids, StakeMoves
<1>2. /\ \A i \in Ids : f[i] = IF positions[i].owner = u THEN positions[i].debtShare ELSE 0
      /\ \A i \in Ids : f1[i] = IF positions'[i].owner = u THEN positions'[i].debtShare ELSE 0
      /\ \A p \in Pools : g[p] = staked[p][u]
      /\ \A p \in Pools : g1[p] = staked'[p][u]
  BY DEF OwedBy, StakedBy
<1>3. /\ SumFunctionOnSet(f, Ids) <= SumFunctionOnSet(g, Pools)
      /\ Covers(u)' <=> SumFunctionOnSet(f1, Ids) <= SumFunctionOnSet(g1, Pools)
  BY DEF Covers
<1> HIDE DEF f, f1, g, g1
<1>4. /\ \A i \in Ids : f[i] \in Int /\ f1[i] \in Int
      /\ \A p \in Pools : g[p] \in Int /\ g1[p] \in Int
  BY <1>2 DEF TypeOK, Position
<1>5. /\ \A i \in Ids : i # id => f1[i] = f[i]
      /\ \A p \in Pools : p # pid => g1[p] = g[p]
  BY <1>2 DEF StakeMoves
<1>6. g1[pid] - g[pid] >= f1[id] - f[id]
  <2>1. CASE u = o
    <3>1. f[id] = old /\ f1[id] = share
      BY <2>1, <1>1, <1>2 DEF StakeMoves
    <3>2. g1[pid] = g[pid] - d + share
      BY <2>1, <1>1, <1>2 DEF StakeMoves
    <3> QED BY <3>1, <3>2, <1>1, <1>4
  <2>2. CASE u # o
    <3>1. f[id] = 0 /\ f1[id] = 0
      BY <2>2, <1>1, <1>2 DEF StakeMoves
    <3>2. g1[pid] = g[pid]
      BY <2>2, <1>1, <1>2 DEF StakeMoves
    <3> QED BY <3>1, <3>2, <1>1, <1>4
  <2> QED BY <2>1, <2>2
<1>7. Differ(f, f1, Ids, id) /\ Differ(g, g1, Pools, pid)
  BY <1>4, <1>5 DEF Differ
<1>8. /\ SumFunctionOnSet(f, Ids) \in Int
      /\ SumFunctionOnSet(f1, Ids) = SumFunctionOnSet(f, Ids) - f[id] + f1[id]
  BY <1>1, <1>7, SumChange
<1>9. /\ SumFunctionOnSet(g, Pools) \in Int
      /\ SumFunctionOnSet(g1, Pools) = SumFunctionOnSet(g, Pools) - g[pid] + g1[pid]
  BY <1>1, <1>7, SumChange
<1>10. f[id] \in Int /\ f1[id] \in Int /\ g[pid] \in Int /\ g1[pid] \in Int
  BY <1>1, <1>4
<1>11. SumFunctionOnSet(f1, Ids) <= SumFunctionOnSet(g1, Pools)
  BY <1>3, <1>6, <1>8, <1>9, <1>10
<1> QED BY <1>3, <1>11

\* Vault.sol _fairLaunchDeposit and _fairLaunchWithdraw: whatever FairLaunch calls
\* failed and whichever pool was current, a farmer's stakes cover the farmer's debt.
THEOREM StakeAlwaysCoversDebt == Spec => []StakeCoversDebt
<1> DEFINE Inv == IInv /\ \A u \in Users : Covers(u)
<1>1. Init => Inv
  <2> SUFFICES ASSUME Init PROVE \A u \in Users : Covers(u)
    BY InvInit
  <2> SUFFICES ASSUME NEW u \in Users PROVE Covers(u)
    OBVIOUS
  <2> DEFINE f == OwedBy(u)
             g == StakedBy(u)
  <2>1. IsFiniteSet(Ids) /\ IsFiniteSet(Pools)
    BY FS_Interval, ScaleAssumption, AddressAssumption DEF Ids
  <2>2. (\A i \in Ids : f[i] = 0) /\ (\A p \in Pools : g[p] = 0)
    BY DEF Init, OwedBy, StakedBy
  <2>3. Covers(u) <=> SumFunctionOnSet(f, Ids) <= SumFunctionOnSet(g, Pools)
    BY DEF Covers
  <2> HIDE DEF f, g
  <2>4. SumFunctionOnSet(f, Ids) = 0 /\ SumFunctionOnSet(g, Pools) = 0
    BY <2>1, <2>2, SumOfZeros
  <2> QED BY <2>3, <2>4
<1>2. ASSUME Inv, [Next]_vars PROVE Inv'
  <2>1. IInv'
    BY <1>2, InvNext
  <2>2. ASSUME positions' = positions, staked' = staked, NEW u \in Users
        PROVE  Covers(u)'
    BY <1>2, <2>2 DEF Covers, OwedBy, StakedBy
  <2>3. ASSUME MovesDebt, NEW u \in Users PROVE Covers(u)'
    <3>1. \E id, o, old, share, d : StakeMoves(id, o, old, share, d)
      BY <1>2, <2>3, WorkStakes, KillStakes DEF MovesDebt
    <3>2. PICK id, o, old, share, d : StakeMoves(id, o, old, share, d)
      BY <3>1
    <3>3. TypeOK /\ TypeOK' /\ Covers(u)
      BY <1>2, <2>1 DEF IInv
    <3> QED BY <3>2, <3>3, StakeKept
  <2>4. CASE UNCHANGED vars
    BY <2>1, <2>2, <2>4 DEF vars, farm
  <2>5. CASE Next
    BY <1>2, <2>1, <2>2, <2>3, <2>5, NextCases, PositionsStay
  <2> QED BY <1>2, <2>4, <2>5
<1>3. Inv => StakeCoversDebt
  BY CoversAll DEF IInv
<1> QED BY <1>1, <1>2, <1>3, PTL DEF Spec
=============================================================================
