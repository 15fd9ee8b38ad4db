------------------------ MODULE CakeMaxiWorkerProofs ------------------------
(***************************************************************************)
(* Proofs about CakeMaxiWorker, for all constants of MaxiAssumption.       *)
(***************************************************************************)
EXTENDS CakeMaxiWorker, LedgerMathProofs

Pair == [base : Nat \ {0}, farm : Nat \ {0}]
Purse == [base : Nat, farm : Nat]
Wallet == [ok : BOOLEAN, pair : Pair, has : Purse]
-----------------------------------------------------------------------------
(* What the strategies do to the pair and to the tokens they are given. *)

\* getAmountOut never takes the whole reserve.
LEMMA AmountOutBelow ==
    ASSUME NEW a \in Nat, NEW rIn \in Nat \ {0}, NEW rOut \in Nat \ {0}
    PROVE  getAmountOut(a, rIn, rOut) \in 0..(rOut - 1)
<1> USE FeeAssumption
<1> DEFINE x == a * fee
           D == rIn * feeDenom + x
<1>1. x \in Nat /\ rIn * feeDenom \in Nat \ {0}
  OBVIOUS
<1>2. D \in Nat \ {0} /\ x < D
  BY <1>1
<1>3. getAmountOut(a, rIn, rOut) = (x * rOut) \div D
  BY DEF getAmountOut
<1> HIDE DEF x, D
<1> QED BY <1>1, <1>2, <1>3, PartBelow

\* A swap that does not pay out a whole reserve leaves both reserves positive, and
\* the caller with no less of the token bought.
LEMMA SwapSound ==
    ASSUME NEW w \in Wallet, NEW in \in Tokens, NEW out \in Tokens, in # out,
           NEW amountIn \in Nat, NEW amountOut \in Nat, amountOut < w.pair[out]
    PROVE  /\ Swap(w, in, out, amountIn, amountOut) \in Wallet
           /\ Swap(w, in, out, amountIn, amountOut).has[out] >= w.has[out]
<1> DEFINE v == Swap(w, in, out, amountIn, amountOut)
<1>1. CASE ~(amountIn <= w.has[in] /\ amountOut > 0)
  <2>1. v = [w EXCEPT !.ok = FALSE]
    BY <1>1 DEF Swap, Reverted
  <2>2. v \in Wallet /\ v.has = w.has /\ w.has[out] \in Nat
    BY <2>1 DEF Wallet, Purse, Tokens
  <2> QED BY <2>2
<1>2. CASE amountIn <= w.has[in] /\ amountOut > 0
  <2>1. v = [w EXCEPT !.has[in] = @ - amountIn, !.has[out] = @ + amountOut,
                   !.pair[in] = @ + amountIn, !.pair[out] = @ - amountOut]
    BY <1>2 DEF Swap
  <2> HIDE DEF v
  <2>2. /\ w.pair \in Pair /\ w.has \in Purse
        /\ (in = "base" /\ out = "farm") \/ (in = "farm" /\ out = "base")
    BY DEF Wallet, Tokens
  <2> DEFINE h == [w.has EXCEPT ![in] = @ - amountIn, ![out] = @ + amountOut]
             p == [w.pair EXCEPT ![in] = @ + amountIn, ![out] = @ - amountOut]
  <2>3. v = [ok |-> w.ok, pair |-> p, has |-> h]
    BY <2>1, <2>2 DEF Wallet, Tokens
  <2>4. h \in Purse /\ h[out] >= w.has[out]
    BY <1>2, <2>2 DEF Purse
  <2>5. p \in Pair
    BY <1>2, <2>2 DEF Pair
  <2> HIDE DEF h, p
  <2> QED BY <2>2, <2>3, <2>4, <2>5 DEF Wallet, v
<1> QED BY <1>1, <1>2

\* swapExactTokensForTokens.
LEMMA SellSound ==
    ASSUME NEW w \in Wallet, NEW in \in Tokens, NEW out \in Tokens, in # out,
           NEW amountIn \in Int
    PROVE  /\ swapExactTokensForTokens(w, in, out, amountIn) \in Wallet
           /\ swapExactTokensForTokens(w, in, out, amountIn).has[out] >= w.has[out]
<1> DEFINE v == swapExactTokensForTokens(w, in, out, amountIn)
<1>1. CASE ~(w.ok /\ HasReserves(w) /\ amountIn > 0)
  <2>1. v = [w EXCEPT !.ok = FALSE]
    BY <1>1 DEF swapExactTokensForTokens, Reverted
  <2> HIDE DEF v
  <2>2. v \in Wallet /\ v.has = w.has /\ w.has[out] \in Nat
    BY <2>1 DEF Wallet, Purse, Tokens
  <2> QED BY <2>2 DEF v
<1>2. CASE w.ok /\ HasReserves(w) /\ amountIn > 0
  <2> DEFINE a == getAmountOut(amountIn, w.pair[in], w.pair[out])
  <2>1. amountIn \in Nat /\ w.pair[in] \in Nat \ {0} /\ w.pair[out] \in Nat \ {0}
    BY <1>2 DEF Wallet, Pair, Tokens
  <2>2. a \in 0..(w.pair[out] - 1)
    BY <2>1, AmountOutBelow
  <2>3. v = Swap(w, in, out, amountIn, a)
    BY <1>2 DEF swapExactTokensForTokens
  <2> HIDE DEF a, v
  <2>4. a \in Nat /\ a < w.pair[out]
    BY <2>1, <2>2
  <2> QED BY <2>1, <2>3, <2>4, SwapSound DEF v
<1> QED BY <1>1, <1>2

\* swapTokensForExactTokens.
LEMMA BuySound ==
    ASSUME NEW w \in Wallet, NEW in \in Tokens, NEW out \in Tokens, in # out,
           NEW amountOut \in Int
    PROVE  swapTokensForExactTokens(w, in, out, amountOut) \in Wallet
<1>1. CASE ~(w.ok /\ HasReserves(w) /\ amountOut > 0 /\ amountOut < w.pair[out])
  BY <1>1 DEF swapTokensForExactTokens, Reverted, Wallet
<1>2. CASE w.ok /\ HasReserves(w) /\ amountOut > 0 /\ amountOut < w.pair[out]
  <2> DEFINE a == getAmountIn(amountOut, w.pair[in], w.pair[out])
  <2>1. amountOut \in Nat /\ w.pair[in] \in Nat /\ w.pair[out] \in Nat
    BY <1>2 DEF Wallet, Pair, Tokens
  <2>2. a \in Nat
    <3>1. w.pair[in] * amountOut * feeDenom \in Nat
      BY <2>1, FeeAssumption
    <3>2. (w.pair[out] - amountOut) * fee \in Nat \ {0}
      BY <1>2, <2>1, FeeAssumption
    <3> QED BY <3>1, <3>2, FloorBounds DEF getAmountIn
  <2> HIDE DEF a
  <2>3. Swap(w, in, out, a, amountOut) \in Wallet
    BY <1>2, <2>1, <2>2, SwapSound
  <2> QED BY <1>2, <2>3 DEF swapTokensForExactTokens, a
<1> QED BY <1>1, <1>2

\* A strategy given amount farming tokens returns none, or no fewer.
Returns(r, amount) ==
    r.pair \in Pair /\ r.farm \in Nat /\ (r.farm = 0 \/ r.farm >= amount)

\* Adding base tokens buys farming tokens on top of those the strategy was given.
LEMMA AddBaseReturns ==
    ASSUME NEW w \in Wallet PROVE Returns(AddBaseTokenOnly(w), w.has.farm)
<1> DEFINE s == swapExactTokensForTokens(w, "base", "farm", w.has.base)
<1>1. w.has.base \in Int /\ w.has.farm \in Nat
  BY DEF Wallet, Purse
<1>2. s \in Wallet /\ s.has["farm"] >= w.has["farm"]
  BY <1>1, SellSound DEF Tokens
<1> HIDE DEF s
<1>3. s.pair \in Pair /\ s.has.farm \in Nat /\ s.has.farm >= w.has.farm
  BY <1>2 DEF Wallet, Purse
<1>4. AddBaseTokenOnly(w) = [ok |-> s.ok, pair |-> s.pair, base |-> 0, farm |-> s.has.farm]
  BY DEF AddBaseTokenOnly, Back, s
<1> QED BY <1>1, <1>3, <1>4 DEF Returns

\* Liquidation sells everything and returns no farming tokens.
LEMMA LiquidateReturns ==
    ASSUME NEW w \in Wallet, NEW amount \in Nat PROVE Returns(Liquidate(w), amount)
<1> DEFINE s == swapExactTokensForTokens(w, "farm", "base", w.has.farm)
<1>1. w.has.farm \in Int
  BY DEF Wallet, Purse
<1>2. s \in Wallet
  BY <1>1, SellSound DEF Tokens
<1> HIDE DEF s
<1>3. s.pair \in Pair
  BY <1>2 DEF Wallet
<1>4. Liquidate(w) = [ok |-> s.ok, pair |-> s.pair, base |-> s.has.base, farm |-> 0]
  BY DEF Liquidate, Back, s
<1> QED BY <1>3, <1>4 DEF Returns

\* Withdrawal buys the debt and sends the rest to the owner: nothing goes back.
LEMMA WithdrawReturns ==
    ASSUME NEW w \in Wallet, NEW amount \in Nat, NEW debt \in Nat
    PROVE  Returns(WithdrawMinimizeTrading(w, debt), amount)
<1> DEFINE s == swapTokensForExactTokens(w, "farm", "base", debt)
<1>1. s \in Wallet
  BY BuySound DEF Tokens
<1> HIDE DEF s
<1>2. s.pair \in Pair
  BY <1>1 DEF Wallet
<1>3. WithdrawMinimizeTrading(w, debt)
        = [ok |-> s.ok, pair |-> s.pair, base |-> s.has.base, farm |-> 0]
  BY DEF WithdrawMinimizeTrading, Back, s
<1> QED BY <1>2, <1>3 DEF Returns
-----------------------------------------------------------------------------
(* The inductive invariant: the shares add up, the pair is never emptied, and *)
(* the rewards are apart.                                                      *)

FarmingOK ==
    /\ shares \in [Ids -> Nat] /\ totalShare = SumFunctionOnSet(shares, Ids)
    /\ staked \in Nat

RewardsOK ==
    /\ rewardBalance \in Nat /\ farming \in Nat /\ pendingCake \in Nat
    /\ unpaid \in Int /\ RewardsSetApart

MarketOK ==
    /\ pair \in Pair
    /\ reinvestBountyBps \in Nat /\ beneficialVaultBountyBps \in Nat

IInv == FarmingOK /\ RewardsOK /\ MarketOK

\* _removeShare: the balance is part of the stake, and the price of a share does
\* not fall.
LEMMA RemoveShareFacts ==
    ASSUME FarmingOK, NEW id \in Ids
    PROVE  /\ totalShare \in Nat /\ shares[id] \in 0..totalShare
           /\ balanceOf(id) \in 0..staked
           /\ TotalShareLeft(id) \in Nat /\ TotalShareLeft(id) = totalShare - shares[id]
           /\ StakeLeft(id) \in Nat /\ StakeLeft(id) = staked - balanceOf(id)
           /\ staked * TotalShareLeft(id) <= StakeLeft(id) * totalShare
           /\ shares[id] = totalShare /\ totalShare > 0 => balanceOf(id) = staked
<1>1. /\ IsFiniteSet(Ids) /\ NatOn(shares, Ids) /\ staked \in Nat
      /\ totalShare = SumFunctionOnSet(shares, Ids)
      /\ shares[id] \in Nat
  BY MaxiAssumption DEF FarmingOK, NatOn
<1>2. shares[id] \in 0..totalShare /\ totalShare \in Nat
  <2>1. /\ SumFunctionOnSet(shares, Ids) \in Nat
        /\ \A x \in Ids : shares[x] <= SumFunctionOnSet(shares, Ids)
    BY <1>1, SumOfNats
  <2> QED BY <1>1, <2>1
<1>3. CASE totalShare = 0
  <2>1. shares[id] = 0 /\ balanceOf(id) = 0
    BY <1>2, <1>3 DEF balanceOf, shareToBalance
  <2> QED BY <1>1, <1>3, <2>1 DEF TotalShareLeft, StakeLeft
<1>4. CASE totalShare # 0
  <2> DEFINE q == (shares[id] * staked) \div totalShare
  <2>1. totalShare \in Nat \ {0}
    BY <1>2, <1>4
  <2>2. /\ q \in 0..staked /\ (staked - q) * totalShare >= staked * (totalShare - shares[id])
        /\ shares[id] = totalShare => q = staked
    BY <1>1, <1>2, <2>1, RemoveRounds
  <2>3. balanceOf(id) = q
    BY <1>4 DEF balanceOf, shareToBalance
  <2> HIDE DEF q
  <2>4. TotalShareLeft(id) = totalShare - shares[id] /\ StakeLeft(id) = staked - q
    BY <2>3 DEF TotalShareLeft, StakeLeft
  <2>5. (staked - q) * totalShare \in Int /\ staked * (totalShare - shares[id]) \in Int
    BY <1>1, <1>2, <2>2
  <2> QED BY <1>1, <1>2, <2>2, <2>3, <2>4, <2>5
<1> QED BY <1>3, <1>4

\* What remains to be passed to a strategy is what belongs to the position, with
\* gifts, and none of the rewards.
LEMMA ActualCoversBalance ==
    ASSUME IInv, NEW id \in Ids
    PROVE  /\ actualFarmingTokenBalance(id) \in Nat
           /\ actualFarmingTokenBalance(id) >= balanceOf(id)
<1>1. /\ rewardBalance \in Nat /\ farming \in Nat /\ pendingCake \in Nat
      /\ rewardBalance <= farming
  BY DEF IInv, RewardsOK, RewardsSetApart
<1>2. balanceOf(id) \in Nat
  <2>1. balanceOf(id) \in 0..staked
    BY RemoveShareFacts DEF IInv
  <2> QED BY <2>1
<1>3. actualFarmingTokenBalance(id) = (farming - rewardBalance) + balanceOf(id)
  BY <1>1, <1>2 DEF actualFarmingTokenBalance, FarmingAfterLeave, RewardsAfterLeave
<1> QED BY <1>1, <1>2, <1>3

\* The strategies work calls.
LEMMA ExecutionsReturn ==
    ASSUME IInv, NEW id \in Ids, NEW strat \in AllStrategies,
           NEW base \in BaseAmounts, NEW debt \in Debts,
           NEW r \in Executions(strat, id, base, debt)
    PROVE  Returns(r, balanceOf(id))
<1> DEFINE a == actualFarmingTokenBalance(id)
           w == [ok |-> TRUE, pair |-> pair, has |-> [base |-> base, farm |-> a]]
<1>1. a \in Nat /\ a >= balanceOf(id) /\ balanceOf(id) \in Nat
  <2>1. balanceOf(id) \in 0..staked
    BY RemoveShareFacts DEF IInv
  <2> QED BY <2>1, ActualCoversBalance
<1> HIDE DEF a
<1>2. base \in Nat /\ debt \in Nat /\ pair \in Pair
  BY MaxiAssumption DEF IInv, MarketOK
<1>3. w \in Wallet /\ w.has.farm = a
  BY <1>1, <1>2 DEF Wallet, Purse
<1>4. r \in CASE strat = "AddBaseTokenOnly" -> {AddBaseTokenOnly(w)}
          [] strat = "AddBaseWithFarm" -> {AddBaseWithFarm(w, amount) : amount \in FarmAmounts}
          [] strat = "Liquidate" -> {Liquidate(w)}
          [] strat = "WithdrawMinimizeTrading" -> {WithdrawMinimizeTrading(w, debt)}
  BY DEF Executions, a
<1> HIDE DEF w
<1>5. \/ r = AddBaseTokenOnly(w)
      \/ \E amount \in FarmAmounts : r = AddBaseWithFarm(w, amount)
      \/ r = Liquidate(w)
      \/ r = WithdrawMinimizeTrading(w, debt)
  BY <1>4 DEF AllStrategies
<1>6. CASE r = AddBaseTokenOnly(w)
  <2>1. Returns(r, a)
    BY <1>3, <1>6, AddBaseReturns
  <2> QED BY <2>1, <1>1 DEF Returns
<1>7. ASSUME NEW amount \in FarmAmounts, r = AddBaseWithFarm(w, amount)
      PROVE  Returns(r, balanceOf(id))
  <2> DEFINE u == [w EXCEPT !.has.farm = @ + amount]
  <2>1. amount \in Nat
    BY MaxiAssumption
  <2>2. u \in Wallet /\ u.has.farm = a + amount
    BY <1>1, <1>3, <2>1 DEF Wallet, Purse
  <2>3. r = AddBaseTokenOnly(u)
    BY <1>7 DEF AddBaseWithFarm
  <2> HIDE DEF u
  <2>4. Returns(r, a + amount)
    BY <2>2, <2>3, AddBaseReturns
  <2> QED BY <2>1, <2>4, <1>1 DEF Returns
<1>8. CASE r = Liquidate(w)
  BY <1>1, <1>3, <1>8, LiquidateReturns
<1>9. CASE r = WithdrawMinimizeTrading(w, debt)
  BY <1>1, <1>2, <1>3, <1>9, WithdrawReturns
<1> QED BY <1>5, <1>6, <1>7, <1>8, <1>9
-----------------------------------------------------------------------------
(* The steps. *)

\* A call that takes id's shares away and credits it for balance farming tokens.
Credited(id, balance) ==
    IF balance = 0 THEN 0 ELSE balanceToShare(balance, TotalShareLeft(id), StakeLeft(id))

ShareMoves(id, balance) ==
    /\ id \in Ids /\ balance \in Nat /\ (balance = 0 \/ balance >= balanceOf(id))
    /\ balance > 0 /\ TotalShareLeft(id) > 0 => StakeLeft(id) > 0
    /\ shares' = [shares EXCEPT ![id] = Credited(id, balance)]
    /\ totalShare' = TotalShareLeft(id) + Credited(id, balance)
    /\ staked' = StakeLeft(id) + balance

\* The share credited is rounded down.
LEMMA CreditedFacts ==
    ASSUME FarmingOK, NEW id, NEW balance, ShareMoves(id, balance)
    PROVE  /\ Credited(id, balance) \in Nat
           /\ TotalShareLeft(id) > 0
                => StakeLeft(id) * Credited(id, balance) <= balance * TotalShareLeft(id)
           /\ TotalShareLeft(id) = 0 => Credited(id, balance) = balance
<1> DEFINE share == Credited(id, balance)
           T1 == TotalShareLeft(id)
           S1 == StakeLeft(id)
<1>1. /\ id \in Ids /\ balance \in Nat
      /\ balance > 0 /\ T1 > 0 => S1 > 0
  BY DEF ShareMoves
<1>2. T1 \in Nat /\ S1 \in Nat
  BY <1>1, RemoveShareFacts
<1>3. share = IF balance = 0 THEN 0 ELSE IF T1 = 0 THEN balance ELSE (balance * T1) \div S1
  BY DEF Credited, balanceToShare
<1> HIDE DEF share, T1, S1
<1>4. CASE balance = 0
  <2>1. share = 0 /\ S1 * share = 0 /\ balance * T1 = 0
    BY <1>2, <1>3, <1>4
  <2> QED BY <2>1, <1>2, <1>4 DEF share, T1, S1
<1>5. CASE balance # 0 /\ T1 = 0
  BY <1>1, <1>2, <1>3, <1>5 DEF share, T1, S1
<1>6. CASE balance # 0 /\ T1 # 0
  <2>1. S1 \in Nat \ {0} /\ balance * T1 \in Nat
    BY <1>1, <1>2, <1>6
  <2>2. share = (balance * T1) \div S1
    BY <1>3, <1>6
  <2>3. share \in Nat /\ S1 * share <= balance * T1
    BY <2>1, <2>2, FloorBounds
  <2> QED BY <2>3, <1>6 DEF share, T1, S1
<1> QED BY <1>4, <1>5, <1>6

\* Such a call keeps the shares adding up.
LEMMA ShareMovesKeep ==
    ASSUME FarmingOK, NEW id, NEW balance, ShareMoves(id, balance)
    PROVE  FarmingOK' /\ totalShare' \in Nat
<1> DEFINE share == Credited(id, balance)
           T1 == TotalShareLeft(id)
           S1 == StakeLeft(id)
<1>1. /\ id \in Ids /\ balance \in Nat
      /\ shares' = [shares EXCEPT ![id] = share]
      /\ totalShare' = T1 + share /\ staked' = S1 + balance
      /\ shares \in [Ids -> Nat]
      /\ totalShare = SumFunctionOnSet(shares, Ids) /\ IsFiniteSet(Ids)
  BY MaxiAssumption DEF ShareMoves, FarmingOK
<1>2. T1 \in Nat /\ S1 \in Nat /\ T1 = totalShare - shares[id] /\ totalShare \in Nat
  BY <1>1, RemoveShareFacts
<1>3. share \in Nat
  BY CreditedFacts
<1> HIDE DEF share, T1, S1
<1>4. shares' \in [Ids -> Nat] /\ shares'[id] = share /\ shares[id] \in Nat
  BY <1>1, <1>3
<1>5. PICK g : g = shares'
  OBVIOUS
<1>6. SumFunctionOnSet(g, Ids) = SumFunctionOnSet(shares, Ids) - shares[id] + g[id]
  <2>1. Differ(shares, g, Ids, id)
    BY <1>1, <1>3, <1>4, <1>5 DEF Differ
  <2> QED BY <1>1, <2>1, SumChange
<1>7. totalShare' = SumFunctionOnSet(shares', Ids)
  BY <1>1, <1>2, <1>3, <1>4, <1>5, <1>6
<1>8. totalShare' \in Nat /\ staked' \in Nat
  BY <1>1, <1>2, <1>3
<1> QED BY <1>4, <1>7, <1>8 DEF FarmingOK

\* Leaving pays the pending rewards out and sets them apart at once.
LEMMA RewardsMove ==
    ASSUME IInv, NEW id, UNCHANGED unpaid,
           \/ /\ rewardBalance' = RewardsAfterLeave(id)
              /\ farming' = RewardsAfterLeave(id) /\ pendingCake' = PendingAfterLeave(id)
           \/ /\ rewardBalance' = RewardsAfterLeave(id) + PendingAfterLeave(id)
              /\ farming' = RewardsAfterLeave(id) + PendingAfterLeave(id)
              /\ pendingCake' = 0
    PROVE  RewardsOK'
<1>1. /\ rewardBalance \in Nat /\ pendingCake \in Nat /\ unpaid \in Int
      /\ rewardBalance + pendingCake = unpaid
  BY DEF IInv, RewardsOK, RewardsSetApart
<1>2. /\ RewardsAfterLeave(id) \in Nat /\ PendingAfterLeave(id) \in Nat
      /\ RewardsAfterLeave(id) + PendingAfterLeave(id) = unpaid
  BY <1>1 DEF RewardsAfterLeave, PendingAfterLeave
<1> QED BY <1>1, <1>2 DEF RewardsOK, RewardsSetApart

\* work moves one position's share by at least its old balance, or closes it.
LEMMA WorkStep ==
    ASSUME IInv, NEW id \in Ids, NEW strat \in AllStrategies,
           NEW base \in BaseAmounts, NEW debt \in Debts, work(id, strat, base, debt)
    PROVE  IInv' /\ \E i, balance : ShareMoves(i, balance)
<1>1. PICK r \in Executions(strat, id, base, debt) : workWith(id, strat, r)
  BY DEF work
<1>2. Returns(r, balanceOf(id))
  BY ExecutionsReturn
<1>3. r.pair \in Pair /\ r.farm \in Nat /\ (r.farm = 0 \/ r.farm >= balanceOf(id))
  BY <1>2 DEF Returns
<1>4. FarmingOK /\ StakeLeft(id) \in Nat /\ TotalShareLeft(id) \in Nat
  BY RemoveShareFacts DEF IInv
<1>5. ShareMoves(id, r.farm)
  BY <1>1, <1>3, <1>4 DEF workWith, ShareMoves, Credited
<1>6. FarmingOK'
  BY <1>4, <1>5, ShareMovesKeep
<1>7. RewardsOK'
  BY <1>1, RewardsMove DEF workWith
<1>8. MarketOK'
  BY <1>1, <1>3 DEF workWith, bounties, IInv, MarketOK
<1> QED BY <1>5, <1>6, <1>7, <1>8 DEF IInv

\* liquidate closes one position and leaves the rewards alone.
LEMMA LiquidateStep ==
    ASSUME IInv, NEW id \in Ids, liquidate(id)
    PROVE  IInv' /\ \E i, balance : ShareMoves(i, balance)
<1> DEFINE a == actualFarmingTokenBalance(id)
           w == [ok |-> TRUE, pair |-> pair, has |-> [base |-> 0, farm |-> a]]
<1>1. a \in Nat
  BY ActualCoversBalance
<1>2. liquidate(id) /\ pair' = Liquidate(w).pair
  BY DEF liquidate
<1> HIDE DEF a
<1>3. w \in Wallet
  BY <1>1 DEF Wallet, Purse, IInv, MarketOK
<1> HIDE DEF w
<1>4. pair' \in Pair
  <2>1. Returns(Liquidate(w), 0)
    BY <1>3, LiquidateReturns
  <2> QED BY <1>2, <2>1 DEF Returns
<1>5. FarmingOK /\ StakeLeft(id) \in Nat /\ TotalShareLeft(id) \in Nat
  BY RemoveShareFacts DEF IInv
<1>6. ShareMoves(id, 0)
  BY <1>2, <1>5 DEF liquidate, ShareMoves, Credited
<1>7. FarmingOK'
  BY <1>5, <1>6, ShareMovesKeep
<1>8. RewardsOK'
  BY <1>2, RewardsMove DEF liquidate
<1>9. MarketOK'
  BY <1>2, <1>4 DEF liquidate, bounties, IInv, MarketOK
<1> QED BY <1>6, <1>7, <1>8, <1>9 DEF IInv

\* reinvest adds to the stake for the shares there are: the bounty is part of the
\* rewards, and the part sold for the beneficial vault does not empty the pair.
LEMMA ReinvestStep ==
    ASSUME IInv, reinvest
    PROVE  /\ IInv' /\ shares' = shares /\ totalShare' = totalShare
           /\ staked' >= staked
<1> DEFINE reward == farming + pendingCake
           bounty == (reward * reinvestBountyBps) \div FullBps
           vaultBounty == (bounty * beneficialVaultBountyBps) \div FullBps
           w == [ok |-> TRUE, pair |-> pair, has |-> [base |-> 0, farm |-> vaultBounty]]
           sold == swapExactTokensForTokens(w, "farm", "base", vaultBounty)
<1>1. /\ farming \in Nat /\ pendingCake \in Nat /\ pair \in Pair /\ staked \in Nat
      /\ reinvestBountyBps \in Nat /\ beneficialVaultBountyBps \in Nat /\ FullBps \in Nat \ {0}
  BY MaxiAssumption DEF IInv, FarmingOK, RewardsOK, MarketOK
<1>2. /\ bounty <= reward
      /\ IF vaultBounty > 0 THEN sold.ok /\ pair' = sold.pair ELSE UNCHANGED pair
      /\ staked' = staked + (reward - bounty)
      /\ rewardBalance' = 0 /\ farming' = 0 /\ pendingCake' = 0 /\ unpaid' = 0
      /\ UNCHANGED <<shares, totalShare, bounties>>
  BY DEF reinvest
<1>3. reward \in Nat
  BY <1>1
<1> HIDE DEF reward
<1>4. bounty \in Nat
  <2>1. reward * reinvestBountyBps \in Nat
    BY <1>1, <1>3
  <2> QED BY <2>1, <1>1, FloorBounds
<1> HIDE DEF bounty
<1>5. vaultBounty \in Nat
  <2>1. bounty * beneficialVaultBountyBps \in Nat
    BY <1>1, <1>4
  <2> QED BY <2>1, <1>1, FloorBounds
<1> HIDE DEF vaultBounty
<1>6. w \in Wallet
  BY <1>1, <1>5 DEF Wallet, Purse
<1> HIDE DEF w
<1>7. sold \in Wallet
  BY <1>5, <1>6, SellSound DEF Tokens
<1> HIDE DEF sold
<1>8. pair' \in Pair
  BY <1>1, <1>2, <1>7 DEF Wallet
<1>9. staked' \in Nat /\ staked' >= staked
  BY <1>1, <1>2, <1>3, <1>4
<1>10. FarmingOK'
  BY <1>2, <1>9 DEF IInv, FarmingOK
<1>11. RewardsOK'
  BY <1>2 DEF RewardsOK, RewardsSetApart
<1>12. MarketOK'
  BY <1>2, <1>8 DEF IInv, MarketOK, bounties
<1> QED BY <1>2, <1>9, <1>10, <1>11, <1>12 DEF IInv

\* A trade by somebody else.
LEMMA TradeStep ==
    ASSUME IInv, NEW in \in Tokens, NEW out \in Tokens, in # out,
           NEW amount \in Trades, Trade(in, out, amount)
    PROVE  pair' \in Pair
<1> DEFINE w == [ok |-> TRUE, pair |-> pair, has |-> [base |-> amount, farm |-> amount]]
           v == swapExactTokensForTokens(w, in, out, amount)
<1>1. pair' = v.pair
  BY DEF Trade
<1>2. amount \in Nat /\ pair \in Pair
  BY MaxiAssumption DEF IInv, MarketOK
<1>3. w \in Wallet
  BY <1>2 DEF Wallet, Purse
<1> HIDE DEF w
<1>4. v \in Wallet
  BY <1>2, <1>3, SellSound
<1> HIDE DEF v
<1> QED BY <1>1, <1>4 DEF Wallet

\* The market and the settings: neither the shares nor the stake change.
Elsewhere ==
    \/ \E bps \in Bounties : setReinvestBountyBps(bps) \/ setMaxReinvestBountyBps(bps)
                             \/ setBeneficialVaultBountyBps(bps)
    \/ \E isOk \in BOOLEAN : setReinvestorOk(isOk) \/ setStrategyOk(AllStrategies, isOk)
    \/ \E amount \in Rewards : Earn(amount)
    \/ \E in, out \in Tokens, amount \in Trades : in # out /\ Trade(in, out, amount)
    \/ \E amount \in Donations : Donate(amount)

\* The owner's settings, rewards, trades and gifts leave the shares alone.
LEMMA ElsewhereStep ==
    ASSUME IInv, Elsewhere \/ UNCHANGED maxiVars
    PROVE  IInv' /\ shares' = shares /\ totalShare' = totalShare /\ staked' = staked
<1>1. /\ rewardBalance \in Nat /\ farming \in Nat /\ pendingCake \in Nat /\ unpaid \in Int
      /\ rewardBalance <= farming /\ rewardBalance + pendingCake = unpaid
      /\ pair \in Pair /\ reinvestBountyBps \in Nat /\ beneficialVaultBountyBps \in Nat
  BY DEF IInv, RewardsOK, RewardsSetApart, MarketOK
<1>2. /\ shares' = shares /\ totalShare' = totalShare /\ staked' = staked
      /\ rewardBalance' = rewardBalance
  BY DEF Elsewhere, maxiVars, setReinvestBountyBps, setMaxReinvestBountyBps,
         setBeneficialVaultBountyBps, setReinvestorOk, setStrategyOk, Setting, Market,
         Move, Earn, Trade, Donate
<1>3. FarmingOK'
  BY <1>2 DEF IInv, FarmingOK
<1>4. /\ farming' \in Nat /\ farming' >= farming /\ pendingCake' \in Nat /\ unpaid' \in Int
      /\ rewardBalance + pendingCake' = unpaid'
  <2>1. ASSUME NEW amount \in Rewards, Earn(amount)
        PROVE  /\ amount \in Nat /\ farming' = farming
               /\ pendingCake' = pendingCake + amount /\ unpaid' = unpaid + amount
    BY <2>1, MaxiAssumption DEF Earn
  <2>2. ASSUME NEW amount \in Donations, Donate(amount)
        PROVE  /\ amount \in Nat /\ farming' = farming + amount
               /\ pendingCake' = pendingCake /\ unpaid' = unpaid
    BY <2>2, MaxiAssumption DEF Donate
  <2>3. CASE ~((\E amount \in Rewards : Earn(amount)) \/ \E amount \in Donations : Donate(amount))
    <3>1. farming' = farming /\ pendingCake' = pendingCake /\ unpaid' = unpaid
      BY <2>3 DEF Elsewhere, maxiVars, setReinvestBountyBps, setMaxReinvestBountyBps,
         setBeneficialVaultBountyBps, setReinvestorOk, setStrategyOk, Setting, Trade
    <3> QED BY <1>1, <3>1
  <2>4. CASE \E amount \in Rewards : Earn(amount)
    <3>1. PICK amount \in Rewards : Earn(amount)
      BY <2>4
    <3> QED BY <1>1, <2>1, <3>1
  <2>5. CASE \E amount \in Donations : Donate(amount)
    <3>1. PICK amount \in Donations : Donate(amount)
      BY <2>5
    <3> QED BY <1>1, <2>2, <3>1
  <2> QED BY <2>3, <2>4, <2>5
<1>5. RewardsOK'
  <2>1. rewardBalance' \in Nat /\ rewardBalance' <= farming'
    BY <1>1, <1>2, <1>4
  <2>2. rewardBalance' + pendingCake' = unpaid'
    BY <1>2, <1>4
  <2> QED BY <1>4, <2>1, <2>2 DEF RewardsOK, RewardsSetApart
<1>6. pair' \in Pair
  <2>1. CASE \E in, out \in Tokens, amount \in Trades : in # out /\ Trade(in, out, amount)
    BY <2>1, TradeStep
  <2>2. CASE ~\E in, out \in Tokens, amount \in Trades : in # out /\ Trade(in, out, amount)
    BY <1>1, <2>2 DEF Elsewhere, maxiVars, setReinvestBountyBps, setMaxReinvestBountyBps,
         setBeneficialVaultBountyBps, setReinvestorOk, setStrategyOk, Setting, Earn, Donate
  <2> QED BY <2>1, <2>2
<1>7. reinvestBountyBps' \in Nat /\ beneficialVaultBountyBps' \in Nat
  <2>1. Bounties \subseteq Nat
    BY MaxiAssumption
  <2> QED BY <1>1, <2>1 DEF Elsewhere, maxiVars, bounties, setReinvestBountyBps,
         setMaxReinvestBountyBps, setBeneficialVaultBountyBps, setReinvestorOk,
         setStrategyOk, Market, Earn, Trade, Donate
<1> QED BY <1>2, <1>3, <1>5, <1>6, <1>7 DEF IInv, MarketOK

\* Every step moves the shares of one position, or adds to the stake alone.
LEMMA StepKinds ==
    ASSUME IInv, [MaxiNext]_maxiVars
    PROVE  /\ IInv'
           /\ \/ \E id, balance : ShareMoves(id, balance)
              \/ shares' = shares /\ totalShare' = totalShare /\ staked' >= staked
<1>1. staked \in Nat
  BY DEF IInv, FarmingOK
<1>2. CASE Elsewhere \/ UNCHANGED maxiVars
  BY <1>1, <1>2, ElsewhereStep
<1>3. CASE \E id \in Ids : liquidate(id)
  BY <1>3, LiquidateStep
<1>4. CASE \E id \in Ids, strat \in AllStrategies, base \in BaseAmounts, debt \in Debts :
              work(id, strat, base, debt)
  BY <1>4, WorkStep
<1>5. CASE reinvest
  BY <1>5, ReinvestStep
<1>6. MaxiNext => \/ Elsewhere \/ reinvest \/ \E id \in Ids : liquidate(id)
              \/ \E id \in Ids, strat \in AllStrategies, base \in BaseAmounts, debt \in Debts :
                    work(id, strat, base, debt)
  BY DEF MaxiNext, Elsewhere
<1> QED BY <1>2, <1>3, <1>4, <1>5, <1>6

\* A worker starts without shares and rewards.
LEMMA InvInit == ASSUME MaxiInit PROVE IInv
<1>1. /\ shares \in [Ids -> Nat] /\ totalShare = 0 /\ staked = 0
      /\ \A id \in Ids : shares[id] = 0
  BY DEF MaxiInit
<1>2. SumFunctionOnSet(shares, Ids) = 0
  BY <1>1, SumOfZeros, MaxiAssumption
<1>3. FarmingOK
  BY <1>1, <1>2 DEF FarmingOK
<1>4. RewardsOK
  BY DEF MaxiInit, RewardsOK, RewardsSetApart
<1>5. MarketOK
  <2>1. MaxiInit
    OBVIOUS
  <2> QED BY <2>1, MaxiAssumption DEF MaxiInit, MarketOK, Pair
<1> QED BY <1>3, <1>4, <1>5 DEF IInv

\* The inductive invariant holds of every behaviour of the worker.
LEMMA Invariance == MaxiSpec => []IInv
<1>1. MaxiInit => IInv
  BY InvInit
<1>2. IInv /\ [MaxiNext]_maxiVars => IInv'
  BY StepKinds
<1> QED BY <1>1, <1>2, PTL DEF MaxiSpec

\* CakeMaxiWorker.sol rewardBalance: the CAKE earned, whenever MasterChef pays it out
\* and whatever the strategies do with the CAKE of a position, stays apart from the
\* positions until reinvest stakes it, so actualFarmingTokenBalance never reverts.
THEOREM RewardsAlwaysApart == MaxiSpec => []RewardsSetApart
<1>1. IInv => RewardsSetApart
  BY DEF IInv, RewardsOK
<1> QED BY <1>1, Invariance, PTL
-----------------------------------------------------------------------------
(* What a step does to the positions. *)

\* Shares that stay are worth no less when the price V / T does not fall.
LEMMA BalanceMono ==
    ASSUME NEW s \in Nat, NEW V \in Nat, NEW T \in Nat \ {0}, NEW W \in Nat,
           NEW U \in Nat \ {0}, V * U <= W * T
    PROVE  shareToBalance(s, T, V) <= shareToBalance(s, U, W)
<1>1. (s * V) \div T <= (s * W) \div U
  BY RatioMono
<1> QED BY <1>1 DEF shareToBalance

\* A reinvestment raises the price of all shares.
LEMMA BalanceAfterReinvest ==
    ASSUME NEW s \in Nat, NEW T \in Nat, NEW V \in Nat, NEW W \in Nat, V <= W
    PROVE  shareToBalance(s, T, V) <= shareToBalance(s, T, W)
<1>1. CASE T = 0
  BY <1>1 DEF shareToBalance
<1>2. CASE T # 0
  <2>1. T \in Nat \ {0} /\ V * T <= W * T
    <3>1. T * V <= T * W
      BY MulMono
    <3>2. T * V = V * T /\ T * W = W * T
      OBVIOUS
    <3> QED BY <1>2, <3>1, <3>2
  <2> QED BY <2>1, BalanceMono
<1> QED BY <1>1, <1>2

\* No shares are worth nothing.
LEMMA NothingForNoShare ==
    ASSUME NEW T \in Nat, NEW V \in Nat PROVE shareToBalance(0, T, V) = 0
<1>1. T # 0 => (0 * V) \div T = 0
  BY ZeroDiv
<1> QED BY <1>1 DEF shareToBalance

\* A step that moves the shares of one position lowers the balance of none that
\* keeps its shares, itself included.
LEMMA MovesKeepBalance ==
    ASSUME FarmingOK, NEW id, NEW balance, ShareMoves(id, balance),
           NEW other \in Ids, shares'[other] = shares[other]
    PROVE  balanceOf(other)' >= balanceOf(other)
<1> DEFINE share == Credited(id, balance)
           T1 == TotalShareLeft(id)
           S1 == StakeLeft(id)
           s == shares[other]
           T == totalShare
           S == staked
           b == balanceOf(id)
<1>1. /\ id \in Ids /\ balance \in Nat /\ (balance = 0 \/ balance >= b)
      /\ shares' = [shares EXCEPT ![id] = share]
      /\ totalShare' = T1 + share /\ staked' = S1 + balance
      /\ shares \in [Ids -> Nat] /\ S \in Nat
      /\ T = SumFunctionOnSet(shares, Ids) /\ IsFiniteSet(Ids)
  BY MaxiAssumption DEF ShareMoves, FarmingOK
<1>2. /\ T \in Nat /\ T1 \in Nat /\ S1 \in Nat /\ T1 = T - shares[id] /\ S * T1 <= S1 * T
      /\ shares[id] \in 0..T /\ S1 = S - b
      /\ shares[id] = T /\ T > 0 => b = S
  BY <1>1, RemoveShareFacts
<1>3. /\ share \in Nat
      /\ T1 > 0 => S1 * share <= balance * T1
      /\ T1 = 0 => share = balance
  BY CreditedFacts
<1>4. /\ balanceOf(other) = shareToBalance(s, T, S)
      /\ balanceOf(other)' = shareToBalance(s, T1 + share, S1 + balance)
      /\ s \in Nat
  BY <1>1 DEF balanceOf
<1>5. other # id => s <= T1
  <2> HAVE other # id
  <2> DEFINE g == [shares EXCEPT ![id] = 0]
  <2>1. NatOn(g, Ids) /\ Differ(shares, g, Ids, id) /\ g[id] = 0 /\ g[other] = s
    BY <1>1 DEF NatOn, Differ
  <2> HIDE DEF g
  <2>2. SumFunctionOnSet(g, Ids) = SumFunctionOnSet(shares, Ids) - shares[id] + g[id]
    BY <1>1, <2>1, SumChange
  <2>3. \A x \in Ids : g[x] <= SumFunctionOnSet(g, Ids)
    BY <1>1, <2>1, SumOfNats
  <2>4. SumFunctionOnSet(g, Ids) = T1
    BY <1>1, <1>2, <2>1, <2>2
  <2> QED BY <2>1, <2>3, <2>4
<1>6. other = id => s = share /\ s = shares[id]
  BY <1>1
<1>7. s <= T
  <2>1. CASE other = id
    BY <1>2, <1>6, <2>1
  <2>2. CASE other # id
    <3>1. s <= T1 /\ T1 <= T
      BY <1>2, <1>5, <2>2
    <3> QED BY <1>2, <1>4, <3>1
  <2> QED BY <2>1, <2>2
<1>8. shareToBalance(s, T, S) = b \/ other # id
  BY DEF balanceOf
<1> HIDE DEF share, T1, S1, s, T, S, b
<1>9. CASE s = 0
  <2>1. T1 + share \in Nat /\ S1 + balance \in Nat
    BY <1>1, <1>2, <1>3
  <2>2. \A t \in Nat, z \in Nat : shareToBalance(0, t, z) = 0
    BY NothingForNoShare
  <2>3. balanceOf(other) = 0 /\ balanceOf(other)' = 0
    BY <1>1, <1>2, <1>4, <1>9, <2>1, <2>2
  <2> QED BY <2>3
<1>10. CASE s # 0 /\ T1 # 0
  <2> DEFINE T2 == T1 + share
             S2 == S1 + balance
  <2>1. T1 \in Nat \ {0} /\ T \in Nat \ {0} /\ T2 \in Nat \ {0} /\ S2 \in Nat
    BY <1>1, <1>2, <1>3, <1>4, <1>7, <1>10
  <2>2. S1 * T2 <= S2 * T1
    <3>1. S1 * share <= balance * T1
      BY <1>3, <2>1
    <3>2. S1 * T2 = S1 * T1 + S1 * share
      BY <1>2, <1>3, <2>1, Distribute
    <3>3. S2 * T1 = S1 * T1 + balance * T1
      BY <1>1, <1>2, <2>1
    <3>4. S1 * T1 \in Int /\ S1 * share \in Int /\ balance * T1 \in Int
      BY <1>1, <1>2, <1>3, <2>1
    <3> HIDE DEF T2, S2
    <3> QED BY <3>1, <3>2, <3>3, <3>4
  <2>3. balanceOf(other)' = shareToBalance(s, T2, S2)
    BY <1>4
  <2> HIDE DEF T2, S2
  <2>4. shareToBalance(s, T, S) <= shareToBalance(s, T1, S1)
    BY <1>1, <1>2, <1>4, <2>1, BalanceMono
  <2>5. shareToBalance(s, T1, S1) <= shareToBalance(s, T2, S2)
    BY <1>2, <1>4, <2>1, <2>2, BalanceMono
  <2>6. \A t \in Nat \ {0}, z \in Nat : shareToBalance(s, t, z) \in Int
    <3> TAKE t \in Nat \ {0}, z \in Nat
    <3>1. s * z \in Nat
      BY <1>4
    <3> QED BY <3>1, FloorBounds DEF shareToBalance
  <2>7. /\ shareToBalance(s, T, S) \in Int /\ shareToBalance(s, T1, S1) \in Int
        /\ shareToBalance(s, T2, S2) \in Int
    BY <1>1, <1>2, <2>1, <2>6
  <2>8. \A x, y, z \in Int : x <= y /\ y <= z => z >= x
    OBVIOUS
  <2>9. shareToBalance(s, T2, S2) >= shareToBalance(s, T, S)
    BY <2>4, <2>5, <2>7, <2>8
  <2> QED BY <1>4, <2>3, <2>9
<1>11. CASE s # 0 /\ T1 = 0
  <2>1. other = id /\ s = share /\ share = balance /\ s = T /\ T > 0
    BY <1>2, <1>3, <1>4, <1>5, <1>6, <1>7, <1>11
  <2>2. b = S /\ S1 = 0 /\ balance >= S
    BY <1>1, <1>2, <1>4, <1>6, <1>11, <2>1
  <2>3. balanceOf(other) = S
    BY <1>4, <1>8, <2>1, <2>2
  <2>4. balanceOf(other)' = shareToBalance(balance, balance, balance)
    BY <1>1, <1>4, <1>11, <2>1, <2>2
  <2>5. shareToBalance(balance, balance, balance) = balance
    <3>1. balance \in Nat \ {0} /\ balance \in 0..balance
      BY <1>1, <1>11, <2>1
    <3>2. (balance * balance) \div balance = balance
      BY <3>1, RemoveRounds
    <3> QED BY <3>2 DEF shareToBalance
  <2> QED BY <1>1, <2>2, <2>3, <2>4, <2>5
<1> QED BY <1>9, <1>10, <1>11

\* CakeMaxiWorker.sol work, liquidate and reinvest: no call on another position, no
\* reinvestment and no setting lowers the CAKE balance of a position.
THEOREM PositionsKept == MaxiSpec => PositionNeverFalls
<1> DEFINE A == \A id \in Ids : shares'[id] = shares[id] => balanceOf(id)' >= balanceOf(id)
<1>1. ASSUME IInv, [MaxiNext]_maxiVars PROVE A
  <2> SUFFICES ASSUME NEW id \in Ids, shares'[id] = shares[id]
               PROVE  balanceOf(id)' >= balanceOf(id)
    OBVIOUS
  <2>1. FarmingOK /\ shares[id] \in Nat /\ totalShare \in Nat /\ staked \in Nat
    <3>1. FarmingOK
      BY <1>1 DEF IInv
    <3> QED BY <3>1, RemoveShareFacts DEF FarmingOK
  <2>2. ASSUME NEW i, NEW balance, ShareMoves(i, balance)
        PROVE  balanceOf(id)' >= balanceOf(id)
    BY <2>1, <2>2, MovesKeepBalance
  <2>3. ASSUME shares' = shares, totalShare' = totalShare, staked' >= staked
        PROVE  balanceOf(id)' >= balanceOf(id)
    <3>1. IInv'
      BY <1>1, StepKinds
    <3>2. PICK W : W = staked'
      OBVIOUS
    <3>3. W \in Nat /\ staked <= W
      BY <2>1, <2>3, <3>1, <3>2 DEF IInv, FarmingOK
    <3>4. shareToBalance(shares[id], totalShare, staked) <= shareToBalance(shares[id], totalShare, W)
      BY <2>1, <3>3, BalanceAfterReinvest
    <3>5. /\ balanceOf(id) = shareToBalance(shares[id], totalShare, staked)
          /\ balanceOf(id)' = shareToBalance(shares[id], totalShare, W)
      BY <2>3, <3>2 DEF balanceOf
    <3>6. \A z \in Nat : shareToBalance(shares[id], totalShare, z) \in Int
      <4> TAKE z \in Nat
      <4>1. shares[id] * z \in Nat
        BY <2>1
      <4> QED BY <2>1, <4>1, FloorBounds DEF shareToBalance
    <3> QED BY <2>1, <3>3, <3>4, <3>5, <3>6
  <2> QED BY <1>1, <2>2, <2>3, StepKinds
<1> QED BY <1>1, Invariance, PTL DEF MaxiSpec, PositionNeverFalls
=============================================================================
