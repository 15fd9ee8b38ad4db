----------------------------- MODULE Strategies -----------------------------
(***************************************************************************)
(* contracts/6/protocol/strategies/pancakeswapV2: what execute() does with *)
(* the lp, base and farming tokens of the strategy contract, as a function *)
(* of a wallet (see Pancake) to what goes to the worker, what goes to the  *)
(* user and what stays behind.  The farming token reaches the user as the  *)
(* token or as native coins, whichever it is.                              *)
(***************************************************************************)
EXTENDS Pancake

\* HuskyMath.sqrt: a seed from the leading bits, seven rounds of Newton's method
\* and the smaller of the last two estimates.
Scaled(e, power, root) ==
    IF e.xx >= power THEN [xx |-> e.xx \div power, r |-> e.r * root] ELSE e

\* Mutant: the last estimate is returned as it is.
LastEstimate(r, x) == r

SmallerEstimate(r, x) == Min2(r, x \div r)

\* One round of Newton's method.
Improved(r, x) == (r + x \div r) \div 2

\* What is made of the scaled estimate e.
Refined(e, x) ==
    LET r0   == IF e.xx >= 8 THEN 2 * e.r ELSE e.r
        I(r) == Improved(r, x)
    IN  SmallerEstimate(I(I(I(I(I(I(I(r0))))))), x)

\* sqrt for x < 2^32, where the tests of the higher bits fail.
sqrt(x) ==
    IF x = 0 THEN 0
    ELSE Refined(Scaled(Scaled(Scaled([xx |-> x, r |-> 1], 65536, 256), 256, 16), 16, 4), x)
-----------------------------------------------------------------------------
\* What execute() returns: tokens for the worker and for the user, the rest
\* stays in the strategy, which needs at least atLeast of something.
Result(w, lp, base, user, enough) ==
    [ok |-> w.ok /\ enough, pair |-> w.pair, lp |-> lp, base |-> base, user |-> user,
     left |-> [lp |-> w.has.lp - lp, base |-> w.has.base - base, farm |-> w.has.farm - user]]

\* The part of the base tokens to swap so that the rest matches what the swap
\* brings, for a reserve rIn of base tokens.
\* Mutant: half of the balance is swapped.
HalfOf(balance, rIn) == balance \div 2

radicand(balance, rIn) ==
    rIn * (balance * 4 * feeDenom * fee + rIn * (feeDenom + fee) * (feeDenom + fee))

amountToSwap(balance, rIn) ==
    (sqrt(radicand(balance, rIn)) - rIn * (feeDenom + fee)) \div (2 * fee)

AddBaseTokenOnly(w, minLPAmount) ==
    LET swapped == swapExactTokensForTokens(w, "base", "farm", amountToSwap(w.has.base, w.pair.base))
        added   == addLiquidity(swapped)
    IN  Result(added, added.has.lp, 0, 0, added.has.lp - w.has.lp >= minLPAmount)

\* AddTwosidesOptimal swaps a part of the side that is in excess.
optimalDepositA(amtA, amtB, resA, resB) ==
    LET b == (feeDenom + fee) * resA
        c == (((amtA * resB - amtB * resA) * feeDenom) \div (amtB + resB)) * resA
    IN  (sqrt(b * b + 4 * fee * c) - b) \div (2 * fee)

\* farmingTokenAmount comes from the user, through the vault's requestFunds.
AddTwoSidesOptimal(funded, farmingTokenAmount, minLPAmount) ==
    LET w       == [funded EXCEPT !.has.farm = @ + farmingTokenAmount]
        more    == IF w.has.base * w.pair.farm >= w.has.farm * w.pair.base THEN "base" ELSE "farm"
        less    == CHOOSE t \in Tokens : t # more
        swapAmt == optimalDepositA(w.has[more], w.has[less], w.pair[more], w.pair[less])
        added   == addLiquidity(IF swapAmt > 0
                                THEN swapExactTokensForTokens(w, more, less, swapAmt) ELSE w)
    IN  Result(added, added.has.lp, 0, 0, added.has.lp - w.has.lp >= minLPAmount)

\* Liquidate and PartialCloseLiquidate sell all farming tokens of the liquidity
\* they remove; the liquidity that is left goes back to the worker.
SellLiquidity(w, liquidity, minBaseToken) ==
    LET removed == removeLiquidity(w, liquidity)
        sold    == swapExactTokensForTokens(removed, "farm", "base", removed.has.farm)
    IN  Result(sold, sold.has.lp, sold.has.base, 0, sold.has.base >= minBaseToken)

Liquidate(w, minBaseToken) == SellLiquidity(w, w.has.lp, minBaseToken)

PartialCloseLiquidate(w, returnLpToken, minBaseToken) ==
    IF returnLpToken <= w.has.lp THEN SellLiquidity(w, returnLpToken, minBaseToken)
    ELSE Result(Reverted(w), 0, 0, 0, FALSE)

\* WithdrawMinimizeTrading and PartialCloseMinimizeTrading sell only as many
\* farming tokens as the debt needs and send the others to the user.
remainingDebt(lessDebt, balance) == lessDebt - balance

SellForDebt(w, liquidity, lessDebt, minFarmingToken) ==
    LET removed == removeLiquidity(w, liquidity)
        repaid  == IF removed.ok /\ lessDebt > removed.has.base
                   THEN swapTokensForExactTokens(removed, "farm", "base",
                            remainingDebt(lessDebt, removed.has.base))
                   ELSE removed
    IN  Result(repaid, repaid.has.lp, repaid.has.base, repaid.has.farm,
               repaid.has.farm >= minFarmingToken)

WithdrawMinimizeTrading(w, debt, minFarmingToken) ==
    SellForDebt(w, w.has.lp, debt, minFarmingToken)

PartialCloseMinimizeTrading(w, debt, maxLpTokenToLiquidate, maxDebtRepayment, minFarmingToken) ==
    SellForDebt(w, Min2(w.has.lp, maxLpTokenToLiquidate), Min2(debt, maxDebtRepayment),
                minFarmingToken)
=============================================================================
