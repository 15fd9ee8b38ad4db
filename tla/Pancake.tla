------------------------------ MODULE Pancake ------------------------------
(***************************************************************************)
(* A PancakeSwap pair of the base and the farming token, and the router    *)
(* calls (contracts/6/apis/pancakeV2) the strategies make against it.      *)
(*                                                                         *)
(* A wallet w is the state of one call chain: w.has holds the caller's lp, *)
(* base and farm tokens, w.pair the pair's reserves and its LP supply, and *)
(* w.ok is FALSE once a call has reverted.  The pair's protocol fee is off.*)
(***************************************************************************)
EXTENDS LedgerMath

CONSTANTS fee, feeDenom   \* 9975 and 10000

ASSUME FeeAssumption == feeDenom \in Nat \ {0} /\ fee \in 1..feeDenom

Tokens == {"base", "farm"}

Reverted(w) == [w EXCEPT !.ok = FALSE]

getAmountOut(amountIn, reserveIn, reserveOut) ==
    (amountIn * fee * reserveOut) \div (reserveIn * feeDenom + amountIn * fee)

getAmountIn(amountOut, reserveIn, reserveOut) ==
    (reserveIn * amountOut * feeDenom) \div ((reserveOut - amountOut) * fee) + 1

quote(amountA, reserveA, reserveB) == (amountA * reserveB) \div reserveA

\* The pair swaps amountIn for amountOut, if it has reserves and pays something.
Swap(w, in, out, amountIn, amountOut) ==
    IF amountIn <= w.has[in] /\ amountOut > 0
    THEN [w EXCEPT !.has[in] = @ - amountIn, !.has[out] = @ + amountOut,
                   !.pair[in] = @ + amountIn, !.pair[out] = @ - amountOut]
    ELSE Reverted(w)

HasReserves(w) == w.pair.base > 0 /\ w.pair.farm > 0

swapExactTokensForTokens(w, in, out, amountIn) ==
    IF w.ok /\ HasReserves(w) /\ amountIn > 0
    THEN Swap(w, in, out, amountIn, getAmountOut(amountIn, w.pair[in], w.pair[out]))
    ELSE Reverted(w)

swapTokensForExactTokens(w, in, out, amountOut) ==
    IF w.ok /\ HasReserves(w) /\ amountOut > 0 /\ amountOut < w.pair[out]
    THEN Swap(w, in, out, getAmountIn(amountOut, w.pair[in], w.pair[out]), amountOut)
    ELSE Reverted(w)

\* The pair burns liquidity, and reverts when one side of it is worth nothing.
removeLiquidity(w, liquidity) ==
    LET base == (liquidity * w.pair.base) \div w.pair.supply
        farm == (liquidity * w.pair.farm) \div w.pair.supply
    IN  IF w.ok /\ liquidity <= w.has.lp /\ base > 0 /\ farm > 0
        THEN [w EXCEPT
                !.has = [lp |-> @.lp - liquidity, base |-> @.base + base, farm |-> @.farm + farm],
                !.pair = [base |-> @.base - base, farm |-> @.farm - farm,
                          supply |-> @.supply - liquidity]]
        ELSE Reverted(w)

\* The amounts _addLiquidity takes of what the caller offers.
AmountsAdded(w) ==
    LET farmOptimal == quote(w.has.base, w.pair.base, w.pair.farm)
    IN  IF farmOptimal <= w.has.farm
        THEN [base |-> w.has.base, farm |-> farmOptimal]
        ELSE [base |-> quote(w.has.farm, w.pair.farm, w.pair.base), farm |-> w.has.farm]

\* addLiquidity with everything the caller has; the pair mints at least one.
addLiquidity(w) ==
    LET added     == AmountsAdded(w)
        liquidity == Min2((added.base * w.pair.supply) \div w.pair.base,
                          (added.farm * w.pair.supply) \div w.pair.farm)
    IN  IF w.ok /\ HasReserves(w) /\ w.has.base > 0 /\ liquidity > 0
        THEN [w EXCEPT
                !.has = [lp |-> @.lp + liquidity, base |-> @.base - added.base,
                         farm |-> @.farm - added.farm],
                !.pair = [base |-> @.base + added.base, farm |-> @.farm + added.farm,
                          supply |-> @.supply + liquidity]]
        ELSE Reverted(w)
=============================================================================
