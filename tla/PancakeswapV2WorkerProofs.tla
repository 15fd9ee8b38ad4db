--------------------- MODULE PancakeswapV2WorkerProofs ---------------------
(***************************************************************************)
(* Proofs about PancakeswapV2Worker.  What the strategies do to the pair   *)
(* comes first: a call chain never empties the pair, and the LP tokens     *)
(* outside the caller's hands are the same before and after it.  The last  *)
(* part is about HuskyMath.sqrt, which AddBaseTokenOnly uses: it is exact. *)
(***************************************************************************)
EXTENDS PancakeswapV2Worker, LedgerMathProofs

Pair == [base : Nat \ {0}, farm : Nat \ {0}, supply : Nat \ {0}]
Purse == [lp : Nat, base : Nat, farm : Nat]
Wallet == [ok : BOOLEAN, pair : Pair, has : Purse]

\* A call chain is sound when somebody else holds LP tokens too, as the pair itself
\* always does (MINIMUM_LIQUIDITY), and it keeps what the others hold.
Sound(w) == w \in Wallet /\ w.has.lp < w.pair.supply
Keeps(w, v) == Sound(v) /\ v.pair.supply - v.has.lp = w.pair.supply - w.has.lp
-----------------------------------------------------------------------------
\* getAmountOut never takes the whole reserve.
LEMMA AmountOutBelow ==
    ASSUME NEW a \in Nat, NEW rIn \in Nat \ {0}, NEW rOut \in Nat \ {0}
    PROVE  getAmountOut(a, rIn, rOut) \in 0..(rOut - 1)
<1> USE FeeAssumption
<1> DEFINE x == a * fee
           D == rIn * feeDenom + x
<1>1. x \in Nat /\ rIn * feeDenom \in Nat \ {0}
  OBVIOUS
<1>2. D \in Nat \ {0} /\ x < D
  BY <1>1
<1>3. getAmountOut(a, rIn, rOut) = (x * rOut) \div D
  BY DEF getAmountOut
<1> HIDE DEF x, D
<1> QED BY <1>1, <1>2, <1>3, PartBelow

\* The pair's swap, when it does not pay out a whole reserve.
LEMMA SwapKeeps ==
    ASSUME NEW w, Sound(w), NEW in \in Tokens, NEW out \in Tokens, in # out,
           NEW amountIn \in Nat, NEW amountOut \in Nat, amountOut < w.pair[out]
    PROVE  Keeps(w, Swap(w, in, out, amountIn, amountOut))
<1> DEFINE v == Swap(w, in, out, amountIn, amountOut)
<1>1. CASE ~(amountIn <= w.has[in] /\ amountOut > 0)
  BY <1>1 DEF Swap, Reverted, Keeps, Sound, Wallet
<1>2. CASE amountIn <= w.has[in] /\ amountOut > 0
  <2>1. v = [w EXCEPT !.has[in] = @ - amountIn, !.has[out] = @ + amountOut,
                   !.pair[in] = @ + amountIn, !.pair[out] = @ - amountOut]
    BY <1>2 DEF Swap
  <2> HIDE DEF v
  <2>2. /\ w \in Wallet /\ w.pair \in Pair /\ w.has \in Purse /\ w.has.lp < w.pair.supply
        /\ (in = "base" /\ out = "farm") \/ (in = "farm" /\ out = "base")
    BY DEF Sound, Wallet, Tokens
  <2> DEFINE h == [w.has EXCEPT ![in] = @ - amountIn, ![out] = @ + amountOut]
             p == [w.pair EXCEPT ![in] = @ + amountIn, ![out] = @ - amountOut]
  <2>3. v = [ok |-> w.ok, pair |-> p, has |-> h]
    BY <2>1, <2>2 DEF Wallet, Tokens
  <2>4. h \in Purse /\ h.lp = w.has.lp
    BY <1>2, <2>2 DEF Purse
  <2>5. p \in Pair /\ p.supply = w.pair.supply
    BY <1>2, <2>2 DEF Pair
  <2> HIDE DEF h, p
  <2> QED BY <2>2, <2>3, <2>4, <2>5 DEF Keeps, Sound, Wallet, v
<1> QED BY <1>1, <1>2

\* swapExactTokensForTokens.
LEMMA SellKeeps ==
    ASSUME NEW w, Sound(w), NEW in \in Tokens, NEW out \in Tokens, in # out,
           NEW amountIn \in Int
    PROVE  Keeps(w, swapExactTokensForTokens(w, in, out, amountIn))
<1>1. CASE ~(w.ok /\ HasReserves(w) /\ amountIn > 0)
  BY <1>1 DEF swapExactTokensForTokens, Reverted, Keeps, Sound, Wallet
<1>2. CASE w.ok /\ HasReserves(w) /\ amountIn > 0
  <2> DEFINE a == getAmountOut(amountIn, w.pair[in], w.pair[out])
  <2>1. amountIn \in Nat /\ w.pair[in] \in Nat \ {0} /\ w.pair[out] \in Nat \ {0}
    BY <1>2 DEF Sound, Wallet, Pair, Tokens
  <2>2. a \in 0..(w.pair[out] - 1)
    BY <2>1, AmountOutBelow
  <2> HIDE DEF a
  <2>3. a \in Nat /\ a < w.pair[out]
    BY <2>1, <2>2
  <2>4. Keeps(w, Swap(w, in, out, amountIn, a))
    BY <2>1, <2>3, SwapKeeps
  <2> QED BY <1>2, <2>4 DEF swapExactTokensForTokens, a
<1> QED BY <1>1, <1>2

\* swapTokensForExactTokens.
LEMMA BuyKeeps ==
    ASSUME NEW w, Sound(w), NEW in \in Tokens, NEW out \in Tokens, in # out,
           NEW amountOut \in Int
    PROVE  Keeps(w, swapTokensForExactTokens(w, in, out, amountOut))
<1>1. CASE ~(w.ok /\ HasReserves(w) /\ amountOut > 0 /\ amountOut < w.pair[out])
  BY <1>1 DEF swapTokensForExactTokens, Reverted, Keeps, Sound, Wallet
<1>2. CASE w.ok /\ HasReserves(w) /\ amountOut > 0 /\ amountOut < w.pair[out]
  <2> DEFINE a == getAmountIn(amountOut, w.pair[in], w.pair[out])
  <2>1. amountOut \in Nat /\ w.pair[in] \in Nat /\ w.pair[out] \in Nat
    BY <1>2 DEF Sound, Wallet, Pair, Tokens
  <2>2. a \in Nat
    <3>1. w.pair[in] * amountOut * feeDenom \in Nat
      BY <2>1, FeeAssumption
    <3>2. (w.pair[out] - amountOut) * fee \in Nat \ {0}
      BY <1>2, <2>1, FeeAssumption
    <3> QED BY <3>1, <3>2, FloorBounds DEF getAmountIn
  <2> HIDE DEF a
  <2>3. Keeps(w, Swap(w, in, out, a, amountOut))
    BY <1>2, <2>1, <2>2, SwapKeeps
  <2> QED BY <1>2, <2>3 DEF swapTokensForExactTokens, a
<1> QED BY <1>1, <1>2

\* removeLiquidity.
LEMMA RemoveKeeps ==
    ASSUME NEW w, Sound(w), NEW liquidity \in Nat
    PROVE  Keeps(w, removeLiquidity(w, liquidity))
<1> DEFINE b == (liquidity * w.pair.base) \div w.pair.supply
           f == (liquidity * w.pair.farm) \div w.pair.supply
           v == removeLiquidity(w, liquidity)
<1>1. CASE ~(w.ok /\ liquidity <= w.has.lp /\ b > 0 /\ f > 0)
  BY <1>1 DEF removeLiquidity, Reverted, Keeps, Sound, Wallet
<1>2. CASE w.ok /\ liquidity <= w.has.lp /\ b > 0 /\ f > 0
  <2> DEFINE h == [lp |-> w.has.lp - liquidity, base |-> w.has.base + b, farm |-> w.has.farm + f]
             p == [base |-> w.pair.base - b, farm |-> w.pair.farm - f,
                   supply |-> w.pair.supply - liquidity]
  <2>1. v = [w EXCEPT !.has = h, !.pair = p]
    BY <1>2 DEF removeLiquidity
  <2>2. /\ w \in Wallet /\ w.has.lp \in Nat /\ w.has.base \in Nat /\ w.has.farm \in Nat
        /\ w.pair.base \in Nat \ {0} /\ w.pair.farm \in Nat \ {0}
        /\ w.pair.supply \in Nat \ {0} /\ w.has.lp < w.pair.supply
    BY DEF Sound, Wallet, Pair, Purse
  <2>3. liquidity < w.pair.supply
    BY <1>2, <2>2
  <2>4. b \in 0..(w.pair.base - 1) /\ f \in 0..(w.pair.farm - 1)
    BY <2>2, <2>3, PartBelow
  <2> HIDE DEF b, f, v
  <2>5. h \in Purse /\ p \in Pair
    BY <1>2, <2>2, <2>3, <2>4 DEF Purse, Pair
  <2>6. /\ h.lp = w.has.lp - liquidity /\ p.supply = w.pair.supply - liquidity
    OBVIOUS
  <2> HIDE DEF h, p
  <2>7. v \in Wallet /\ v.has = h /\ v.pair = p
    BY <2>1, <2>2, <2>5 DEF Wallet
  <2> QED BY <1>2, <2>2, <2>6, <2>7 DEF Keeps, Sound, v
<1> QED BY <1>1, <1>2

\* addLiquidity offers no more than the caller has.
LEMMA AmountsOffered ==
    ASSUME NEW w, Sound(w)
    PROVE  /\ AmountsAdded(w).base \in 0..w.has.base
           /\ AmountsAdded(w).farm \in 0..w.has.farm
<1> DEFINE B == w.pair.base
           F == w.pair.farm
           hb == w.has.base
           hf == w.has.farm
           q == (hb * F) \div B
           r == (hf * B) \div F
<1>1. B \in Nat \ {0} /\ F \in Nat \ {0} /\ hb \in Nat /\ hf \in Nat
  BY DEF Sound, Wallet, Pair, Purse
<1>2. AmountsAdded(w) = IF q <= hf THEN [base |-> hb, farm |-> q] ELSE [base |-> r, farm |-> hf]
  BY DEF AmountsAdded, quote
<1> HIDE DEF B, F, hb, hf
<1>3. hb * F \in Nat /\ hf * B \in Nat
  BY <1>1
<1>4. q \in Nat /\ B * q <= hb * F /\ r \in Nat /\ F * r <= hf * B
  BY <1>1, <1>3, FloorBounds
<1> HIDE DEF q, r
<1>5. ASSUME q > hf PROVE r <= hb
  <2>1. B * hf <= B * q
    BY <1>1, <1>4, <1>5, MulMono
  <2>2. B * hf = hf * B /\ B * q \in Int /\ F * r \in Int /\ F * hb = hb * F
    BY <1>1, <1>4
  <2>3. F * r <= F * hb
    BY <2>1, <2>2, <1>3, <1>4
  <2> QED BY <2>3, <1>1, <1>4, MulCancel
<1> QED BY <1>1, <1>2, <1>4, <1>5 DEF hb, hf

\* addLiquidity.
LEMMA AddKeeps ==
    ASSUME NEW w, Sound(w)
    PROVE  Keeps(w, addLiquidity(w))
<1> DEFINE x == AmountsAdded(w)
           l == Min2((x.base * w.pair.supply) \div w.pair.base,
                     (x.farm * w.pair.supply) \div w.pair.farm)
           v == addLiquidity(w)
<1>1. CASE ~(w.ok /\ HasReserves(w) /\ w.has.base > 0 /\ l > 0)
  BY <1>1 DEF addLiquidity, Reverted, Keeps, Sound, Wallet
<1>2. CASE w.ok /\ HasReserves(w) /\ w.has.base > 0 /\ l > 0
  <2> DEFINE h == [lp |-> w.has.lp + l, base |-> w.has.base - x.base,
                   farm |-> w.has.farm - x.farm]
             p == [base |-> w.pair.base + x.base, farm |-> w.pair.farm + x.farm,
                   supply |-> w.pair.supply + l]
  <2>1. v = [w EXCEPT !.has = h, !.pair = p]
    BY <1>2 DEF addLiquidity
  <2>2. /\ w \in Wallet /\ w.has.lp \in Nat /\ w.has.base \in Nat /\ w.has.farm \in Nat
        /\ w.pair.base \in Nat \ {0} /\ w.pair.farm \in Nat \ {0}
        /\ w.pair.supply \in Nat \ {0} /\ w.has.lp < w.pair.supply
    BY DEF Sound, Wallet, Pair, Purse
  <2>3. x.base \in 0..w.has.base /\ x.farm \in 0..w.has.farm
    BY AmountsOffered
  <2> HIDE DEF x
  <2>4. l \in Nat
    <3>1. x.base * w.pair.supply \in Nat /\ x.farm * w.pair.supply \in Nat
      BY <2>2, <2>3
    <3>2. (x.base * w.pair.supply) \div w.pair.base \in Nat
          /\ (x.farm * w.pair.supply) \div w.pair.farm \in Nat
      BY <3>1, <2>2, FloorBounds
    <3> QED BY <3>2 DEF Min2
  <2> HIDE DEF l, v
  <2>5. h \in Purse /\ p \in Pair
    BY <2>2, <2>3, <2>4 DEF Purse, Pair
  <2>6. /\ h.lp = w.has.lp + l /\ p.supply = w.pair.supply + l
    OBVIOUS
  <2> HIDE DEF h, p
  <2>7. v \in Wallet /\ v.has = h /\ v.pair = p
    BY <2>1, <2>2, <2>5 DEF Wallet
  <2> QED BY <2>2, <2>4, <2>6, <2>7 DEF Keeps, Sound, v
<1> QED BY <1>1, <1>2
-----------------------------------------------------------------------------
(* The strategies. *)

\* HuskyMath.sqrt returns a natural number: no round divides by zero.
LEMMA SqrtType == ASSUME NEW x \in Nat PROVE sqrt(x) \in Nat
<1> DEFINE Estimate == [xx : Nat, r : Nat \ {0}]
<1>1. ASSUME NEW e \in Estimate, NEW power \in Nat \ {0}, NEW root \in Nat \ {0}
      PROVE  Scaled(e, power, root) \in Estimate
  <2>1. e.xx \div power \in Nat
    BY FloorBounds
  <2>2. e.r * root \in Nat \ {0}
    OBVIOUS
  <2> QED BY <2>1, <2>2 DEF Scaled
<1>2. ASSUME x # 0, NEW r \in Nat \ {0}
      PROVE  Improved(r, x) \in Nat \ {0} /\ SmallerEstimate(r, x) \in Nat
  <2> DEFINE q == x \div r
  <2>1. q \in Nat /\ x < r * q + r
    BY FloorBounds
  <2> HIDE DEF q
  <2>2. r = 1 => q >= 1
    BY <2>1, <1>2
  <2>3. (r + q) \div 2 \in Nat \ {0}
    BY <2>1, <2>2
  <2> QED BY <2>1, <2>3 DEF Improved, SmallerEstimate, Min2, q
<1> DEFINE e1 == Scaled([xx |-> x, r |-> 1], 65536, 256)
           e2 == Scaled(e1, 256, 16)
           e == Scaled(e2, 16, 4)
           r0 == IF e.xx >= 8 THEN 2 * e.r ELSE e.r
           I(r) == Improved(r, x)
<1>3. e \in Estimate
  <2>1. [xx |-> x, r |-> 1] \in Estimate
    OBVIOUS
  <2>2. e1 \in Estimate
    BY <2>1, <1>1
  <2> HIDE DEF e1
  <2>3. e2 \in Estimate
    BY <2>2, <1>1
  <2> HIDE DEF e2
  <2> QED BY <2>3, <1>1
<1>4. sqrt(x) = IF x = 0 THEN 0 ELSE SmallerEstimate(I(I(I(I(I(I(I(r0))))))), x)
  BY DEF sqrt, Refined
<1> HIDE DEF e
<1>5. r0 \in Nat \ {0}
  BY <1>3
<1> HIDE DEF r0
<1>6. ASSUME x # 0, NEW r \in Nat \ {0} PROVE I(r) \in Nat \ {0}
  BY <1>2, <1>6
<1> HIDE DEF I
<1>7. ASSUME x # 0 PROVE SmallerEstimate(I(I(I(I(I(I(I(r0))))))), x) \in Nat
  <2>1. I(I(I(r0))) \in Nat \ {0}
    BY <1>5, <1>6, <1>7
  <2>2. I(I(I(I(I(r0))))) \in Nat \ {0}
    BY <2>1, <1>6, <1>7
  <2>3. I(I(I(I(I(I(I(r0))))))) \in Nat \ {0}
    BY <2>2, <1>6, <1>7
  <2> QED BY <2>3, <1>2, <1>7
<1> QED BY <1>4, <1>7

\* A chain of calls keeps what each of them keeps.
LEMMA KeepsTrans ==
    ASSUME NEW u, NEW v, NEW w, Sound(u), Keeps(u, v), Keeps(v, w)
    PROVE  Keeps(u, w)
BY DEF Keeps

\* What execute() gives back leaves no LP token behind, and outside of the worker
\* there are as many as before.
Fair(w, r) ==
    r.ok => /\ r.pair \in Pair /\ r.lp \in Nat
            /\ r.left \in Purse /\ r.left.lp = 0
            /\ r.pair.supply - r.lp = w.pair.supply - w.has.lp

\* All strategies return the LP tokens they hold.
LEMMA ResultFair ==
    ASSUME NEW w, NEW v, Keeps(w, v), NEW base \in 0..v.has.base, NEW user \in 0..v.has.farm,
           NEW enough
    PROVE  Fair(w, Result(v, v.has.lp, base, user, enough))
<1> DEFINE r == Result(v, v.has.lp, base, user, enough)
<1>1. /\ v.pair \in Pair /\ v.has.lp \in Nat /\ v.has.base \in Nat /\ v.has.farm \in Nat
      /\ v.pair.supply - v.has.lp = w.pair.supply - w.has.lp
  BY DEF Keeps, Sound, Wallet, Purse
<1>2. /\ r.pair = v.pair /\ r.lp = v.has.lp
      /\ r.left = [lp |-> 0, base |-> v.has.base - base, farm |-> v.has.farm - user]
  BY <1>1 DEF Result
<1>3. r.left \in Purse /\ r.left.lp = 0
  BY <1>1, <1>2 DEF Purse
<1> QED BY <1>1, <1>2, <1>3 DEF Fair

\* The amounts to swap are integers.
LEMMA AmountToSwapType ==
    ASSUME NEW balance \in Nat, NEW rIn \in Nat
    PROVE  amountToSwap(balance, rIn) \in Int
<1> USE FeeAssumption
<1> DEFINE x == radicand(balance, rIn)
           y == sqrt(x)
           z == rIn * (feeDenom + fee)
<1>1. x \in Nat
  <2>1. fee \in Nat /\ feeDenom \in Nat
    OBVIOUS
  <2>2. balance * 4 * feeDenom * fee \in Nat
    BY <2>1
  <2>3. rIn * (feeDenom + fee) * (feeDenom + fee) \in Nat
    BY <2>1
  <2> QED BY <2>2, <2>3 DEF radicand
<1> HIDE DEF x
<1>2. y \in Nat /\ z \in Nat
  BY <1>1, SqrtType
<1> HIDE DEF y, z
<1>3. (y - z) \div (2 * fee) \in Int
  BY <1>2
<1> QED BY <1>3 DEF amountToSwap, x, y, z

\* The optimal amount to swap is an integer: no divisor is zero.
LEMMA OptimalDepositType ==
    ASSUME NEW a \in Nat, NEW b \in Nat, NEW resA \in Nat, NEW resB \in Nat \ {0},
           b * resA <= a * resB
    PROVE  optimalDepositA(a, b, resA, resB) \in Int
<1> USE FeeAssumption
<1> DEFINE m == (feeDenom + fee) * resA
           d == (a * resB - b * resA) * feeDenom
           q == d \div (b + resB)
           c == q * resA
           x == m * m + 4 * fee * c
           y == sqrt(x)
<1>1. fee \in Nat \ {0} /\ feeDenom \in Nat
  OBVIOUS
<1>2. m \in Nat
  BY <1>1
<1>3. a * resB - b * resA \in Nat
  OBVIOUS
<1>4. d \in Nat
  BY <1>1, <1>3
<1>5. optimalDepositA(a, b, resA, resB) = (y - m) \div (2 * fee)
  BY DEF optimalDepositA
<1> HIDE DEF m, d
<1>6. q \in Nat
  BY <1>4, FloorBounds
<1> HIDE DEF q
<1>7. c \in Nat
  BY <1>6
<1> HIDE DEF c
<1>8. x \in Nat
  BY <1>1, <1>2, <1>7
<1> HIDE DEF x
<1>9. y \in Nat
  BY <1>8, SqrtType
<1> HIDE DEF y
<1>10. (y - m) \div (2 * fee) \in Int
  BY <1>1, <1>2, <1>9
<1> QED BY <1>5, <1>10

\* The two strategies that add liquidity.
LEMMA AddBaseFair ==
    ASSUME NEW w, Sound(w), NEW min
    PROVE  Fair(w, AddBaseTokenOnly(w, min))
<1> DEFINE a == amountToSwap(w.has.base, w.pair.base)
           swapped == swapExactTokensForTokens(w, "base", "farm", a)
           added == addLiquidity(swapped)
<1>1. a \in Int
  BY AmountToSwapType DEF Sound, Wallet, Pair, Purse
<1>2. Keeps(w, swapped)
  <2> HIDE DEF a
  <2> QED BY <1>1, SellKeeps DEF Tokens
<1> HIDE DEF swapped
<1>3. Sound(swapped)
  BY <1>2 DEF Keeps
<1>4. Keeps(swapped, added)
  BY <1>3, AddKeeps
<1> HIDE DEF added
<1>5. Keeps(w, added)
  BY <1>2, <1>4, KeepsTrans
<1>6. 0 \in 0..added.has.base /\ 0 \in 0..added.has.farm
  BY <1>5 DEF Keeps, Sound, Wallet, Purse
<1>7. Fair(w, Result(added, added.has.lp, 0, 0, added.has.lp - w.has.lp >= min))
  BY <1>5, <1>6, ResultFair
<1> QED BY <1>7 DEF AddBaseTokenOnly, added, swapped

\* AddTwoSidesOptimal: the side in excess is the one that is swapped.
LEMMA AddTwoFair ==
    ASSUME NEW u, Sound(u), NEW amount \in Nat, NEW min
    PROVE  Fair(u, AddTwoSidesOptimal(u, amount, min))
<1> DEFINE w == [u EXCEPT !.has.farm = @ + amount]
           more == IF w.has.base * w.pair.farm >= w.has.farm * w.pair.base THEN "base" ELSE "farm"
           less == CHOOSE t \in Tokens : t # more
           a == optimalDepositA(w.has[more], w.has[less], w.pair[more], w.pair[less])
           swapped == IF a > 0 THEN swapExactTokensForTokens(w, more, less, a) ELSE w
           added == addLiquidity(swapped)
<1>1. Keeps(u, w)
  <2> DEFINE h == [u.has EXCEPT !.farm = @ + amount]
  <2>1. u \in Wallet /\ u.has \in Purse /\ u.has.lp < u.pair.supply
    BY DEF Sound, Wallet
  <2>2. h \in Purse /\ h.lp = u.has.lp
    BY <2>1 DEF Purse
  <2>3. w = [u EXCEPT !.has = h]
    OBVIOUS
  <2> HIDE DEF h, w
  <2> QED BY <2>1, <2>2, <2>3 DEF Keeps, Sound, Wallet
<1>2. AddTwoSidesOptimal(u, amount, min)
        = Result(added, added.has.lp, 0, 0, added.has.lp - w.has.lp >= min)
  BY Zenon DEF AddTwoSidesOptimal
<1> HIDE DEF w
<1>3. /\ Sound(w) /\ w.has.base \in Nat /\ w.has.farm \in Nat
      /\ w.pair.base \in Nat \ {0} /\ w.pair.farm \in Nat \ {0}
  BY <1>1 DEF Keeps, Sound, Wallet, Pair, Purse
<1>4. \/ more = "base" /\ less = "farm" /\ w.has.base * w.pair.farm >= w.has.farm * w.pair.base
      \/ more = "farm" /\ less = "base" /\ w.has.base * w.pair.farm < w.has.farm * w.pair.base
  <2>1. less \in Tokens /\ less # more
    <3>1. \E t \in Tokens : t # more
      BY DEF Tokens
    <3> HIDE DEF more
    <3> QED BY <3>1, Zenon
  <2> DEFINE x == w.has.base * w.pair.farm
             y == w.has.farm * w.pair.base
  <2>2. x \in Int /\ y \in Int
    BY <1>3
  <2>3. (x >= y /\ more = "base") \/ (x < y /\ more = "farm")
    <3>1. more = IF x >= y THEN "base" ELSE "farm"
      OBVIOUS
    <3> HIDE DEF x, y, more
    <3> QED BY <2>2, <3>1
  <2> HIDE DEF less, x, y, more
  <2>4. (x >= y /\ more = "base" /\ less = "farm") \/ (x < y /\ more = "farm" /\ less = "base")
    BY <2>1, <2>3 DEF Tokens
  <2> QED BY <2>4 DEF x, y
<1> HIDE DEF more, less
<1>5. a \in Int
  <2>1. /\ w.has[more] \in Nat /\ w.has[less] \in Nat
        /\ w.pair[more] \in Nat /\ w.pair[less] \in Nat \ {0}
    BY <1>3, <1>4
  <2>2. w.has[less] * w.pair[more] <= w.has[more] * w.pair[less]
    <3>1. w.has.base * w.pair.farm \in Int /\ w.has.farm * w.pair.base \in Int
      BY <1>3
    <3> QED BY <1>4, <3>1
  <2> QED BY <2>1, <2>2, OptimalDepositType
<1> HIDE DEF a
<1>6. Keeps(w, swapped)
  <2>1. Keeps(w, w)
    BY <1>3 DEF Keeps
  <2>2. more \in Tokens /\ less \in Tokens /\ more # less
    BY <1>4 DEF Tokens
  <2>3. Keeps(w, swapExactTokensForTokens(w, more, less, a))
    BY <1>3, <1>5, <2>2, SellKeeps
  <2> QED BY <2>1, <2>3
<1> HIDE DEF swapped
<1>7. Sound(swapped)
  BY <1>6 DEF Keeps
<1>8. Keeps(swapped, added)
  BY <1>7, AddKeeps
<1> HIDE DEF added
<1>9. Keeps(u, swapped)
  BY <1>1, <1>6, KeepsTrans
<1>10. Keeps(u, added)
  BY <1>8, <1>9, KeepsTrans
<1>11. 0 \in 0..added.has.base /\ 0 \in 0..added.has.farm
  BY <1>10 DEF Keeps, Sound, Wallet, Purse
<1>12. Fair(u, Result(added, added.has.lp, 0, 0, added.has.lp - w.has.lp >= min))
  BY <1>10, <1>11, ResultFair
<1> QED BY <1>2, <1>12

\* The two that sell all farming tokens.
LEMMA SellFair ==
    ASSUME NEW w, Sound(w), NEW liquidity \in Nat, NEW min
    PROVE  Fair(w, SellLiquidity(w, liquidity, min))
<1> DEFINE removed == removeLiquidity(w, liquidity)
           sold == swapExactTokensForTokens(removed, "farm", "base", removed.has.farm)
<1>1. Keeps(w, removed)
  BY RemoveKeeps
<1> HIDE DEF removed
<1>2. Sound(removed) /\ removed.has.farm \in Int
  BY <1>1 DEF Keeps, Sound, Wallet, Purse
<1>3. Keeps(removed, sold)
  BY <1>2, SellKeeps DEF Tokens
<1> HIDE DEF sold
<1>4. Keeps(w, sold)
  BY <1>1, <1>3, KeepsTrans
<1>5. sold.has.base \in 0..sold.has.base /\ 0 \in 0..sold.has.farm
  BY <1>4 DEF Keeps, Sound, Wallet, Purse
<1>6. Fair(w, Result(sold, sold.has.lp, sold.has.base, 0, sold.has.base >= min))
  BY <1>4, <1>5, ResultFair
<1> QED BY <1>6 DEF SellLiquidity, sold, removed

\* The two that sell as much as the debt needs.
LEMMA SellForDebtFair ==
    ASSUME NEW w, Sound(w), NEW liquidity \in Nat, NEW debt \in Nat, NEW min
    PROVE  Fair(w, SellForDebt(w, liquidity, debt, min))
<1> DEFINE removed == removeLiquidity(w, liquidity)
           missing == remainingDebt(debt, removed.has.base)
           bought == swapTokensForExactTokens(removed, "farm", "base", missing)
           repaid == IF removed.ok /\ debt > removed.has.base THEN bought ELSE removed
<1>1. Keeps(w, removed)
  BY RemoveKeeps
<1>2. SellForDebt(w, liquidity, debt, min)
        = Result(repaid, repaid.has.lp, repaid.has.base, repaid.has.farm, repaid.has.farm >= min)
  BY DEF SellForDebt
<1> HIDE DEF removed
<1>3. Sound(removed) /\ missing \in Int
  BY <1>1 DEF Keeps, Sound, Wallet, Purse, remainingDebt
<1> HIDE DEF missing
<1>4. Keeps(removed, bought)
  BY <1>3, BuyKeeps DEF Tokens
<1> HIDE DEF bought
<1>5. Keeps(w, bought)
  BY <1>1, <1>4, KeepsTrans
<1>6. Keeps(w, repaid)
  BY <1>1, <1>5
<1> HIDE DEF repaid
<1>7. repaid.has.base \in 0..repaid.has.base /\ repaid.has.farm \in 0..repaid.has.farm
  BY <1>6 DEF Keeps, Sound, Wallet, Purse
<1>8. Fair(w, Result(repaid, repaid.has.lp, repaid.has.base, repaid.has.farm,
                     repaid.has.farm >= min))
  BY <1>6, <1>7, ResultFair
<1> QED BY <1>2, <1>8

\* Whatever strategy a user names and whatever arguments the user encodes.
LEMMA ExecutionsFair ==
    ASSUME NEW w, Sound(w), NEW debt \in Nat, NEW strat \in AllStrategies,
           NEW r \in Executions(strat, w, debt)
    PROVE  Fair(w, r)
<1> USE WorkerAssumption
<1>1. w.has.lp \in Nat
  BY DEF Sound, Wallet, Purse
<1>2. CASE strat = "AddBaseTokenOnly"
  BY <1>2, AddBaseFair DEF Executions
<1>3. CASE strat = "AddTwoSidesOptimal"
  BY <1>3, AddTwoFair DEF Executions
<1>4. CASE strat = "Liquidate"
  BY <1>1, <1>4, SellFair DEF Executions, Liquidate
<1>5. CASE strat = "PartialCloseLiquidate"
  <2>1. PICK amount \in LpAmounts, min \in Minima : r = PartialCloseLiquidate(w, amount, min)
    BY <1>5 DEF Executions
  <2>2. CASE amount <= w.has.lp
    BY <2>1, <2>2, SellFair DEF PartialCloseLiquidate
  <2>3. CASE ~(amount <= w.has.lp)
    BY <2>1, <2>3 DEF PartialCloseLiquidate, Result, Fair
  <2> QED BY <2>2, <2>3
<1>6. CASE strat = "WithdrawMinimizeTrading"
  BY <1>1, <1>6, SellForDebtFair DEF Executions, WithdrawMinimizeTrading
<1>7. CASE strat = "PartialCloseMinimizeTrading"
  <2>1. PICK amount \in LpAmounts, repayment \in Repayments, min \in Minima :
           r = PartialCloseMinimizeTrading(w, debt, amount, repayment, min)
    BY <1>7 DEF Executions
  <2>2. Min2(w.has.lp, amount) \in Nat /\ Min2(debt, repayment) \in Nat
    BY <1>1 DEF Min2
  <2> QED BY <2>1, <2>2, SellForDebtFair DEF PartialCloseMinimizeTrading
<1> QED BY <1>2, <1>3, <1>4, <1>5, <1>6, <1>7 DEF AllStrategies, addStrat, liqStrat
-----------------------------------------------------------------------------
(* The inductive invariant. *)

\* The shares are covered by the stake (StakeCoversShares): this is inductive only
\* with the types, for which the pair must never be emptied, the strategies must
\* leave no LP token behind and return no more LP tokens than there are.
FarmingOK ==
    /\ shares \in [Ids -> Nat] /\ totalShare \in Nat /\ staked \in Nat
    /\ StakeCoversShares

MarketOK ==
    /\ lp \in Nat /\ reward \in Nat /\ pair \in Pair
    /\ left \in [AllStrategies -> Purse]
    /\ \A s \in AllStrategies : left[s].lp = 0
    /\ staked + lp < pair.supply

IInv == FarmingOK /\ MarketOK

\* _removeShare: the balance is part of the stake, and what is left of the stake
\* covers what is left of the shares, at a price that has not fallen.
LEMMA RemoveShareFacts ==
    ASSUME FarmingOK, NEW id \in Ids
    PROVE  /\ shares[id] \in 0..totalShare
           /\ balanceOf(id) \in 0..staked
           /\ TotalShareLeft(id) \in Nat /\ TotalShareLeft(id) = totalShare - shares[id]
           /\ StakeLeft(id) \in Nat /\ StakeLeft(id) = staked - balanceOf(id)
           /\ TotalShareLeft(id) <= StakeLeft(id)
           /\ staked * TotalShareLeft(id) <= StakeLeft(id) * totalShare
<1>1. /\ IsFiniteSet(Ids) /\ NatOn(shares, Ids) /\ totalShare \in Nat /\ staked \in Nat
      /\ totalShare = SumFunctionOnSet(shares, Ids) /\ totalShare <= staked
      /\ shares[id] \in Nat
  BY WorkerAssumption DEF FarmingOK, StakeCoversShares, NatOn
<1>2. shares[id] \in 0..totalShare
  <2>1. \A x \in Ids : shares[x] <= SumFunctionOnSet(shares, Ids)
    BY <1>1, SumOfNats
  <2> QED BY <1>1, <2>1
<1>3. CASE totalShare = 0
  <2>1. shares[id] = 0 /\ balanceOf(id) = 0
    BY <1>2, <1>3 DEF balanceOf, shareToBalance
  <2> QED BY <1>1, <1>3, <2>1 DEF TotalShareLeft, StakeLeft
<1>4. CASE totalShare # 0
  <2> DEFINE q == (shares[id] * staked) \div totalShare
  <2>1. totalShare \in Nat \ {0}
    BY <1>1, <1>4
  <2>2. /\ q \in 0..staked /\ (staked - q) * totalShare >= staked * (totalShare - shares[id])
        /\ totalShare - shares[id] <= staked - q
    BY <1>1, <1>2, <2>1, RemoveRounds
  <2>3. balanceOf(id) = q
    BY <1>4 DEF balanceOf, shareToBalance
  <2> HIDE DEF q
  <2>4. TotalShareLeft(id) = totalShare - shares[id] /\ StakeLeft(id) = staked - q
    BY <2>3 DEF TotalShareLeft, StakeLeft
  <2>5. (staked - q) * totalShare \in Int /\ staked * (totalShare - shares[id]) \in Int
    BY <1>1, <2>2
  <2> QED BY <1>1, <1>2, <2>2, <2>3, <2>4, <2>5
<1> QED BY <1>3, <1>4

\* A call that takes id's shares away and credits it for balance LP tokens.
ShareMoves(id, balance) ==
    /\ id \in Ids /\ balance \in Nat /\ CanAddShare(id, balance)
    /\ shares' = [shares EXCEPT ![id] = AddedShare(id, balance)]
    /\ totalShare' = TotalShareLeft(id) + AddedShare(id, balance)
    /\ staked' = StakeLeft(id) + balance

\* _addShare: the share credited is rounded down.
LEMMA AddShareFacts ==
    ASSUME FarmingOK, NEW id, NEW balance, ShareMoves(id, balance)
    PROVE  LET share == AddedShare(id, balance)
               T1 == TotalShareLeft(id)
               S1 == StakeLeft(id)
           IN  /\ share \in 0..balance
               /\ S1 * share <= balance * T1 \/ T1 = 0
               /\ balance * T1 < S1 * share + S1 \/ S1 = 0
               /\ T1 = 0 => share = balance
<1> DEFINE share == AddedShare(id, balance)
           T1 == TotalShareLeft(id)
           S1 == StakeLeft(id)
<1>1. /\ id \in Ids /\ balance \in Nat
      /\ balance > 0 /\ T1 > 0 => S1 > 0
  BY DEF ShareMoves, CanAddShare
<1>2. T1 \in Nat /\ S1 \in Nat /\ T1 <= S1
  BY <1>1, RemoveShareFacts
<1>3. share = IF balance = 0 THEN 0 ELSE IF T1 = 0 THEN balance ELSE (balance * T1) \div S1
  BY DEF AddedShare, balanceToShare
<1> HIDE DEF share, T1, S1
<1>4. CASE balance = 0
  <2>1. share = 0 /\ S1 * share = 0 /\ balance * T1 = 0
    BY <1>2, <1>3, <1>4
  <2> QED BY <2>1, <1>2, <1>4 DEF share, T1, S1
<1>5. CASE balance # 0 /\ T1 = 0
  <2>1. share = balance /\ balance * T1 = 0 /\ S1 * share \in Nat
    BY <1>1, <1>2, <1>3, <1>5
  <2> QED BY <2>1, <1>1, <1>2, <1>5 DEF share, T1, S1
<1>6. CASE balance # 0 /\ T1 # 0
  <2>1. S1 \in Nat \ {0} /\ T1 \in 0..S1 /\ balance * T1 \in Nat
    BY <1>1, <1>2, <1>6
  <2>2. share = (balance * T1) \div S1
    BY <1>3, <1>6
  <2>3. share \in 0..balance
    BY <1>1, <2>1, <2>2, FractionBounds
  <2>4. S1 * share <= balance * T1 /\ balance * T1 < S1 * share + S1
    BY <2>1, <2>2, FloorBounds
  <2> QED BY <2>3, <2>4, <1>6 DEF share, T1, S1
<1> QED BY <1>4, <1>5, <1>6

\* Such a call keeps the shares covered.
LEMMA ShareMovesKeep ==
    ASSUME FarmingOK, NEW id, NEW balance, ShareMoves(id, balance)
    PROVE  FarmingOK'
<1> DEFINE share == AddedShare(id, balance)
           T1 == TotalShareLeft(id)
           S1 == StakeLeft(id)
<1>1. /\ id \in Ids /\ balance \in Nat
      /\ shares' = [shares EXCEPT ![id] = share]
      /\ totalShare' = T1 + share /\ staked' = S1 + balance
      /\ shares \in [Ids -> Nat] /\ totalShare \in Nat
      /\ totalShare = SumFunctionOnSet(shares, Ids) /\ IsFiniteSet(Ids)
  BY WorkerAssumption DEF ShareMoves, FarmingOK, StakeCoversShares
<1>2. T1 \in Nat /\ S1 \in Nat /\ T1 <= S1 /\ T1 = totalShare - shares[id]
  BY <1>1, RemoveShareFacts
<1>3. share \in 0..balance
  BY AddShareFacts
<1> HIDE DEF share, T1, S1
<1>4. shares' \in [Ids -> Nat] /\ shares'[id] = share /\ share \in Nat /\ shares[id] \in Nat
  BY <1>1, <1>3
<1>5. PICK g : g = shares'
  OBVIOUS
<1>6. SumFunctionOnSet(g, Ids) = SumFunctionOnSet(shares, Ids) - shares[id] + g[id]
  <2>1. Differ(shares, g, Ids, id)
    BY <1>1, <1>3, <1>4, <1>5 DEF Differ
  <2> QED BY <1>1, <2>1, SumChange
<1>7. totalShare' = SumFunctionOnSet(shares', Ids)
  BY <1>1, <1>2, <1>4, <1>5, <1>6
<1>8. totalShare' \in Nat /\ staked' \in Nat /\ totalShare' <= staked'
  BY <1>1, <1>2, <1>3
<1> QED BY <1>4, <1>7, <1>8 DEF FarmingOK, StakeCoversShares

\* What the strategies are given is sound.
LEMMA FundedSound ==
    ASSUME IInv, NEW strat \in AllStrategies, NEW amount \in Nat, amount <= staked + lp,
           NEW base \in Nat
    PROVE  /\ Sound(Funded(strat, amount, base))
           /\ Funded(strat, amount, base).has.lp = amount
           /\ Funded(strat, amount, base).pair = pair
<1> DEFINE w == Funded(strat, amount, base)
           h == [left[strat] EXCEPT !.lp = @ + amount, !.base = @ + base]
<1>1. /\ left[strat] \in Purse /\ left[strat].lp = 0 /\ pair \in Pair
      /\ staked \in Nat /\ lp \in Nat /\ staked + lp < pair.supply /\ pair.supply \in Nat
  BY DEF IInv, FarmingOK, MarketOK, Pair
<1>2. h \in Purse /\ h.lp = amount
  <2> DEFINE x == left[strat]
  <2>1. x \in Purse /\ x.lp = 0
    BY <1>1
  <2>2. h = [x EXCEPT !.lp = @ + amount, !.base = @ + base]
    OBVIOUS
  <2>3. x.base \in Nat /\ x.farm \in Nat
    BY <2>1 DEF Purse
  <2>4. h = [lp |-> x.lp + amount, base |-> x.base + base, farm |-> x.farm]
    <3> HIDE DEF x, h
    <3> QED BY <2>1, <2>2 DEF Purse
  <2> HIDE DEF x, h
  <2> QED BY <2>1, <2>3, <2>4 DEF Purse
<1>3. w = [ok |-> TRUE, pair |-> pair, has |-> h]
  BY DEF Funded
<1> HIDE DEF w, h
<1>4. w \in Wallet /\ w.has = h /\ w.pair = pair
  BY <1>1, <1>2, <1>3 DEF Wallet
<1> QED BY <1>1, <1>2, <1>4 DEF Sound, w

\* The strategy ran: the pair and the leftovers are as they should be.
LEMMA ExecutedMarket ==
    ASSUME IInv, NEW strat \in AllStrategies, NEW amount \in Nat, amount <= staked + lp,
           NEW base \in Nat, NEW r, NEW paid,
           Fair(Funded(strat, amount, base), r), Executed(strat, r, paid)
    PROVE  /\ pair' \in Pair /\ r.lp \in Nat
           /\ left' \in [AllStrategies -> Purse]
           /\ \A s \in AllStrategies : left'[s].lp = 0
           /\ pair'.supply - r.lp = pair.supply - amount
<1>1. /\ r.ok /\ pair' = r.pair /\ left' = [left EXCEPT ![strat] = r.left]
  BY DEF Executed
<1>2. /\ r.pair \in Pair /\ r.lp \in Nat /\ r.left \in Purse /\ r.left.lp = 0
      /\ r.pair.supply - r.lp = pair.supply - amount
  BY <1>1, FundedSound DEF Fair
<1>3. left \in [AllStrategies -> Purse] /\ \A s \in AllStrategies : left[s].lp = 0
  BY DEF IInv, MarketOK
<1> QED BY <1>1, <1>2, <1>3

\* work keeps the invariant and moves shares.
LEMMA WorkStep ==
    ASSUME IInv, NEW id \in Ids, NEW strat \in AllStrategies, NEW base \in BaseAmounts,
           NEW debt \in Debts, work(id, strat, base, debt)
    PROVE  IInv' /\ (\E balance : ShareMoves(id, balance)) /\ reward' = reward
<1> DEFINE bal == balanceOf(id)
           w == Funded(strat, lp + bal, base)
<1>1. PICK r \in Executions(strat, w, debt) :
        /\ Executed(strat, r, r.base) /\ CanAddShare(id, r.lp)
        /\ shares' = [shares EXCEPT ![id] = AddedShare(id, r.lp)]
        /\ totalShare' = TotalShareLeft(id) + AddedShare(id, r.lp)
        /\ staked' = StakeLeft(id) + r.lp
  BY Zenon DEF work
<1>2. lp' = 0 /\ reward' = reward
  BY DEF work
<1>3. base \in Nat /\ debt \in Nat /\ lp \in Nat /\ staked \in Nat /\ reward \in Nat
      /\ pair.supply \in Nat /\ staked + lp < pair.supply
  BY WorkerAssumption DEF IInv, FarmingOK, MarketOK, Pair
<1>4. bal \in 0..staked /\ StakeLeft(id) = staked - bal
  BY RemoveShareFacts DEF IInv
<1> HIDE DEF bal
<1>5. lp + bal \in Nat /\ lp + bal <= staked + lp
  BY <1>3, <1>4
<1>6. Sound(w)
  BY <1>3, <1>5, FundedSound
<1> HIDE DEF w
<1>7. Fair(w, r)
  BY <1>1, <1>3, <1>6, ExecutionsFair
<1>8. /\ pair' \in Pair /\ r.lp \in Nat /\ left' \in [AllStrategies -> Purse]
      /\ \A s \in AllStrategies : left'[s].lp = 0
      /\ pair'.supply - r.lp = pair.supply - (lp + bal)
  <2> DEFINE a == lp + bal
  <2>1. Fair(Funded(strat, a, base), r) /\ a \in Nat /\ a <= staked + lp
    BY <1>5, <1>7 DEF w
  <2> HIDE DEF a
  <2>2. /\ pair' \in Pair /\ r.lp \in Nat /\ left' \in [AllStrategies -> Purse]
        /\ \A s \in AllStrategies : left'[s].lp = 0
        /\ pair'.supply - r.lp = pair.supply - a
    BY <1>1, <1>3, <2>1, ExecutedMarket
  <2> QED BY <2>2 DEF a
<1>9. ShareMoves(id, r.lp)
  BY <1>1, <1>8 DEF ShareMoves
<1>10. FarmingOK'
  BY <1>9, ShareMovesKeep DEF IInv
<1>11. MarketOK'
  <2>1. staked' + lp' < pair'.supply
    <3>1. pair'.supply \in Nat
      BY <1>8 DEF Pair
    <3> QED BY <3>1, <1>1, <1>2, <1>3, <1>4, <1>8
  <2> QED BY <2>1, <1>2, <1>3, <1>8 DEF MarketOK
<1> QED BY <1>2, <1>9, <1>10, <1>11 DEF IInv

\* liquidate keeps the invariant: it credits nothing.
LEMMA LiquidateStep ==
    ASSUME IInv, NEW id \in Ids, liquidate(id)
    PROVE  IInv' /\ ShareMoves(id, 0) /\ reward' = reward
<1> DEFINE bal == balanceOf(id)
           w == Funded(liqStrat, lp + bal, 0)
           r == Liquidate(w, 0)
<1>1. /\ Executed(liqStrat, r, r.base) /\ lp' = r.lp
      /\ shares' = [shares EXCEPT ![id] = 0]
      /\ totalShare' = TotalShareLeft(id) /\ staked' = StakeLeft(id) /\ reward' = reward
  BY DEF liquidate
<1>2. /\ lp \in Nat /\ staked \in Nat /\ reward \in Nat
      /\ pair.supply \in Nat /\ staked + lp < pair.supply
  BY DEF IInv, FarmingOK, MarketOK, Pair
<1>3. /\ bal \in 0..staked /\ StakeLeft(id) = staked - bal /\ TotalShareLeft(id) \in Nat
      /\ StakeLeft(id) \in Nat
  BY RemoveShareFacts DEF IInv
<1> HIDE DEF bal
<1>4. lp + bal \in Nat /\ lp + bal <= staked + lp /\ liqStrat \in AllStrategies
  BY <1>2, <1>3 DEF AllStrategies
<1>5. Sound(w)
  BY <1>4, FundedSound
<1>6. Fair(w, r)
  <2> HIDE DEF w
  <2>1. w.has.lp \in Nat
    BY <1>5 DEF Sound, Wallet, Purse
  <2> QED BY <1>5, <2>1, SellFair DEF Liquidate
<1> HIDE DEF r
<1>7. /\ pair' \in Pair /\ r.lp \in Nat /\ left' \in [AllStrategies -> Purse]
      /\ \A s \in AllStrategies : left'[s].lp = 0
      /\ pair'.supply - r.lp = pair.supply - (lp + bal)
  <2> DEFINE a == lp + bal
  <2>1. Fair(Funded(liqStrat, a, 0), r) /\ a \in Nat /\ a <= staked + lp
    BY <1>4, <1>6
  <2> HIDE DEF a, w
  <2>2. /\ pair' \in Pair /\ r.lp \in Nat /\ left' \in [AllStrategies -> Purse]
        /\ \A s \in AllStrategies : left'[s].lp = 0
        /\ pair'.supply - r.lp = pair.supply - a
    BY <1>1, <1>4, <2>1, ExecutedMarket
  <2> QED BY <2>2 DEF a
<1> HIDE DEF w
<1>8. ShareMoves(id, 0)
  BY <1>1, <1>3 DEF ShareMoves, CanAddShare, AddedShare
<1>9. FarmingOK'
  BY <1>8, ShareMovesKeep DEF IInv
<1>10. MarketOK'
  <2>1. staked' + lp' < pair'.supply
    <3>1. pair'.supply \in Nat
      BY <1>7 DEF Pair
    <3> QED BY <3>1, <1>1, <1>2, <1>3, <1>7
  <2> QED BY <2>1, <1>1, <1>2, <1>7 DEF MarketOK
<1> QED BY <1>1, <1>8, <1>9, <1>10 DEF IInv

\* reinvest keeps the invariant: it adds to the stake and not to the shares.
LEMMA ReinvestStep ==
    ASSUME IInv, NEW sender, NEW base \in CakeSwaps, reinvest(sender, base)
    PROVE  /\ IInv' /\ staked' >= staked /\ staked' \in Nat
           /\ shares' = shares /\ totalShare' = totalShare
<1> DEFINE w == Funded(addStrat, 0, base)
           r == AddBaseTokenOnly(w, 0)
<1>1. /\ Executed(addStrat, r, 0) /\ lp' = 0 /\ reward' = 0
      /\ staked' = staked + lp + r.lp /\ shares' = shares /\ totalShare' = totalShare
  BY DEF reinvest
<1>2. /\ base \in Nat /\ lp \in Nat /\ staked \in Nat
      /\ pair.supply \in Nat /\ staked + lp < pair.supply
      /\ addStrat \in AllStrategies /\ 0 <= staked + lp
  BY WorkerAssumption DEF IInv, FarmingOK, MarketOK, Pair, AllStrategies
<1>3. Sound(w)
  BY <1>2, FundedSound
<1>4. Fair(w, r)
  <2> HIDE DEF w
  <2> QED BY <1>3, AddBaseFair
<1> HIDE DEF r
<1>5. /\ pair' \in Pair /\ r.lp \in Nat /\ left' \in [AllStrategies -> Purse]
      /\ \A s \in AllStrategies : left'[s].lp = 0
      /\ pair'.supply - r.lp = pair.supply - 0
  BY <1>1, <1>2, <1>4, ExecutedMarket
<1> HIDE DEF w
<1>6. staked' \in Nat /\ staked' >= staked
  BY <1>1, <1>2, <1>5
<1>7. FarmingOK'
  <2>1. shares \in [Ids -> Nat] /\ totalShare \in Nat
        /\ totalShare = SumFunctionOnSet(shares, Ids) /\ totalShare <= staked
    BY DEF IInv, FarmingOK, StakeCoversShares
  <2>2. totalShare' <= staked'
    BY <2>1, <1>1, <1>2, <1>6
  <2> QED BY <1>1, <1>6, <2>1, <2>2 DEF FarmingOK, StakeCoversShares
<1>8. MarketOK'
  <2>1. staked' + lp' < pair'.supply
    <3>1. pair'.supply \in Nat
      BY <1>5 DEF Pair
    <3> QED BY <3>1, <1>1, <1>2, <1>5
  <2> QED BY <2>1, <1>1, <1>5 DEF MarketOK
<1> QED BY <1>1, <1>6, <1>7, <1>8 DEF IInv

\* A trade by somebody else leaves both reserves of the pair positive.
LEMMA TradeStep ==
    ASSUME IInv, NEW in \in Tokens, NEW out \in Tokens, in # out, NEW amount \in Trades,
           Trade(in, out, amount)
    PROVE  pair' \in Pair /\ pair'.supply = pair.supply
<1> DEFINE w == [ok |-> TRUE, pair |-> pair, has |-> [base |-> amount, farm |-> amount]]
           v == swapExactTokensForTokens(w, in, out, amount)
           a == getAmountOut(amount, pair[in], pair[out])
<1>1. v.ok /\ pair' = v.pair
  BY DEF Trade
<1>2. /\ amount \in Nat /\ pair \in Pair
      /\ pair[in] \in Nat \ {0} /\ pair[out] \in Nat \ {0}
      /\ (in = "base" /\ out = "farm") \/ (in = "farm" /\ out = "base")
  BY WorkerAssumption DEF IInv, MarketOK, Pair, Tokens
<1>3. a \in 0..(pair[out] - 1)
  BY <1>2, AmountOutBelow
<1> HIDE DEF a
<1>4. v = IF HasReserves(w) /\ amount > 0 THEN Swap(w, in, out, amount, a) ELSE Reverted(w)
  BY DEF swapExactTokensForTokens, a
<1>5. v = Swap(w, in, out, amount, a) /\ w.has[in] = amount
  BY <1>1, <1>2, <1>4 DEF Reverted
<1>6. v = [w EXCEPT !.has[in] = @ - amount, !.has[out] = @ + a,
                    !.pair[in] = @ + amount, !.pair[out] = @ - a]
  BY <1>1, <1>5 DEF Swap, Reverted
<1>7. v.pair = [pair EXCEPT ![in] = @ + amount, ![out] = @ - a]
  BY <1>2, <1>6
<1> HIDE DEF v
<1> QED BY <1>1, <1>2, <1>3, <1>7 DEF Pair

\* The market and the settings: neither the shares nor the stake change.
Elsewhere ==
    \/ \E sender \in Reinvestors, isOk \in BOOLEAN : setReinvestorOk(sender, isOk)
    \/ \E bps \in Bounties : setReinvestBountyBps(bps) \/ setMaxReinvestBountyBps(bps)
    \/ \E strats \in StrategySets, isOk \in BOOLEAN :
          setStrategyOk(strats, isOk) \/ setWorkersOk(strats, isOk)
    \/ \E amount \in Rewards : Earn(amount)
    \/ \E in, out \in Tokens, amount \in Trades : in # out /\ Trade(in, out, amount)
    \/ \E amount \in Donations : Donate(amount)

\* Settings, rewards, trades and gifts leave the shares and the stake alone.
LEMMA ElsewhereStep ==
    ASSUME IInv, Elsewhere \/ UNCHANGED vars
    PROVE  /\ IInv' /\ shares' = shares /\ totalShare' = totalShare /\ staked' = staked
           /\ ~(reward' < reward)
<1>1. /\ lp \in Nat /\ reward \in Nat /\ pair \in Pair /\ staked \in Nat
      /\ staked + lp < pair.supply
  BY DEF IInv, FarmingOK, MarketOK
<1>2. /\ shares' = shares /\ totalShare' = totalShare /\ staked' = staked /\ left' = left
  BY DEF Elsewhere, vars, farming, setReinvestorOk, setReinvestBountyBps,
         setMaxReinvestBountyBps, setStrategyOk, setWorkersOk, Setting, Market,
         Earn, Trade, Donate
<1>3. FarmingOK'
  BY <1>2 DEF IInv, FarmingOK, StakeCoversShares
<1>4. /\ lp' \in Nat /\ reward' \in Nat /\ reward' >= reward /\ pair' \in Pair
      /\ staked + lp' < pair'.supply
  <2>1. ASSUME NEW amount \in Rewards, Earn(amount)
        PROVE  lp' = lp /\ pair' = pair /\ reward' \in Nat /\ reward' >= reward
    BY <1>1, <2>1, WorkerAssumption DEF Earn
  <2>2. ASSUME NEW amount \in Donations, Donate(amount)
        PROVE  /\ lp' \in Nat /\ pair' = pair /\ reward' = reward /\ staked + lp' < pair.supply
    <3>1. amount \in Nat /\ staked + lp + amount < pair.supply /\ lp' = lp + amount
          /\ pair' = pair /\ reward' = reward
      BY <2>2, WorkerAssumption DEF Donate
    <3> QED BY <3>1, <1>1
  <2>3. ASSUME NEW in \in Tokens, NEW out \in Tokens, in # out, NEW amount \in Trades,
               Trade(in, out, amount)
        PROVE  lp' = lp /\ reward' = reward /\ pair' \in Pair /\ pair'.supply = pair.supply
    BY <2>3, TradeStep DEF Trade
  <2>4. ASSUME \/ UNCHANGED vars
               \/ \E sender \in Reinvestors, isOk \in BOOLEAN : setReinvestorOk(sender, isOk)
               \/ \E bps \in Bounties : setReinvestBountyBps(bps) \/ setMaxReinvestBountyBps(bps)
               \/ \E strats \in StrategySets, isOk \in BOOLEAN :
                     setStrategyOk(strats, isOk) \/ setWorkersOk(strats, isOk)
        PROVE  lp' = lp /\ reward' = reward /\ pair' = pair
    BY <2>4 DEF vars, farming, setReinvestorOk, setReinvestBountyBps,
                setMaxReinvestBountyBps, setStrategyOk, setWorkersOk, Setting
  <2>5. CASE \E amount \in Rewards : Earn(amount)
    BY <1>1, <2>1, <2>5
  <2>6. CASE \E amount \in Donations : Donate(amount)
    BY <1>1, <2>2, <2>6
  <2>7. CASE \E in, out \in Tokens, amount \in Trades : in # out /\ Trade(in, out, amount)
    BY <1>1, <2>3, <2>7
  <2> QED BY <1>1, <2>4, <2>5, <2>6, <2>7 DEF Elsewhere
<1>5. MarketOK'
  BY <1>2, <1>4 DEF IInv, MarketOK
<1> QED BY <1>1, <1>2, <1>3, <1>4, <1>5 DEF IInv

\* Every step is one of these.
LEMMA NextCases ==
    ASSUME Next
    PROVE  \/ \E id \in Ids : liquidate(id)
           \/ \E id \in Ids, strat \in AllStrategies, base \in BaseAmounts, debt \in Debts :
                 work(id, strat, base, debt)
           \/ \E sender \in Reinvestors, base \in CakeSwaps : reinvest(sender, base)
           \/ Elsewhere
BY DEF Next, Elsewhere

\* The inductive invariant holds of a worker that has just been initialized.
LEMMA InvInit == Init => IInv
<1> SUFFICES ASSUME Init PROVE IInv
  OBVIOUS
<1>1. /\ shares \in [Ids -> Nat] /\ totalShare = 0 /\ staked = 0 /\ lp = 0 /\ reward = 0
      /\ \A id \in Ids : shares[id] = 0
      /\ pair \in Pair
  BY WorkerAssumption DEF Init, Pair
<1>2. left \in [AllStrategies -> Purse] /\ \A s \in AllStrategies : left[s].lp = 0
  BY DEF Init, Purse
<1>3. SumFunctionOnSet(shares, Ids) = 0
  BY <1>1, WorkerAssumption, SumOfZeros
<1>4. FarmingOK
  BY <1>1, <1>3 DEF FarmingOK, StakeCoversShares
<1>5. MarketOK
  BY <1>1, <1>2 DEF MarketOK, Pair
<1> QED BY <1>4, <1>5 DEF IInv

\* Every action preserves it.
LEMMA InvNext == IInv /\ [Next]_vars => IInv'
<1> SUFFICES ASSUME IInv, [Next]_vars PROVE IInv'
  OBVIOUS
<1>1. CASE Elsewhere \/ UNCHANGED vars
  BY <1>1, ElsewhereStep
<1>2. CASE \E id \in Ids : liquidate(id)
  BY <1>2, LiquidateStep
<1>3. CASE \E id \in Ids, strat \in AllStrategies, base \in BaseAmounts, debt \in Debts :
              work(id, strat, base, debt)
  BY <1>3, WorkStep
<1>4. CASE \E sender \in Reinvestors, base \in CakeSwaps : reinvest(sender, base)
  BY <1>4, ReinvestStep
<1> QED BY <1>1, <1>2, <1>3, <1>4, NextCases

\* The inductive invariant holds of every behaviour of the worker.
LEMMA Invariance == Spec => []IInv
<1> QED BY InvInit, InvNext, PTL DEF Spec

\* PancakeswapV2Worker.sol _addShare and _removeShare: the shares add up and the stake
\* covers them one for one, whatever strategies run against the pair and whoever else
\* trades on it.
THEOREM SharesCovered == Spec => []StakeCoversShares
<1>1. IInv => StakeCoversShares
  BY DEF IInv, FarmingOK
<1> QED BY <1>1, Invariance, PTL
-----------------------------------------------------------------------------
(* What a step does to the positions. *)

\* A step that moves shares raises the price of the others'.
LEMMA OthersBalance ==
    ASSUME FarmingOK, NEW id, NEW balance, ShareMoves(id, balance),
           NEW other \in Ids, other # id
    PROVE  balanceOf(other)' >= balanceOf(other)
<1> DEFINE share == AddedShare(id, balance)
           T1 == TotalShareLeft(id)
           S1 == StakeLeft(id)
           s == shares[other]
           T == totalShare
           S == staked
<1>1. /\ id \in Ids /\ balance \in Nat
      /\ shares' = [shares EXCEPT ![id] = share]
      /\ totalShare' = T1 + share /\ staked' = S1 + balance
      /\ shares \in [Ids -> Nat] /\ T \in Nat /\ S \in Nat
      /\ T = SumFunctionOnSet(shares, Ids)
  BY DEF ShareMoves, FarmingOK, StakeCoversShares
<1>2. /\ T1 \in Nat /\ S1 \in Nat /\ T1 = T - shares[id] /\ S * T1 <= S1 * T
      /\ shares[id] \in 0..T
  BY <1>1, RemoveShareFacts
<1>3. /\ share \in 0..balance /\ (S1 * share <= balance * T1 \/ T1 = 0)
  BY AddShareFacts
<1>4. /\ balanceOf(other) = shareToBalance(s, T, S)
      /\ balanceOf(other)' = shareToBalance(s, totalShare', staked')
      /\ s \in Nat
  BY <1>1 DEF balanceOf
<1>5. s <= T1
  <2> DEFINE g == [shares EXCEPT ![id] = 0]
  <2>1. IsFiniteSet(Ids) /\ NatOn(g, Ids) /\ Differ(shares, g, Ids, id) /\ g[id] = 0 /\ g[other] = s
    BY <1>1, WorkerAssumption DEF NatOn, Differ
  <2> HIDE DEF g
  <2>2. SumFunctionOnSet(g, Ids) = SumFunctionOnSet(shares, Ids) - shares[id] + g[id]
    BY <1>1, <2>1, SumChange
  <2>3. \A x \in Ids : g[x] <= SumFunctionOnSet(g, Ids)
    BY <2>1, SumOfNats
  <2>4. SumFunctionOnSet(g, Ids) = T1
    BY <1>1, <1>2, <2>1, <2>2
  <2> QED BY <2>1, <2>3, <2>4
<1> HIDE DEF share, T1, S1, s, T, S
<1>6. CASE s = 0
  <2>1. \A t \in Nat, z \in Nat : shareToBalance(0, t, z) = 0
    <3> TAKE t \in Nat, z \in Nat
    <3>1. t # 0 => (0 * z) \div t = 0
      BY ZeroDiv
    <3> QED BY <3>1 DEF shareToBalance
  <2>2. totalShare' \in Nat /\ staked' \in Nat
    BY ShareMovesKeep DEF FarmingOK
  <2> QED BY <1>1, <1>4, <1>6, <2>1, <2>2
<1>7. CASE s # 0
  <2> DEFINE T2 == T1 + share
             S2 == S1 + balance
  <2>1. T1 \in Nat \ {0} /\ T \in Nat \ {0} /\ T2 \in Nat \ {0} /\ S2 \in Nat /\ share \in Nat
    BY <1>1, <1>2, <1>3, <1>4, <1>5, <1>7
  <2>2. S1 * T2 <= S2 * T1
    <3>1. S1 * share <= balance * T1
      BY <1>3, <2>1
    <3>2. S1 * T2 = S1 * T1 + S1 * share
      BY <1>2, <2>1, Distribute
    <3>3. S2 * T1 = S1 * T1 + balance * T1
      BY <1>1, <1>2, <2>1
    <3>4. S1 * T1 \in Int /\ S1 * share \in Int /\ balance * T1 \in Int
      BY <1>1, <1>2, <2>1
    <3> HIDE DEF T2, S2
    <3> QED BY <3>1, <3>2, <3>3, <3>4
  <2> HIDE DEF T2, S2
  <2>3. (s * S) \div T <= (s * S1) \div T1
    BY <1>1, <1>2, <1>4, <2>1, RatioMono
  <2>4. (s * S1) \div T1 <= (s * S2) \div T2
    BY <1>2, <1>4, <2>1, <2>2, RatioMono
  <2>5. (s * S) \div T \in Int /\ (s * S1) \div T1 \in Int /\ (s * S2) \div T2 \in Int
    BY <1>1, <1>2, <1>4, <2>1
  <2>6. (s * S) \div T <= (s * S2) \div T2
    BY <2>3, <2>4, <2>5
  <2>7. /\ balanceOf(other) = (s * S) \div T
        /\ balanceOf(other)' = (s * S2) \div T2
    BY <1>1, <1>4, <2>1 DEF shareToBalance, T2, S2
  <2> QED BY <2>5, <2>6, <2>7
<1> QED BY <1>6, <1>7

\* Every step moves the shares of one position and spends no reward, or adds to the stake alone.
LEMMA StepKinds ==
    ASSUME IInv, [Next]_vars
    PROVE  \/ (\E id, balance : ShareMoves(id, balance)) /\ ~(reward' < reward)
           \/ /\ shares' = shares /\ totalShare' = totalShare
              /\ staked' \in Nat /\ staked' >= staked
<1>1. staked \in Nat /\ reward \in Nat
  BY DEF IInv, FarmingOK, MarketOK
<1>2. CASE Elsewhere \/ UNCHANGED vars
  BY <1>1, <1>2, ElsewhereStep
<1>3. CASE \E id \in Ids : liquidate(id)
  BY <1>1, <1>3, LiquidateStep
<1>4. CASE \E id \in Ids, strat \in AllStrategies, base \in BaseAmounts, debt \in Debts :
              work(id, strat, base, debt)
  BY <1>1, <1>4, WorkStep
<1>5. CASE \E sender \in Reinvestors, base \in CakeSwaps : reinvest(sender, base)
  BY <1>5, ReinvestStep
<1> QED BY <1>2, <1>3, <1>4, <1>5, NextCases

\* PancakeswapV2Worker.sol work, liquidate and reinvest: no call on another position and
\* no reinvestment lowers the LP balance of a position, whatever is rounded.
THEOREM OthersBalanceKept == Spec => OthersBalanceNeverFalls
<1> DEFINE A == \A id \in Ids :
                  /\ shares'[id] = shares[id]
                  /\ \/ \E other \in Ids : shares'[other] # shares[other]
                     \/ reward' < reward
                  => balanceOf(id)' >= balanceOf(id)
<1>1. ASSUME IInv, [Next]_vars PROVE A
  <2> SUFFICES ASSUME NEW id \in Ids, shares'[id] = shares[id],
                      (\E other \in Ids : shares'[other] # shares[other]) \/ reward' < reward
               PROVE  balanceOf(id)' >= balanceOf(id)
    OBVIOUS
  <2> DEFINE s == shares[id]
  <2>1. /\ FarmingOK /\ s \in Nat /\ totalShare \in Nat /\ staked \in Nat
    BY <1>1 DEF IInv, FarmingOK
  <2>2. ASSUME shares' = shares, totalShare' = totalShare, staked' \in Nat, staked' >= staked
        PROVE  balanceOf(id)' >= balanceOf(id)
    <3>1. CASE totalShare = 0
      BY <2>1, <2>2, <3>1 DEF balanceOf, shareToBalance
    <3>2. CASE totalShare # 0
      <4>1. PICK S2 : S2 = staked'
        OBVIOUS
      <4>2. totalShare * staked <= totalShare * S2
        BY <2>1, <2>2, <4>1, MulMono
      <4>3. staked * totalShare <= S2 * totalShare
        <5>1. S2 \in Nat /\ totalShare * staked = staked * totalShare
          BY <2>1, <2>2, <4>1
        <5>2. totalShare * S2 = S2 * totalShare
          BY <2>1, <5>1
        <5> QED BY <4>2, <5>1, <5>2
      <4>4. (s * staked) \div totalShare <= (s * S2) \div totalShare
        <5> HIDE DEF s
        <5> QED BY <2>1, <2>2, <3>2, <4>1, <4>3, RatioMono
      <4>5. (s * staked) \div totalShare \in Int /\ (s * S2) \div totalShare \in Int
        BY <2>1, <2>2, <3>2, <4>1
      <4>6. /\ balanceOf(id) = (s * staked) \div totalShare
            /\ balanceOf(id)' = (s * S2) \div totalShare
        BY <2>2, <3>2, <4>1 DEF balanceOf, shareToBalance
      <4> QED BY <4>4, <4>5, <4>6
    <3> QED BY <3>1, <3>2
  <2>3. ASSUME NEW i, NEW balance, ShareMoves(i, balance), ~(reward' < reward)
        PROVE  balanceOf(id)' >= balanceOf(id)
    <3>1. PICK other \in Ids : shares'[other] # shares[other]
      BY <2>3
    <3>2. i # id
      BY <2>1, <2>3, <3>1 DEF ShareMoves, FarmingOK
    <3> QED BY <2>1, <2>3, <3>2, OthersBalance
  <2> QED BY <1>1, <2>2, <2>3, StepKinds
<1> QED BY <1>1, Invariance, PTL DEF Spec, OthersBalanceNeverFalls

\* PancakeswapV2Worker.sol _addShare: a position that work touches is credited with all
\* the LP tokens staked for it, but for less than the value of one share.
THEOREM AlwaysCreditedInFull == Spec => CreditedInFull
<1> DEFINE A == \A id \in Ids :
                  LET credited == staked' - StakeLeft(id)
                  IN  shares'[id] # shares[id] /\ totalShare' > 0
                        => (shares'[id] + 1) * staked' > credited * totalShare'
<1>1. ASSUME IInv, [Next]_vars PROVE A
  <2> DEFINE credited(id) == staked' - StakeLeft(id)
  <2> SUFFICES ASSUME NEW id \in Ids, shares'[id] # shares[id], totalShare' > 0
               PROVE  (shares'[id] + 1) * staked' > credited(id) * totalShare'
    OBVIOUS
  <2>1. PICK i, L : ShareMoves(i, L)
    BY <1>1, StepKinds
  <2> DEFINE c == AddedShare(id, L)
             T1 == TotalShareLeft(id)
             S1 == StakeLeft(id)
  <2>2. FarmingOK /\ shares \in [Ids -> Nat]
    BY <1>1 DEF IInv, FarmingOK
  <2>3. /\ i = id /\ L \in Nat /\ shares'[id] = c
        /\ totalShare' = T1 + c /\ staked' = S1 + L
    BY <2>1, <2>2 DEF ShareMoves
  <2>4. T1 \in Nat /\ S1 \in Nat /\ T1 <= S1
    BY <2>2, RemoveShareFacts
  <2>5. /\ c \in 0..L /\ (L * T1 < S1 * c + S1 \/ S1 = 0) /\ (T1 = 0 => c = L)
    BY <2>1, <2>2, <2>3, AddShareFacts
  <2> HIDE DEF c, T1, S1
  <2>6. credited(id) = L
    BY <2>3, <2>4 DEF S1
  <2> HIDE DEF credited
  <2>7. (c + 1) * (S1 + L) > L * (T1 + c)
    <3>1. (c + 1) * (S1 + L) = S1 * c + S1 + L * c + L /\ L * (T1 + c) = L * T1 + L * c
      BY <2>3, <2>4, <2>5
    <3>2. S1 * c \in Nat /\ L * c \in Nat /\ L * T1 \in Nat
      BY <2>3, <2>4, <2>5
    <3>3. CASE T1 = 0
      <4>1. L > 0
        BY <2>3, <2>5, <3>3
      <4>2. L * T1 = 0
        BY <2>3, <3>3
      <4> QED BY <3>1, <3>2, <4>1, <4>2, <2>3, <2>4
    <3>4. CASE T1 # 0
      <4>1. L * T1 < S1 * c + S1
        BY <2>4, <2>5, <3>4
      <4> QED BY <3>1, <3>2, <4>1, <2>3, <2>4
    <3> QED BY <3>3, <3>4
  <2> QED BY <2>3, <2>6, <2>7
<1> QED BY <1>1, Invariance, PTL DEF Spec, CreditedInFull
-----------------------------------------------------------------------------
(* What a liquidation brings in. *)

\* Selling at least as much (n1 <= n2, before the fee's denominator) into a pair that
\* has at most as many farming tokens (R2 <= R1), after taking y more base tokens out of
\* it first, brings in at least as much: what the sale loses is at most y.
LEMMA PayoutMono ==
    ASSUME NEW n1 \in Nat, NEW n2 \in Nat, n1 <= n2, NEW R1 \in Nat \ {0},
           NEW R2 \in Nat \ {0}, R2 <= R1, NEW y \in Nat, NEW X2 \in Nat
    PROVE  (n1 * (X2 + y)) \div (R1 + n1) <= y + (n2 * X2) \div (R2 + n2)
<1> DEFINE D1 == R1 + n1
           D2 == R2 + n2
           q1 == (n1 * (X2 + y)) \div D1
           q2 == (n2 * X2) \div D2
           k == q1 - y
<1>1. D1 \in Nat \ {0} /\ D2 \in Nat \ {0} /\ n1 <= D1
  OBVIOUS
<1>2. n1 * (X2 + y) \in Nat /\ n2 * X2 \in Nat /\ n1 * X2 \in Nat
  OBVIOUS
<1>3. n1 * D2 <= n2 * D1
  <2>1. n1 * D2 = n1 * R2 + n1 * n2 /\ n2 * D1 = n2 * R1 + n1 * n2
    OBVIOUS
  <2>2. n1 * R2 <= n1 * R1
    BY MulMono
  <2>3. R1 * n1 <= R1 * n2
    BY MulMono
  <2>4. /\ n1 * R2 \in Int /\ n1 * R1 \in Int /\ n2 * R1 \in Int /\ n1 * n2 \in Int
        /\ R1 * n1 = n1 * R1 /\ R1 * n2 = n2 * R1
    OBVIOUS
  <2> HIDE DEF D1, D2
  <2> QED BY <2>1, <2>2, <2>3, <2>4
<1> HIDE DEF D1, D2
<1>4. /\ q1 \in Nat /\ D1 * q1 <= n1 * (X2 + y)
      /\ q2 \in Nat /\ n2 * X2 < D2 * q2 + D2
  BY <1>1, <1>2, FloorBounds
<1> HIDE DEF q1, q2
<1>5. k \in Int
  BY <1>4
<1>6. ASSUME k > q2 PROVE FALSE
  <2>1. k \in Nat
    BY <1>4, <1>5, <1>6
  <2>2. D1 * k <= n1 * X2
    <3>1. D1 * k = D1 * q1 - D1 * y
      BY <1>1, <1>4, Distribute
    <3>2. n1 * (X2 + y) = n1 * X2 + n1 * y
      BY Distribute
    <3>3. y * n1 <= y * D1
      BY <1>1, MulMono
    <3>4. /\ y * n1 = n1 * y /\ y * D1 = D1 * y /\ D1 * q1 \in Int /\ D1 * y \in Int
          /\ n1 * y \in Int
      BY <1>1, <1>4
    <3> HIDE DEF k
    <3> QED BY <3>1, <3>2, <3>3, <3>4, <1>2, <1>4
  <2> HIDE DEF k
  <2>3. D1 * (D2 * k) <= D1 * (n2 * X2)
    <3>1. D2 * (D1 * k) <= D2 * (n1 * X2)
      <4>1. D1 * k \in Nat
        BY <1>1, <2>1
      <4> QED BY <1>1, <1>2, <2>2, <4>1, MulMono
    <3>2. X2 * (n1 * D2) <= X2 * (n2 * D1)
      <4>1. n1 * D2 \in Nat /\ n2 * D1 \in Nat
        BY <1>1
      <4> QED BY <1>3, <4>1, MulMono
    <3>3. /\ D2 * (D1 * k) = D1 * (D2 * k) /\ D2 * (n1 * X2) = X2 * (n1 * D2)
          /\ X2 * (n2 * D1) = D1 * (n2 * X2)
      BY <1>1, <2>1
    <3>4. D2 * (D1 * k) \in Int /\ D2 * (n1 * X2) \in Int /\ X2 * (n2 * D1) \in Int
      BY <1>1, <2>1
    <3> QED BY <3>1, <3>2, <3>3, <3>4
  <2>4. D2 * k <= n2 * X2
    <3>1. D2 * k \in Int
      BY <1>1, <2>1
    <3> QED BY <1>1, <1>2, <2>3, <3>1, MulCancel
  <2>5. D2 * (q2 + 1) <= D2 * k
    BY <1>1, <1>4, <1>6, <2>1, MulMono
  <2>6. D2 * (q2 + 1) = D2 * q2 + D2 /\ D2 * q2 \in Int /\ D2 * k \in Int
    BY <1>1, <1>4, <2>1
  <2> QED BY <1>1, <1>2, <1>4, <2>4, <2>5, <2>6
<1>7. q1 <= y + q2
  BY <1>4, <1>5, <1>6
<1> QED BY <1>7 DEF q1, q2, D1, D2

\* The same, in the terms of the worker: (b1, f1) are the tokens the removal is expected
\* to bring, (b2, f2) those it brings, a2 the farming tokens sold.
LEMMA SaleMono ==
    ASSUME NEW B \in Nat, NEW F \in Nat, NEW b1 \in Nat, NEW b2 \in Nat, b1 <= b2, b2 <= B,
           NEW f1 \in Nat, NEW f2 \in Nat, f1 <= f2, f2 < F, NEW a2 \in Nat, f2 <= a2
    PROVE  getMktSellAmount(f1, F - f1, B - b1) + b1 <= b2 + getAmountOut(a2, F - f2, B - b2)
<1> USE FeeAssumption
<1> DEFINE n1 == f1 * fee
           n2 == a2 * fee
           R1 == (F - f1) * feeDenom
           R2 == (F - f2) * feeDenom
           y == b2 - b1
           X2 == B - b2
<1>1. fee \in Nat \ {0} /\ feeDenom \in Nat \ {0}
  OBVIOUS
<1>2. n1 \in Nat /\ n2 \in Nat /\ n1 <= n2
  <2>1. f1 <= a2
    OBVIOUS
  <2>2. fee * f1 <= fee * a2 /\ fee * f1 \in Nat /\ fee * a2 \in Nat
    BY <1>1, <2>1, MulMono
  <2> QED BY <1>1, <2>2
<1>3. R1 \in Nat \ {0} /\ R2 \in Nat \ {0} /\ R2 <= R1
  <2>1. F - f2 \in Nat \ {0} /\ F - f1 \in Nat \ {0} /\ F - f2 <= F - f1
    OBVIOUS
  <2>2. feeDenom * (F - f2) <= feeDenom * (F - f1)
    BY <1>1, <2>1, MulMono
  <2>3. R1 \in Nat \ {0} /\ R2 \in Nat \ {0} /\ R1 = feeDenom * (F - f1) /\ R2 = feeDenom * (F - f2)
    BY <1>1, <2>1
  <2> QED BY <2>2, <2>3
<1>4. y \in Nat /\ X2 \in Nat /\ B - b1 = X2 + y
  OBVIOUS
<1>5. getAmountOut(a2, F - f2, B - b2) = (n2 * X2) \div (R2 + n2)
  BY DEF getAmountOut
<1>6. getMktSellAmount(f1, F - f1, B - b1) = (n1 * (X2 + y)) \div (R1 + n1)
  <2>1. getMktSellAmount(f1, F - f1, B - b1)
          = IF f1 = 0 THEN 0 ELSE (n1 * (B - b1)) \div (R1 + n1)
    BY DEF getMktSellAmount
  <2>2. f1 = 0 => n1 = 0
    BY <1>1
  <2> HIDE DEF n1, R1, y, X2
  <2>3. n1 = 0 => (n1 * (X2 + y)) \div (R1 + n1) = 0
    BY <1>3, <1>4, ZeroDiv
  <2> QED BY <1>4, <2>1, <2>2, <2>3
<1> HIDE DEF n1, n2, R1, R2, X2
<1>7. (n1 * (X2 + y)) \div (R1 + n1) <= y + (n2 * X2) \div (R2 + n2)
  <2> HIDE DEF y
  <2> QED BY <1>2, <1>3, <1>4, PayoutMono
<1>8. (n1 * (X2 + y)) \div (R1 + n1) \in Int /\ (n2 * X2) \div (R2 + n2) \in Int
  <2>1. n1 * (X2 + y) \in Nat /\ n2 * X2 \in Nat /\ R1 + n1 \in Nat \ {0} /\ R2 + n2 \in Nat \ {0}
    BY <1>2, <1>3, <1>4
  <2> QED BY <2>1, FloorBounds
<1> QED BY <1>4, <1>5, <1>6, <1>7, <1>8

\* What Liquidate pays for the LP tokens of a wallet.
LEMMA LiquidatePays ==
    ASSUME NEW w, Sound(w), Liquidate(w, 0).ok
    PROVE  LET b == (w.has.lp * w.pair.base) \div w.pair.supply
               f == (w.has.lp * w.pair.farm) \div w.pair.supply
           IN  Liquidate(w, 0).base
                 = (w.has.base + b) + getAmountOut(w.has.farm + f, w.pair.farm - f, w.pair.base - b)
<1> DEFINE l == w.has.lp
           b == (l * w.pair.base) \div w.pair.supply
           f == (l * w.pair.farm) \div w.pair.supply
           v == removeLiquidity(w, l)
           sold == swapExactTokensForTokens(v, "farm", "base", v.has.farm)
           a == getAmountOut(v.has.farm, v.pair.farm, v.pair.base)
<1>1. sold.ok /\ Liquidate(w, 0).base = sold.has.base
  BY DEF Liquidate, SellLiquidity, Result
<1>2. Keeps(w, v)
  BY RemoveKeeps DEF Sound, Wallet, Purse
<1>3. v.ok /\ sold = Swap(v, "farm", "base", v.has.farm, a)
  <2> HIDE DEF v
  <2>1. v \in Wallet
    BY <1>2 DEF Keeps, Sound
  <2> QED BY <1>1, <2>1 DEF swapExactTokensForTokens, Reverted, Wallet
<1>4. sold.has.base = v.has.base + a
  <2>1. v \in Wallet /\ v.has \in Purse
    BY <1>2 DEF Keeps, Sound, Wallet
  <2> HIDE DEF v, sold, a
  <2>2. sold = [v EXCEPT !.has["farm"] = @ - v.has.farm, !.has["base"] = @ + a,
                         !.pair["farm"] = @ + v.has.farm, !.pair["base"] = @ - a]
    BY <1>1, <1>3, <2>1 DEF Swap, Reverted, Wallet
  <2> QED BY <2>1, <2>2 DEF Wallet, Purse
<1>5. /\ v.has.base = w.has.base + b /\ v.has.farm = w.has.farm + f
      /\ v.pair.base = w.pair.base - b /\ v.pair.farm = w.pair.farm - f
  <2>1. w \in Wallet
    BY DEF Sound
  <2> HIDE DEF l, b, f
  <2> QED BY <1>3, <2>1 DEF removeLiquidity, Reverted, Wallet, b, f
<1> QED BY <1>1, <1>4, <1>5

\* A part of the liquidity is worth less than the reserves, and a larger part no less.
LEMMA RemovalMono ==
    ASSUME NEW x \in Nat, NEW z \in Nat, x <= z, NEW S \in Nat \ {0}, z < S,
           NEW r \in Nat \ {0}
    PROVE  /\ (x * r) \div S \in Nat /\ (z * r) \div S \in Nat
           /\ (x * r) \div S <= (z * r) \div S /\ (z * r) \div S < r
<1>1. r * x <= r * z /\ r * x \in Nat /\ r * z \in Nat /\ r * x = x * r /\ r * z = z * r
  BY MulMono
<1>2. (x * r) \div S <= (z * r) \div S
  BY <1>1, DivMono
<1>3. (z * r) \div S \in 0..(r - 1)
  BY PartBelow
<1>4. (x * r) \div S \in Nat
  BY <1>1, FloorBounds
<1> QED BY <1>2, <1>3, <1>4

\* PancakeswapV2Worker.sol liquidate and health: liquidating a position brings the vault
\* at least the health the worker reported for it in the same state, also when the worker
\* holds LP tokens or the strategy holds tokens that others have sent.
THEOREM LiquidationAlwaysPays == Spec => LiquidationPaysHealth
<1> DEFINE A == \A id \in Ids : liquidate(id) => sent' >= health(id)
<1>1. ASSUME IInv PROVE A
  <2> SUFFICES ASSUME NEW id \in Ids, liquidate(id) PROVE sent' >= health(id)
    OBVIOUS
  <2> DEFINE bal == balanceOf(id)
             z == lp + bal
             w == Funded(liqStrat, z, 0)
             r == Liquidate(w, 0)
             B == pair.base
             F == pair.farm
             S == pair.supply
             b1 == (bal * B) \div S
             f1 == (bal * F) \div S
             b2 == (z * B) \div S
             f2 == (z * F) \div S
             beta == w.has.base
             a2 == w.has.farm + f2
             out == getAmountOut(a2, F - f2, B - b2)
             mkt == getMktSellAmount(f1, F - f1, B - b1)
  <2>1. r.ok /\ sent' = r.base
    BY DEF liquidate, Executed
  <2>2. /\ lp \in Nat /\ staked \in Nat /\ S \in Nat \ {0} /\ B \in Nat \ {0} /\ F \in Nat \ {0}
        /\ staked + lp < S /\ liqStrat \in AllStrategies
    BY <1>1 DEF IInv, FarmingOK, MarketOK, Pair, AllStrategies
  <2>3. bal \in 0..staked
    BY <1>1, RemoveShareFacts DEF IInv
  <2>4. health(id) = mkt + b1
    BY DEF health
  <2> HIDE DEF bal
  <2>5. z \in Nat /\ bal \in Nat /\ bal <= z /\ z <= staked + lp /\ z < S
    BY <2>2, <2>3
  <2> HIDE DEF z, w, r
  <2>6. Sound(w) /\ w.has.lp = z /\ w.pair = pair
    BY <1>1, <2>2, <2>5, FundedSound DEF w
  <2>7. beta \in Nat /\ w.has.farm \in Nat
    BY <2>6 DEF Sound, Wallet, Purse
  <2>8. r.base = (beta + b2) + out
    BY <2>1, <2>6, LiquidatePays DEF r
  <2>9. b1 \in Nat /\ b2 \in Nat /\ b1 <= b2 /\ b2 < B /\ f1 \in Nat /\ f2 \in Nat /\ f1 <= f2 /\ f2 < F
    <3> HIDE DEF B, F, S
    <3>1. b1 \in Nat /\ b2 \in Nat /\ b1 <= b2 /\ b2 < B
      BY <2>2, <2>5, RemovalMono
    <3>2. f1 \in Nat /\ f2 \in Nat /\ f1 <= f2 /\ f2 < F
      BY <2>2, <2>5, RemovalMono
    <3> QED BY <3>1, <3>2
  <2> HIDE DEF b1, b2, f1, f2, B, F, S, beta
  <2>10. a2 \in Nat /\ f2 <= a2
    BY <2>7, <2>9
  <2> HIDE DEF a2
  <2>11. mkt + b1 <= b2 + out
    <3>1. B \in Nat /\ F \in Nat /\ b2 <= B
      BY <2>2, <2>9
    <3>2. getMktSellAmount(f1, F - f1, B - b1) + b1 <= b2 + getAmountOut(a2, F - f2, B - b2)
      BY <2>9, <2>10, <3>1, SaleMono, Zenon
    <3> QED BY <3>2
  <2>12. out \in Int /\ mkt \in Int
    <3>1. F - f2 \in Nat \ {0} /\ B - b2 \in Nat \ {0} /\ F - f1 \in Nat \ {0} /\ B - b1 \in Nat \ {0}
      BY <2>2, <2>9
    <3>2. out \in 0..((B - b2) - 1)
      BY <2>10, <3>1, AmountOutBelow
    <3>3. getAmountOut(f1, F - f1, B - b1) \in 0..((B - b1) - 1)
      BY <2>9, <3>1, AmountOutBelow
    <3>4. mkt = IF f1 = 0 THEN 0 ELSE getAmountOut(f1, F - f1, B - b1)
      BY DEF getMktSellAmount, getAmountOut
    <3> HIDE DEF mkt
    <3>5. out \in Int
      BY <2>2, <2>9, <3>2
    <3>6. mkt \in Int
      BY <2>2, <2>9, <3>3, <3>4
    <3> QED BY <3>5, <3>6
  <2> HIDE DEF out, mkt
  <2> QED BY <2>1, <2>4, <2>7, <2>8, <2>9, <2>11, <2>12
<1> QED BY <1>1, Invariance, PTL DEF Spec, LiquidationPaysHealth
-----------------------------------------------------------------------------
(* HuskyMath.sqrt is exact: "Seven iterations should be enough". *)

\* s is the integer square root of x.
IsRoot(s, x) == s \in Nat /\ s * s <= x /\ x < (s + 1) * (s + 1)

\* Every natural number has one.
LEMMA RootExists == ASSUME NEW x \in Nat PROVE \E s : IsRoot(s, x)
<1> DEFINE T == {n \in Nat : \E s : IsRoot(s, n)}
<1>1. 0 \in T
  <2>1. IsRoot(0, 0)
    BY DEF IsRoot
  <2> QED BY <2>1
<1>2. ASSUME NEW n \in T PROVE n + 1 \in T
  <2>1. PICK s : IsRoot(s, n)
    OBVIOUS
  <2>2. n \in Nat /\ s \in Nat /\ s * s <= n /\ n < (s + 1) * (s + 1)
    BY <2>1 DEF IsRoot
  <2>3. (s + 1) * (s + 1) < (s + 2) * (s + 2)
    BY <2>2
  <2>4. IsRoot(s, n + 1) \/ IsRoot(s + 1, n + 1)
    <3>1. CASE n + 1 < (s + 1) * (s + 1)
      BY <3>1, <2>2 DEF IsRoot
    <3>2. CASE n + 1 >= (s + 1) * (s + 1)
      <4>1. n + 1 < (s + 2) * (s + 2)
        BY <2>2, <2>3
      <4>2. (s + 1) + 1 = s + 2
        BY <2>2
      <4> QED BY <4>1, <4>2, <3>2, <2>2 DEF IsRoot
    <3> QED BY <3>1, <3>2, <2>2
  <2> QED BY <2>2, <2>4
<1> HIDE DEF T
<1>3. Nat \subseteq T
  <2>1. T \in SUBSET Nat
    BY DEF T
  <2> QED BY <1>1, <1>2, <2>1, SetInduction
<1> QED BY <1>3 DEF T

\* A round never goes below the root.
LEMMA RoundAbove ==
    ASSUME NEW x \in Nat \ {0}, NEW s, IsRoot(s, x), NEW r \in Nat \ {0}
    PROVE  Improved(r, x) \in Nat \ {0} /\ Improved(r, x) >= s /\ s >= 1
<1> DEFINE t == x \div r
           m == (r + t) \div 2
<1>1. t \in Nat /\ x < r * t + r
  BY FloorBounds
<1>2. s \in Nat /\ s * s <= x
  BY DEF IsRoot
<1>3. s >= 1
  BY DEF IsRoot
<1> HIDE DEF t
<1>4. m \in Nat /\ r + t <= 2 * m + 1
  BY <1>1
<1> HIDE DEF m
<1>5. m >= s
  <2> SUFFICES ASSUME m < s PROVE FALSE
    BY <1>2, <1>4
  <2> DEFINE k == r + t + 1
  <2>1. k \in Nat /\ k <= 2 * s
    BY <1>1, <1>2, <1>4
  <2>2. k * k <= 4 * (s * s)
    <3>1. k * k <= k * (2 * s) /\ (2 * s) * k <= (2 * s) * (2 * s)
      BY <2>1, <1>2, MulMono
    <3> HIDE DEF k
    <3> QED BY <3>1, <2>1, <1>2
  <2>3. 4 * (r * (t + 1)) <= k * k
    <3>1. k * k - 4 * (r * (t + 1)) = (r - t - 1) * (r - t - 1)
      BY <1>1
    <3>2. (r - t - 1) * (r - t - 1) >= 0
      <4>1. PICK d \in Int : d = r - t - 1
        BY <1>1
      <4>2. d * d >= 0
        OBVIOUS
      <4> QED BY <4>1, <4>2
    <3>3. k * k \in Int /\ r * (t + 1) \in Int
      BY <2>1, <1>1
    <3> HIDE DEF k
    <3> QED BY <3>1, <3>2, <3>3
  <2>4. r * (t + 1) = r * t + r
    BY <1>1
  <2>5. k * k \in Int /\ r * t \in Int /\ s * s \in Int
    BY <2>1, <1>1, <1>2
  <2> HIDE DEF k
  <2> QED BY <2>2, <2>3, <2>4, <2>5, <1>1, <1>2
<1> QED BY <1>3, <1>4, <1>5, <1>2 DEF Improved, m, t

\* What a round leaves of the distance above s + 1 is at most the square of the
\* distance before it over twice the estimate.
LEMMA RoundSquares ==
    ASSUME NEW x \in Nat \ {0}, NEW s, IsRoot(s, x), NEW r \in Nat \ {0}
    PROVE  2 * (r * (Improved(r, x) - (s + 1))) <= (r - (s + 1)) * (r - (s + 1))
<1> DEFINE t == x \div r
           m == (r + t) \div 2
           q == s + 1
<1>1. t \in Nat /\ r * t <= x
  BY FloorBounds
<1>2. q \in Nat /\ x < q * q
  BY DEF IsRoot
<1> HIDE DEF t, q
<1>3. m \in Nat /\ 2 * m <= r + t
  BY <1>1
<1> HIDE DEF m
<1>4. r * (2 * m) <= r * (r + t)
  BY <1>1, <1>3, MulMono
<1>5. /\ r * (2 * m) = 2 * (r * m) /\ r * (r + t) = r * r + r * t
      /\ r * (m - q) = r * m - r * q
      /\ (r - q) * (r - q) = r * r - 2 * (r * q) + q * q
  BY <1>1, <1>2, <1>3
<1>6. r * m \in Int /\ r * r \in Int /\ r * t \in Int /\ r * q \in Int /\ q * q \in Int
  BY <1>1, <1>2, <1>3
<1>7. 2 * (r * (m - q)) <= (r - q) * (r - q)
  BY <1>1, <1>2, <1>4, <1>5, <1>6
<1> QED BY <1>7 DEF Improved, m, t, q

\* At the root or next to it, a round does not leave it for more than s + 1.
LEMMA RoundStays ==
    ASSUME NEW x \in Nat \ {0}, NEW s, IsRoot(s, x), NEW r \in Nat \ {0}, r \in {s, s + 1}
    PROVE  Improved(r, x) <= s + 1
<1> DEFINE m == Improved(r, x)
           d == r - (s + 1)
<1>1. s \in Nat /\ m \in Nat
  BY RoundAbove DEF IsRoot
<1>2. 2 * (r * (m - (s + 1))) <= d * d
  BY RoundSquares
<1> HIDE DEF m
<1>3. d * d <= 1
  BY <1>1
<1>4. r * (m - (s + 1)) <= 0
  <2>1. r * (m - (s + 1)) \in Int /\ d * d \in Int
    BY <1>1
  <2> HIDE DEF d
  <2> QED BY <1>2, <1>3, <2>1
<1>5. r * (m - (s + 1)) <= r * 0
  BY <1>4
<1>6. m - (s + 1) <= 0
  BY <1>1, <1>5, MulCancel
<1> QED BY <1>1, <1>6 DEF m

\* The estimate r is not below the root, and above s + 1 by at most b / a of it.
Near(a, b, r, s) == r \in Nat \ {0} /\ r >= s /\ a * (r - (s + 1)) <= b * (s + 1)

\* Newton's method converges quadratically.
LEMMA RoundConverges ==
    ASSUME NEW x \in Nat \ {0}, NEW s, IsRoot(s, x),
           NEW a \in Nat \ {0}, NEW b \in Nat \ {0}, NEW r, Near(a, b, r, s)
    PROVE  Near(2 * (a * (a + b)), b * b, Improved(r, x), s)
<1> DEFINE m == Improved(r, x)
           q == s + 1
           c == a * (a + b)
           B == b * b
<1>1. r \in Nat \ {0} /\ r >= s /\ a * (r - q) <= b * q
  BY DEF Near
<1>2. m \in Nat \ {0} /\ m >= s /\ s \in Nat /\ q \in Nat \ {0}
  <2>1. s \in Nat
    BY DEF IsRoot
  <2>2. m \in Nat \ {0} /\ m >= s
    BY <1>1, RoundAbove
  <2> QED BY <2>1, <2>2
<1>3. 2 * (r * (m - q)) <= (r - q) * (r - q)
  BY <1>1, RoundSquares
<1>4. r \in {s, q} => m <= q
  BY <1>1, RoundStays
<1> HIDE DEF m
<1>5. c \in Nat \ {0} /\ B \in Nat \ {0}
  OBVIOUS
<1>6. (2 * c) * (m - q) <= B * q
  <2>1. CASE m <= q
    <3>1. (2 * c) * (q - m) >= 0 /\ B * q >= 0
      BY <2>1, <1>2, <1>5, MulMono
    <3>2. (2 * c) * (m - q) = 0 - (2 * c) * (q - m) /\ (2 * c) * (q - m) \in Int
      BY <1>2, <1>5
    <3> HIDE DEF c, B
    <3> QED BY <3>1, <3>2, <1>2, <1>5
  <2>2. CASE m > q
    <3>1. r > q
      BY <2>2, <1>1, <1>2, <1>4
    <3>2. PICK e \in Nat \ {0} : e = r - q
      BY <3>1, <1>1, <1>2
    <3>3. PICK f \in Nat \ {0} : f = m - q
      BY <2>2, <1>2
    <3>4. 2 * (r * f) <= e * e /\ a * e <= b * q /\ r = q + e
      BY <1>1, <1>2, <1>3, <3>2, <3>3
    <3>5. c * (e * e) <= B * (q * r)
      <4> DEFINE u == a * e
                 v == b * q
                 w == b * e
      <4>1. u \in Nat /\ v \in Nat /\ w \in Nat /\ u <= v
        BY <3>4, <1>2
      <4>2. c * (e * e) = u * u + w * u
        OBVIOUS
      <4>3. B * (q * r) = v * v + w * v
        BY <3>4, <1>2
      <4> HIDE DEF u, v, w
      <4>4. u * u <= u * v /\ v * u <= v * v /\ w * u <= w * v
        BY <4>1, MulMono
      <4>5. u * v = v * u /\ u * u \in Int /\ u * v \in Int /\ v * v \in Int /\ w * u \in Int /\ w * v \in Int
        BY <4>1
      <4> HIDE DEF c, B
      <4>6. u * u + w * u <= v * v + w * v
        BY <4>4, <4>5
      <4> QED BY <4>2, <4>3, <4>6
    <3> HIDE DEF c, B, q
    <3>6. c * (2 * (r * f)) <= c * (e * e)
      <4>1. 2 * (r * f) \in Nat /\ e * e \in Nat
        BY <1>1
      <4> QED BY <4>1, <3>4, <1>5, MulMono
    <3>7. r * ((2 * c) * f) <= r * (B * q)
      <4>1. c * (2 * (r * f)) = r * ((2 * c) * f) /\ B * (q * r) = r * (B * q)
        BY <1>1, <1>2, <1>5
      <4>2. c * (2 * (r * f)) \in Int /\ c * (e * e) \in Int /\ B * (q * r) \in Int
        BY <1>1, <1>2, <1>5
      <4>3. c * (2 * (r * f)) <= B * (q * r)
        BY <3>5, <3>6, <4>2
      <4> QED BY <4>1, <4>3
    <3>8. (2 * c) * f <= B * q
      <4>1. (2 * c) * f \in Int /\ B * q \in Int
        BY <1>2, <1>5
      <4> QED BY <3>7, <4>1, <1>1, MulCancel
    <3> QED BY <3>3, <3>8
  <2> QED BY <2>1, <2>2, <1>2
<1> QED BY <1>2, <1>6 DEF Near, m, q, c, B

\* The first round, from a seed whose square is at most x and above an eighth of it.
LEMMA FirstRound ==
    ASSUME NEW x \in Nat \ {0}, NEW s, IsRoot(s, x), NEW r \in Nat \ {0},
           r * r <= x, x < 8 * (r * r)
    PROVE  Near(5, 3, Improved(r, x), s)
<1> DEFINE t == x \div r
           m == (r + t) \div 2
           q == s + 1
<1>1. t \in Nat /\ r * t <= x
  BY FloorBounds
<1>2. q \in Nat \ {0} /\ x < q * q /\ s \in Nat
  BY DEF IsRoot
<1> HIDE DEF t, q
<1>3. m \in Nat /\ 2 * m <= r + t
  BY <1>1
<1> HIDE DEF m
<1>4. r < q
  <2> SUFFICES ASSUME r >= q PROVE FALSE
    BY <1>2
  <2>1. q * q <= q * r /\ r * q <= r * r
    BY <1>2, MulMono
  <2>2. q * q \in Int /\ q * r \in Int /\ r * r \in Int /\ q * r = r * q
    BY <1>2
  <2> QED BY <2>1, <2>2, <1>2
<1>5. t < 8 * r
  <2> SUFFICES ASSUME t >= 8 * r PROVE FALSE
    BY <1>1
  <2>1. r * (8 * r) <= r * t
    BY <1>1, MulMono
  <2>2. r * (8 * r) = 8 * (r * r) /\ r * r \in Int /\ r * t \in Int
    BY <1>1
  <2> QED BY <2>1, <2>2, <1>1
<1>6. 5 * (r + t) <= 16 * q
  <2>1. CASE 100 * q > 283 * r
    BY <2>1, <1>1, <1>2, <1>5
  <2>2. CASE 100 * q <= 283 * r
    <3> DEFINE g == q - r
               h == 283 * r - 100 * q
    <3>1. g \in Nat /\ h \in Nat
      BY <2>2, <1>2, <1>4
    <3>2. g * h >= 0
      <4> HIDE DEF g, h
      <4> QED BY <3>1
    <3>3. g * h = 383 * (r * q) - 100 * (q * q) - 283 * (r * r)
      BY <1>2
    <3> HIDE DEF g, h
    <3>4. r * (100 * q) <= r * (283 * r)
      BY <2>2, <1>2, MulMono
    <3>5. /\ r * (100 * q) = 100 * (r * q) /\ r * (283 * r) = 283 * (r * r)
          /\ r * (5 * (r + t)) = 5 * (r * r) + 5 * (r * t)
          /\ r * (16 * q) = 16 * (r * q)
      BY <1>1, <1>2
    <3>6. r * r \in Int /\ r * q \in Int /\ q * q \in Int /\ r * t \in Int /\ g * h \in Int
      BY <1>1, <1>2, <3>1
    <3>7. r * (5 * (r + t)) <= r * (16 * q)
      BY <3>2, <3>3, <3>4, <3>5, <3>6, <1>1, <1>2
    <3> QED BY <3>7, <1>1, <1>2, MulCancel
  <2> QED BY <2>1, <2>2, <1>2
<1>7. m \in Nat \ {0} /\ m >= s
  BY RoundAbove DEF Improved, m, t
<1>8. 5 * (m - q) <= 3 * q
  BY <1>3, <1>6, <1>1, <1>2
<1> QED BY <1>7, <1>8 DEF Near, Improved, m, t, q

\* The last round, from an estimate whose distance to s + 1 is at most its root,
\* and the smaller of the last two estimates.
LEMMA LastRound ==
    ASSUME NEW x \in Nat \ {0}, NEW s, IsRoot(s, x), NEW r \in Nat \ {0}, r >= s,
           r <= s + 1 \/ (r - (s + 1)) * (r - (s + 1)) <= s + 1
    PROVE  SmallerEstimate(Improved(r, x), x) = s
<1> DEFINE t == x \div r
           m == Improved(r, x)
           q == s + 1
           k == x \div m
           d == r - q
<1>1. t \in Nat /\ r * t <= x /\ x < r * t + r
  BY FloorBounds
<1>2. s \in Nat /\ q \in Nat \ {0} /\ s * s <= x /\ x < q * q
  BY DEF IsRoot
<1>3. m \in Nat \ {0} /\ m >= s /\ s >= 1
  BY RoundAbove
<1>4. k \in Nat /\ m * k <= x /\ x < m * k + m
  BY <1>3, FloorBounds
<1>5. 2 * (r * (m - q)) <= d * d
  BY RoundSquares
<1>6. m = (r + t) \div 2
  BY DEF Improved
<1> HIDE DEF t, m, k
<1>7. m <= q
  <2>1. CASE r <= q
    <3>1. r \in {s, s + 1}
      BY <2>1, <1>2
    <3> QED BY <3>1, RoundStays DEF m, q
  <2>2. CASE r > q
    <3> SUFFICES ASSUME m > q PROVE FALSE
      BY <1>2, <1>3
    <3>1. r * 1 <= r * (m - q)
      BY <1>2, <1>3, MulMono
    <3>2. d * d <= q
      BY <2>2, <1>2
    <3>3. r * (m - q) \in Int /\ d * d \in Int
      BY <1>2, <1>3
    <3> HIDE DEF d, q
    <3> QED BY <3>1, <3>2, <3>3, <1>5, <2>2, <1>2
  <2> QED BY <2>1, <2>2, <1>2
<1>8. CASE m = s
  <2>1. k >= s
    <3> SUFFICES ASSUME k <= s - 1 PROVE FALSE
      BY <1>2, <1>4
    <3>1. s * (k + 1) <= s * s
      BY <1>2, <1>4, MulMono
    <3>2. s * (k + 1) = s * k + s /\ s * k \in Int /\ s * s \in Int
      BY <1>2, <1>4
    <3> QED BY <3>1, <3>2, <1>2, <1>4, <1>8
  <2> QED BY <2>1, <1>8, <1>2, <1>4 DEF SmallerEstimate, Min2, m, k
<1>9. CASE m = q
  <2>1. s * q <= x
    <3>1. r + t >= 2 * q
      BY <1>1, <1>2, <1>6, <1>9
    <3>2. r * (2 * q - r) <= r * t
      <4>1. PICK j \in Nat : t = (2 * q - r) + j
        BY <3>1, <1>1, <1>2
      <4>2. r * t = r * (2 * q - r) + r * j /\ r * j >= 0 /\ r * (2 * q - r) \in Int /\ r * j \in Int
        BY <4>1, <1>2
      <4> QED BY <4>2
    <3>3. r * (2 * q - r) = q * q - d * d
      BY <1>2
    <3>4. s * q = q * q - q
      BY <1>2
    <3>5. d * d <= q
      <4>1. CASE r > q
        BY <4>1, <1>2
      <4>2. CASE r <= q
        <5>1. d \in {0, -1}
          BY <4>2, <1>2
        <5> HIDE DEF d
        <5> QED BY <5>1, <1>2
      <4> QED BY <4>1, <4>2, <1>2
    <3>6. d * d \in Int /\ q * q \in Int /\ r * t \in Int /\ r * (2 * q - r) \in Int /\ s * q \in Int
      BY <1>1, <1>2
    <3> HIDE DEF d, q
    <3> QED BY <3>2, <3>3, <3>4, <3>5, <3>6, <1>1, <1>2
  <2>2. k = s
    <3>1. k < q
      <4> SUFFICES ASSUME k >= q PROVE FALSE
        BY <1>2, <1>4
      <4>1. q * q <= q * k
        BY <1>2, <1>4, MulMono
      <4>2. q * q \in Int /\ q * k \in Int
        BY <1>2, <1>4
      <4> HIDE DEF q
      <4> QED BY <4>1, <4>2, <1>2, <1>4, <1>9
    <3>2. k >= s
      <4> SUFFICES ASSUME k + 1 <= s PROVE FALSE
        BY <1>2, <1>4
      <4>1. q * (k + 1) <= q * s
        BY <1>2, <1>4, MulMono
      <4>2. q * (k + 1) = q * k + q /\ q * s = s * q /\ q * k \in Int /\ s * q \in Int
        BY <1>2, <1>4
      <4> HIDE DEF q
      <4> QED BY <4>1, <4>2, <2>1, <1>2, <1>4, <1>9
    <3> QED BY <3>1, <3>2, <1>2, <1>4
  <2> QED BY <2>2, <1>9, <1>2 DEF SmallerEstimate, Min2, m, k
<1> QED BY <1>3, <1>7, <1>8, <1>9, <1>2

TwoTo16 == 65536
TwoTo32 == TwoTo16 * TwoTo16
TwoTo64 == TwoTo32 * TwoTo32
TwoTo128 == TwoTo64 * TwoTo64
TwoTo256 == TwoTo128 * TwoTo128

LEMMA PowersType ==
    /\ TwoTo16 \in Nat \ {0} /\ TwoTo32 \in Nat \ {0} /\ TwoTo64 \in Nat \ {0}
    /\ TwoTo128 \in Nat \ {0} /\ TwoTo256 \in Nat \ {0}
<1>1. TwoTo16 \in Nat \ {0}
  BY DEF TwoTo16
<1>2. TwoTo32 \in Nat \ {0}
  BY <1>1 DEF TwoTo32
<1>3. TwoTo64 \in Nat \ {0}
  BY <1>2 DEF TwoTo64
<1>4. TwoTo128 \in Nat \ {0}
  BY <1>3 DEF TwoTo128
<1>5. TwoTo256 \in Nat \ {0}
  BY <1>4 DEF TwoTo256
<1> QED BY <1>1, <1>2, <1>3, <1>4, <1>5

\* A distance compared with a smaller number.
LEMMA NearCoarser ==
    ASSUME NEW s \in Nat, NEW r, NEW a \in Nat \ {0}, NEW b \in Nat \ {0}, NEW c \in Nat \ {0},
           Near(a, b, r, s), b * c <= a
    PROVE  Near(c, 1, r, s)
<1> DEFINE q == s + 1
           d == r - q
<1>1. r \in Nat \ {0} /\ r >= s /\ a * d <= b * q /\ q \in Nat /\ d \in Int
  BY DEF Near
<1> HIDE DEF q, d
<1>2. c * d <= q
  <2>1. CASE d >= 0
    <3>1. d * (b * c) <= d * a
      BY <2>1, <1>1, MulMono
    <3>2. d * (b * c) = b * (c * d) /\ d * a = a * d
      BY <1>1
    <3>3. c * d \in Int /\ b * (c * d) \in Int /\ a * d \in Int /\ b * q \in Int
      BY <1>1
    <3>4. b * (c * d) <= b * q
      BY <3>1, <3>2, <3>3, <1>1
    <3> QED BY <3>3, <3>4, <1>1, MulCancel
  <2>2. CASE d < 0
    <3>1. PICK e \in Nat : d = 0 - e
      BY <2>2, <1>1
    <3>2. c * d = 0 - c * e /\ c * e \in Nat
      BY <3>1
    <3> QED BY <3>2, <1>1
  <2> QED BY <2>1, <2>2, <1>1
<1>3. c * d <= 1 * q
  BY <1>2, <1>1
<1> QED BY <1>1, <1>3 DEF Near, q, d

\* The distance to s + 1 is less than 2^-15 of it after four rounds, 2^-32 after five
\* and 2^-64 after six.
LEMMA SixRounds ==
    ASSUME NEW x \in Nat \ {0}, NEW s, IsRoot(s, x), NEW r \in Nat \ {0},
           r * r <= x, x < 8 * (r * r)
    PROVE  LET I(n) == Improved(n, x) IN Near(TwoTo64, 1, I(I(I(I(I(I(r)))))), s)
<1> DEFINE I(n) == Improved(n, x)
<1>1. Near(5, 3, I(r), s)
  BY FirstRound
<1>2. Near(80, 9, I(I(r)), s)
  <2>1. Near(2 * (5 * (5 + 3)), 3 * 3, I(I(r)), s)
    BY <1>1, RoundConverges
  <2> QED BY <2>1, SMT
<1>3. Near(14240, 81, I(I(I(r))), s)
  <2>1. Near(2 * (80 * (80 + 9)), 9 * 9, I(I(I(r))), s)
    BY <1>2, RoundConverges, SMT
  <2> QED BY <2>1, SMT
<1> HIDE DEF I
<1>4. s \in Nat
  BY DEF IsRoot
<1>5. Near(62000, 1, I(I(I(I(r)))), s)
  <2>1. Near(2 * (14240 * (14240 + 81)), 81 * 81, I(I(I(I(r)))), s)
    BY <1>3, RoundConverges, SMT DEF I
  <2>2. Near(407862080, 6561, I(I(I(I(r)))), s)
    BY <2>1, SMT
  <2>3. 6561 * 62000 <= 407862080
    BY SMT
  <2> QED BY <2>2, <2>3, <1>4, NearCoarser, SMT
<1>6. Near(TwoTo32, 1, I(I(I(I(I(r))))), s)
  <2>1. Near(2 * (62000 * (62000 + 1)), 1 * 1, I(I(I(I(I(r))))), s)
    BY <1>5, RoundConverges, SMT DEF I
  <2>2. Near(7688124000, 1, I(I(I(I(I(r))))), s)
    BY <2>1, SMT
  <2>3. 1 * TwoTo32 <= 7688124000
    BY SMT DEF TwoTo32, TwoTo16
  <2> QED BY <2>2, <2>3, <1>4, PowersType, NearCoarser, SMT
<1>7. Near(TwoTo64, 1, I(I(I(I(I(I(r)))))), s)
  <2> DEFINE c == TwoTo32
  <2>1. c \in Nat \ {0} /\ TwoTo64 \in Nat \ {0} /\ TwoTo64 = c * c
    BY PowersType DEF TwoTo64
  <2> HIDE DEF c
  <2>2. Near(2 * (c * (c + 1)), 1 * 1, I(I(I(I(I(I(r)))))), s)
    BY <1>6, <2>1, RoundConverges DEF I, c
  <2>3. 2 * (c * (c + 1)) \in Nat \ {0} /\ 1 * (c * c) <= 2 * (c * (c + 1)) /\ 1 * 1 = 1
    BY <2>1
  <2> QED BY <2>1, <2>2, <2>3, <1>4, NearCoarser
<1> QED BY <1>7 DEF I

\* Seven rounds and the smaller of the last two estimates are the root.
LEMMA SevenRounds ==
    ASSUME NEW x \in Nat \ {0}, x < TwoTo256, NEW s, IsRoot(s, x), NEW r \in Nat \ {0},
           r * r <= x, x < 8 * (r * r)
    PROVE  LET I(n) == Improved(n, x)
           IN  SmallerEstimate(I(I(I(I(I(I(I(r))))))), x) = s
<1> DEFINE I(n) == Improved(n, x)
<1>1. PICK n : n = I(I(I(I(I(I(r))))))
  OBVIOUS
<1>2. Near(TwoTo64, 1, n, s)
  BY <1>1, SixRounds
<1> DEFINE q == s + 1
           d == n - q
           c == TwoTo64
<1>3. n \in Nat \ {0} /\ n >= s /\ c * d <= q
  <2>1. n \in Nat \ {0} /\ n >= s /\ TwoTo64 * (n - (s + 1)) <= 1 * (s + 1)
    BY <1>2 DEF Near
  <2> QED BY <2>1 DEF IsRoot
<1>4. s \in Nat /\ s * s <= x
  BY DEF IsRoot
<1>5. q \in Nat \ {0} /\ q <= TwoTo128
  <2>1. TwoTo128 \in Nat
    BY PowersType
  <2>2. s * s < TwoTo128 * TwoTo128
    <3>1. TwoTo128 * TwoTo128 \in Int /\ s * s \in Int
      BY <2>1, <1>4
    <3> QED BY <3>1, <1>4 DEF TwoTo256
  <2>3. s < TwoTo128
    <3> SUFFICES ASSUME TwoTo128 <= s PROVE FALSE
      BY <1>4, <2>1
    <3> DEFINE w == TwoTo128
    <3>1. w * w <= w * s /\ s * w <= s * s
      BY <1>4, <2>1, MulMono
    <3>2. w * s = s * w /\ w * w \in Int /\ w * s \in Int /\ s * s \in Int
      BY <1>4, <2>1
    <3> QED BY <3>1, <3>2, <2>2
  <2> QED BY <1>4, <2>1, <2>3
<1>6. c \in Nat \ {0} /\ q <= c * c
  BY <1>5, PowersType DEF TwoTo128
<1>7. n <= q \/ d * d <= q
  <2> SUFFICES ASSUME n > q PROVE d * d <= q
    BY <1>3, <1>5
  <2>1. d \in Nat \ {0}
    BY <1>3, <1>5
  <2> HIDE DEF c, d, q
  <2> DEFINE v == c * d
  <2>2. v \in Nat /\ v <= q
    BY <2>1, <1>3, <1>6
  <2>3. v * v = (c * c) * (d * d)
    BY <2>1, <1>6
  <2> HIDE DEF v
  <2>4. v * v <= v * q /\ q * v <= q * q
    BY <2>2, <1>5, MulMono
  <2>5. q * q <= q * (c * c)
    BY <1>5, <1>6, MulMono
  <2>6. (c * c) * (d * d) <= (c * c) * q
    <3>1. v * v \in Int /\ v * q \in Int /\ v * q = q * v /\ q * q \in Int
      BY <2>2, <1>5
    <3>2. q * (c * c) = (c * c) * q /\ q * (c * c) \in Int
      BY <1>5, <1>6
    <3> QED BY <3>1, <3>2, <2>3, <2>4, <2>5
  <2>7. c * c \in Nat \ {0} /\ d * d \in Int
    BY <1>6, <2>1
  <2> QED BY <2>6, <2>7, <1>5, MulCancel
<1>8. SmallerEstimate(I(n), x) = s
  BY <1>3, <1>7, LastRound
<1> QED BY <1>1, <1>8

\* e estimates x: xx, which is less than limit, is the quotient of x and the square of r.
Estimates(e, x, limit) ==
    /\ e.xx \in Nat \ {0} /\ e.r \in Nat \ {0} /\ e.xx < limit
    /\ e.xx * (e.r * e.r) <= x /\ x < (e.xx + 1) * (e.r * e.r)

\* One of the tests of the leading bits.
LEMMA ScaledEstimates ==
    ASSUME NEW x \in Nat, NEW root \in Nat \ {0}, NEW power, power = root * root,
           NEW e, Estimates(e, x, power * power)
    PROVE  Estimates(Scaled(e, power, root), x, power)
<1> DEFINE w == e.r * e.r
           y == e.xx \div power
           f == [xx |-> y, r |-> e.r * root]
<1>1. /\ e.xx \in Nat \ {0} /\ e.r \in Nat \ {0} /\ e.xx < power * power
      /\ e.xx * w <= x /\ x < (e.xx + 1) * w
  BY DEF Estimates
<1>2. power \in Nat \ {0} /\ w \in Nat \ {0}
  BY <1>1
<1>3. CASE e.xx < power
  BY <1>1, <1>2, <1>3 DEF Estimates, Scaled
<1>4. CASE e.xx >= power
  <2>1. y \in Nat /\ power * y <= e.xx /\ e.xx < power * y + power
    BY <1>1, <1>2, FloorBounds
  <2> HIDE DEF y
  <2>2. y \in Nat \ {0} /\ y < power
    <3>1. y # 0
      <4> SUFFICES ASSUME y = 0 PROVE FALSE
        OBVIOUS
      <4>1. power * y = 0
        BY <1>2
      <4> QED BY <4>1, <2>1, <1>1, <1>2, <1>4
    <3>2. y < power
      <4> SUFFICES ASSUME y >= power PROVE FALSE
        BY <2>1, <1>2
      <4>1. power * power <= power * y
        BY <2>1, <1>2, MulMono
      <4>2. power * power \in Int /\ power * y \in Int
        BY <2>1, <1>2
      <4> QED BY <4>1, <4>2, <2>1, <1>1
    <3> QED BY <3>1, <3>2, <2>1
  <2> DEFINE z == e.r * root
  <2>3. z \in Nat \ {0} /\ z * z = power * w
    BY <1>1
  <2> HIDE DEF z, w
  <2>4. y * (z * z) <= x
    <3>1. w * (power * y) <= w * e.xx
      BY <2>1, <1>1, <1>2, MulMono
    <3>2. w * (power * y) = y * (power * w) /\ w * e.xx = e.xx * w
      BY <2>1, <1>1, <1>2
    <3>3. y * (power * w) \in Int /\ e.xx * w \in Int
      BY <2>1, <1>1, <1>2
    <3>4. y * (power * w) <= x
      BY <3>1, <3>2, <3>3, <1>1
    <3> QED BY <3>4, <2>3
  <2>5. x < (y + 1) * (z * z)
    <3>1. w * (e.xx + 1) <= w * (power * y + power)
      BY <2>1, <1>1, <1>2, MulMono
    <3>2. w * (power * y + power) = (y + 1) * (power * w) /\ w * (e.xx + 1) = (e.xx + 1) * w
      BY <2>1, <1>1, <1>2
    <3>3. (y + 1) * (power * w) \in Int /\ (e.xx + 1) * w \in Int
      BY <2>1, <1>1, <1>2
    <3>4. x < (y + 1) * (power * w)
      BY <3>1, <3>2, <3>3, <1>1
    <3> QED BY <3>4, <2>3
  <2>6. f.xx = y /\ f.r = z
    BY DEF z
  <2>7. Estimates(f, x, power)
    <3> HIDE DEF f
    <3> QED BY <2>2, <2>3, <2>4, <2>5, <2>6 DEF Estimates
  <2>8. Scaled(e, power, root) = f
    BY <1>4 DEF Scaled, y
  <2> QED BY <2>7, <2>8
<1> QED BY <1>3, <1>4, <1>1, <1>2

\* The seed after the last test, of the top bit of four.
LEMMA RefinedIsRoot ==
    ASSUME NEW x \in Nat \ {0}, x < TwoTo256, NEW e, Estimates(e, x, 16)
    PROVE  IsRoot(Refined(e, x), x)
<1> DEFINE r0 == IF e.xx >= 8 THEN 2 * e.r ELSE e.r
           w == e.r * e.r
           I(n) == Improved(n, x)
<1>1. PICK s : IsRoot(s, x)
  BY RootExists
<1>2. /\ e.xx \in Nat \ {0} /\ e.r \in Nat \ {0} /\ e.xx < 16
      /\ e.xx * w <= x /\ x < (e.xx + 1) * w
  BY DEF Estimates
<1>3. w \in Nat \ {0}
  BY <1>2
<1>4. r0 \in Nat \ {0} /\ r0 * r0 <= x /\ x < 8 * (r0 * r0)
  <2>1. CASE e.xx >= 8
    <3>1. r0 \in Nat \ {0} /\ r0 * r0 = 4 * w
      BY <2>1, <1>2
    <3> HIDE DEF w, r0
    <3>2. w * 8 <= w * e.xx /\ w * (e.xx + 1) <= w * 16
      BY <2>1, <1>2, <1>3, MulMono
    <3>3. w * e.xx = e.xx * w /\ w * (e.xx + 1) = (e.xx + 1) * w
          /\ w * e.xx \in Int /\ w * (e.xx + 1) \in Int
      BY <1>2, <1>3
    <3> QED BY <3>1, <3>2, <3>3, <1>2, <1>3
  <2>2. CASE e.xx < 8
    <3>1. r0 \in Nat \ {0} /\ r0 * r0 = w
      BY <2>2, <1>2
    <3> HIDE DEF w, r0
    <3>2. w * 1 <= w * e.xx /\ w * (e.xx + 1) <= w * 8
      BY <2>2, <1>2, <1>3, MulMono
    <3>3. w * e.xx = e.xx * w /\ w * (e.xx + 1) = (e.xx + 1) * w
          /\ w * e.xx \in Int /\ w * (e.xx + 1) \in Int
      BY <1>2, <1>3
    <3> QED BY <3>1, <3>2, <3>3, <1>2, <1>3
  <2> QED BY <2>1, <2>2, <1>2
<1>5. Refined(e, x) = SmallerEstimate(I(I(I(I(I(I(I(r0))))))), x)
  BY DEF Refined
<1> HIDE DEF r0
<1>6. SmallerEstimate(I(I(I(I(I(I(I(r0))))))), x) = s
  BY <1>1, <1>4, SevenRounds
<1> QED BY <1>1, <1>5, <1>6

\* sqrt with the tests of the higher bits, which the integers of TLC do not hold.
HighBits(x) ==
    Scaled(Scaled(Scaled([xx |-> x, r |-> 1], TwoTo128, TwoTo64), TwoTo64, TwoTo32), TwoTo32, TwoTo16)

sqrt256(x) ==
    IF x = 0 THEN 0
    ELSE Refined(Scaled(Scaled(Scaled(HighBits(x), 65536, 256), 256, 16), 16, 4), x)

\* An estimate goes through the tests of the lower bits.
LEMMA LowBitsEstimate ==
    ASSUME NEW x \in Nat, NEW e, Estimates(e, x, TwoTo32)
    PROVE  Estimates(Scaled(Scaled(Scaled(e, 65536, 256), 256, 16), 16, 4), x, 16)
<1>1. 65536 = 256 * 256 /\ 256 = 16 * 16 /\ 16 = 4 * 4 /\ TwoTo32 = 65536 * 65536
  BY SMT DEF TwoTo32, TwoTo16
<1> DEFINE e1 == Scaled(e, 65536, 256)
           e2 == Scaled(e1, 256, 16)
<1>2. Estimates(e1, x, 65536)
  <2>1. Estimates(e, x, 65536 * 65536)
    BY <1>1, SMT
  <2> QED BY <1>1, <2>1, ScaledEstimates, SMT
<1> HIDE DEF e1
<1>3. Estimates(e2, x, 256)
  <2>1. Estimates(e1, x, 256 * 256)
    BY <1>1, <1>2, SMT
  <2> QED BY <1>1, <2>1, ScaledEstimates, SMT
<1> HIDE DEF e2
<1>4. Estimates(Scaled(e2, 16, 4), x, 16)
  <2>1. Estimates(e2, x, 16 * 16)
    BY <1>1, <1>3, SMT
  <2> QED BY <1>1, <2>1, ScaledEstimates, SMT
<1> QED BY <1>4 DEF e1, e2

\* sqrt returns the integer square root of every number of 256 bits: the seven rounds
\* of Newton's method, which the code's comment says should be enough, are.
THEOREM SevenIterationsEnough ==
    \A x \in Nat : x < TwoTo256 => IsRoot(sqrt256(x), x)
<1> SUFFICES ASSUME NEW x \in Nat, x < TwoTo256 PROVE IsRoot(sqrt256(x), x)
  OBVIOUS
<1>1. CASE x = 0
  BY <1>1 DEF sqrt256, IsRoot
<1>2. CASE x # 0
  <2> DEFINE e0 == [xx |-> x, r |-> 1]
             e1 == Scaled(e0, TwoTo128, TwoTo64)
             e2 == Scaled(e1, TwoTo64, TwoTo32)
             e3 == Scaled(e2, TwoTo32, TwoTo16)
             e == Scaled(Scaled(Scaled(e3, 65536, 256), 256, 16), 16, 4)
  <2>1. Estimates(e0, x, TwoTo128 * TwoTo128)
    <3>1. e0.xx = x /\ e0.r = 1
      OBVIOUS
    <3> HIDE DEF e0
    <3> QED BY <3>1, <1>2 DEF Estimates, TwoTo256
  <2> HIDE DEF e0
  <2>2. Estimates(e1, x, TwoTo128)
    BY <2>1, PowersType, ScaledEstimates DEF TwoTo128
  <2> HIDE DEF e1
  <2>3. Estimates(e2, x, TwoTo64)
    BY <2>2, PowersType, ScaledEstimates DEF TwoTo128, TwoTo64
  <2> HIDE DEF e2
  <2>4. Estimates(e3, x, TwoTo32)
    BY <2>3, PowersType, ScaledEstimates DEF TwoTo64, TwoTo32
  <2> HIDE DEF e3
  <2>5. Estimates(e, x, 16)
    BY <2>4, LowBitsEstimate
  <2> HIDE DEF e
  <2>6. IsRoot(Refined(e, x), x)
    BY <2>5, <1>2, RefinedIsRoot
  <2>7. sqrt256(x) = Refined(e, x)
    BY <1>2 DEF sqrt256, HighBits, e, e3, e2, e1, e0
  <2> QED BY <2>6, <2>7
<1> QED BY <1>1, <1>2

\* Below 2^32 the tests of the higher bits fail: sqrt is the code's function.
LEMMA SqrtOfSmall == ASSUME NEW x \in Nat, x < TwoTo32 PROVE sqrt256(x) = sqrt(x)
<1> DEFINE e0 == [xx |-> x, r |-> 1]
<1>1. TwoTo32 <= TwoTo64 /\ TwoTo64 <= TwoTo128
  <2>1. ASSUME NEW a \in Nat \ {0} PROVE a <= a * a
    <3>1. a * 1 <= a * a
      BY MulMono
    <3> QED BY <3>1
  <2> QED BY <2>1, PowersType DEF TwoTo64, TwoTo128
<1>2. ~(x >= TwoTo32) /\ ~(x >= TwoTo64) /\ ~(x >= TwoTo128)
  BY <1>1, PowersType
<1>3. e0.xx = x
  OBVIOUS
<1> HIDE DEF e0
<1>4. /\ Scaled(e0, TwoTo128, TwoTo64) = e0 /\ Scaled(e0, TwoTo64, TwoTo32) = e0
      /\ Scaled(e0, TwoTo32, TwoTo16) = e0
  BY <1>2, <1>3 DEF Scaled
<1>5. HighBits(x) = e0
  BY <1>4 DEF HighBits, e0
<1> QED BY <1>5 DEF sqrt, sqrt256, e0

\* The amounts of the model are those of its sqrt.
SmallRadicands == \A x \in Radicands : x < TwoTo32

\* The amounts are natural numbers: the pair is never empty.
LEMMA RadicandsType == ASSUME IInv, NEW x \in Radicands PROVE x \in Nat
<1> DEFINE b == pair.base
<1>1. b \in Nat \ {0}
  BY DEF IInv, MarketOK, Pair
<1>2. CASE x \in (b * b - 1)..(b * b + 1)
  <2>1. PICK n \in Nat \ {0} : n = b * b
    BY <1>1
  <2> QED BY <2>1, <1>2
<1>3. CASE x \in {radicand(base, pair.base) : base \in BaseAmounts}
  <2>1. PICK base \in BaseAmounts : x = radicand(base, b)
    BY <1>3
  <2>2. base \in Nat /\ fee \in Nat /\ feeDenom \in Nat
    BY WorkerAssumption, FeeAssumption
  <2>3. base * 4 * feeDenom * fee \in Nat /\ b * (feeDenom + fee) * (feeDenom + fee) \in Nat
    BY <2>2, <1>1
  <2>4. radicand(base, b) \in Nat
    BY <2>3, <1>1 DEF radicand
  <2> QED BY <2>1, <2>4
<1> QED BY <1>2, <1>3 DEF Radicands

\* The roots that AddBaseTokenOnly computes the amount to swap from are exact, for as
\* long as the amounts are below 2^32, in whatever state the pair is left.
LEMMA SmallRootsExact == IInv /\ SmallRadicands => SqrtExact
<1> SUFFICES ASSUME IInv, SmallRadicands, NEW x \in Radicands
             PROVE  sqrt(x) * sqrt(x) <= x /\ x < (sqrt(x) + 1) * (sqrt(x) + 1)
  BY DEF SqrtExact
<1>1. x \in Nat /\ x < TwoTo32
  BY RadicandsType DEF SmallRadicands
<1>2. TwoTo32 <= TwoTo256
  <2>1. ASSUME NEW a \in Nat \ {0} PROVE a <= a * a /\ a * a \in Nat
    <3>1. a * 1 <= a * a
      BY MulMono
    <3> QED BY <3>1
  <2>2. TwoTo32 <= TwoTo64 /\ TwoTo64 <= TwoTo128 /\ TwoTo128 <= TwoTo256
    BY <2>1, PowersType DEF TwoTo64, TwoTo128, TwoTo256
  <2> QED BY <2>2, PowersType
<1>3. IsRoot(sqrt256(x), x)
  BY <1>1, <1>2, PowersType, SevenIterationsEnough
<1>4. IsRoot(sqrt(x), x)
  BY <1>1, <1>3, SqrtOfSmall
<1> QED BY <1>4 DEF IsRoot

\* HuskyMath.sqrt as AddBaseTokenOnly uses it, in every state of the worker.
THEOREM SqrtAlwaysExact == Spec /\ []SmallRadicands => []SqrtExact
<1> QED BY Invariance, SmallRootsExact, PTL
=============================================================================
