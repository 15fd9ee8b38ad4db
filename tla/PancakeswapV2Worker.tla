------------------------ MODULE PancakeswapV2Worker ------------------------
(***************************************************************************)
(* contracts/6/protocol/workers/PancakeswapV2Worker.sol: the worker that   *)
(* farms the positions' LP tokens in one MasterChef pool and keeps each    *)
(* position's part of the stake as shares.  Its strategies run against one *)
(* PancakeSwap pair, which everyone else trades on too.                    *)
(*                                                                         *)
(* reward is the CAKE the worker holds or could harvest: every stake moves *)
(* some from MasterChef to the worker and only reinvest looks at it.  The  *)
(* vault (operator) sends base tokens along with a call to work.  addStrat *)
(* and liqStrat are the ones initialize was given.                         *)
(***************************************************************************)
EXTENDS Strategies, FiniteSets, Functions

CONSTANTS
    Ids,                          \* of the vault's positions this worker farms for
    BPS,                          \* 10000
    InitialPair, InitialBounty, InitialMaxBounty,
    BaseAmounts, Debts,           \* what the vault sends and says of a debt
    FarmAmounts, LpAmounts, Repayments, Minima,  \* strategy arguments
    Rewards, CakeSwaps,           \* CAKE earned, and base tokens swapped from it
    Reinvestors, Bounties, StrategySets, Trades, Donations,
    MaxOps, MaxTrades, MaxSettings  \* bounds

ASSUME WorkerAssumption ==
    /\ IsFiniteSet(Ids) /\ BPS \in Nat \ {0}
    /\ InitialPair \in [base : Nat \ {0}, farm : Nat \ {0}, supply : Nat \ {0}]
    /\ InitialBounty \in Nat /\ InitialMaxBounty \in Nat /\ InitialBounty <= InitialMaxBounty
    /\ BaseAmounts \subseteq Nat /\ Debts \subseteq Nat /\ FarmAmounts \subseteq Nat
    /\ LpAmounts \subseteq Nat /\ Repayments \subseteq Nat /\ Minima \subseteq Nat
    /\ Rewards \subseteq Nat /\ CakeSwaps \subseteq Nat /\ Bounties \subseteq Nat
    /\ Trades \subseteq Nat /\ Donations \subseteq Nat
    /\ MaxOps \in Nat /\ MaxTrades \in Nat /\ MaxSettings \in Nat

addStrat == "AddBaseTokenOnly"
liqStrat == "Liquidate"
AllStrategies ==
    {addStrat, liqStrat, "AddTwoSidesOptimal", "PartialCloseLiquidate",
     "WithdrawMinimizeTrading", "PartialCloseMinimizeTrading"}

VARIABLES
    shares, totalShare,
    staked,      \* masterChef.userInfo(pid, worker).amount
    lp,          \* LP tokens in the worker between calls
    reward,
    pair,        \* the pair's reserves and LP supply
    left,        \* what the strategies keep between calls
    okStrats,    \* strategies the worker accepts
    okWorkers,   \* strategies that accept this worker
    okReinvestors,
    reinvestBountyBps, maxReinvestBountyBps,
    sent,        \* history: base tokens the last call sent to the vault
    ops, trades, settings  \* history: calls, market moves and settings so far

farming == <<shares, totalShare, staked, lp>>
admin == <<okStrats, okWorkers, okReinvestors, reinvestBountyBps, maxReinvestBountyBps>>
vars == <<farming, reward, pair, left, admin, sent, ops, trades, settings>>

\* initialize, and the approvals the deployment scripts add.
Init ==
    /\ shares = [id \in Ids |-> 0] /\ totalShare = 0
    /\ staked = 0 /\ lp = 0 /\ reward = 0
    /\ pair = InitialPair
    /\ left = [s \in AllStrategies |-> [lp |-> 0, base |-> 0, farm |-> 0]]
    /\ okStrats = AllStrategies /\ okWorkers = AllStrategies /\ okReinvestors = Reinvestors
    /\ reinvestBountyBps = InitialBounty /\ maxReinvestBountyBps = InitialMaxBounty
    /\ sent = 0 /\ ops = 0 /\ trades = 0 /\ settings = 0
-----------------------------------------------------------------------------
shareToBalance(share, total, totalBalance) ==
    IF total = 0 THEN share ELSE (share * totalBalance) \div total

\* Mutants: the ratio is swapped, or read after the deposit.
BalanceToShareSwapped(balance, total, totalBalance) ==
    IF total = 0 THEN balance ELSE (balance * totalBalance) \div total
BalanceToShareLate(balance, total, totalBalance) ==
    IF total = 0 THEN balance ELSE (balance * total) \div (totalBalance + balance)

balanceToShare(balance, total, totalBalance) ==
    IF total = 0 THEN balance ELSE (balance * total) \div totalBalance

balanceOf(id) == shareToBalance(shares[id], totalShare, staked)

getMktSellAmount(aIn, rIn, rOut) ==
    IF aIn = 0 THEN 0 ELSE (aIn * fee * rOut) \div (rIn * feeDenom + aIn * fee)

\* Mutant: the reserves are those before the liquidity is removed.
HealthAtFullReserves(id) ==
    LET base == (balanceOf(id) * pair.base) \div pair.supply
        farm == (balanceOf(id) * pair.farm) \div pair.supply
    IN  getMktSellAmount(farm, pair.farm, pair.base) + base

health(id) ==
    LET base == (balanceOf(id) * pair.base) \div pair.supply
        farm == (balanceOf(id) * pair.farm) \div pair.supply
    IN  getMktSellAmount(farm, pair.farm - farm, pair.base - base) + base

\* What the strategy holds when the worker has sent it lpAmount and base.
Funded(strat, lpAmount, base) ==
    [ok |-> TRUE, pair |-> pair,
     has |-> [left[strat] EXCEPT !.lp = @ + lpAmount, !.base = @ + base]]

\* The outcomes of execute(), for the arguments a user may encode.
Executions(strat, w, debt) ==
    CASE strat = "AddBaseTokenOnly" ->
           {AddBaseTokenOnly(w, min) : min \in Minima}
      [] strat = "AddTwoSidesOptimal" ->
           {AddTwoSidesOptimal(w, amount, min) : amount \in FarmAmounts, min \in Minima}
      [] strat = "Liquidate" -> {Liquidate(w, min) : min \in Minima}
      [] strat = "PartialCloseLiquidate" ->
           {PartialCloseLiquidate(w, amount, min) : amount \in LpAmounts, min \in Minima}
      [] strat = "WithdrawMinimizeTrading" ->
           {WithdrawMinimizeTrading(w, debt, min) : min \in Minima}
      [] strat = "PartialCloseMinimizeTrading" ->
           {PartialCloseMinimizeTrading(w, debt, amount, repayment, min) :
               amount \in LpAmounts, repayment \in Repayments, min \in Minima}

\* What _removeShare leaves.
\* Mutant: totalShare is not lowered.
TotalShareKept(id) == totalShare

TotalShareLeft(id) == totalShare - shares[id]
StakeLeft(id) == staked - balanceOf(id)

\* _addShare after it: the share credited, and when it can be computed.
AddedShare(id, balance) ==
    IF balance = 0 THEN 0 ELSE balanceToShare(balance, TotalShareLeft(id), StakeLeft(id))
CanAddShare(id, balance) == balance > 0 /\ TotalShareLeft(id) > 0 => StakeLeft(id) > 0

\* The strategy ran with the result r: pair, leftovers and base tokens sent.
Executed(strat, r, base) ==
    /\ r.ok /\ strat \in okWorkers
    /\ pair' = r.pair
    /\ left' = [left EXCEPT ![strat] = r.left]
    /\ sent' = base

work(id, strat, base, debt) ==
    /\ ops < MaxOps
    /\ strat \in okStrats
    /\ \E r \in Executions(strat, Funded(strat, lp + balanceOf(id), base), debt) :
          LET share == AddedShare(id, r.lp)
          IN  /\ Executed(strat, r, r.base)
              /\ CanAddShare(id, r.lp)
              /\ shares' = [shares EXCEPT ![id] = share]
              /\ totalShare' = TotalShareLeft(id) + share
              /\ staked' = StakeLeft(id) + r.lp
    /\ lp' = 0
    /\ ops' = ops + 1
    /\ UNCHANGED <<reward, admin, trades, settings>>

liquidate(id) ==
    /\ ops < MaxOps
    /\ LET r == Liquidate(Funded(liqStrat, lp + balanceOf(id), 0), 0)
       IN  Executed(liqStrat, r, r.base) /\ lp' = r.lp
    /\ shares' = [shares EXCEPT ![id] = 0]
    /\ totalShare' = TotalShareLeft(id)
    /\ staked' = StakeLeft(id)
    /\ ops' = ops + 1
    /\ UNCHANGED <<reward, admin, trades, settings>>

\* reinvest, when swapping the CAKE that the bounty leaves brings base in.
reinvest(sender, base) ==
    LET bounty == (reward * reinvestBountyBps) \div BPS
        r      == AddBaseTokenOnly(Funded(addStrat, 0, base), 0)
    IN  /\ ops < MaxOps
        /\ sender \in okReinvestors
        /\ reward > 0 /\ bounty < reward
        /\ Executed(addStrat, r, 0)
        /\ staked' = staked + lp + r.lp
        /\ lp' = 0 /\ reward' = 0
        /\ ops' = ops + 1
        /\ UNCHANGED <<shares, totalShare, admin, trades, settings>>
-----------------------------------------------------------------------------
(* Governance: the worker's owner and the strategies' owner. *)

Setting == settings < MaxSettings /\ settings' = settings + 1
           /\ UNCHANGED <<farming, reward, pair, left, sent, ops, trades>>

setReinvestBountyBps(bps) ==
    /\ Setting
    /\ bps <= maxReinvestBountyBps
    /\ reinvestBountyBps' = bps
    /\ UNCHANGED <<okStrats, okWorkers, okReinvestors, maxReinvestBountyBps>>

setMaxReinvestBountyBps(bps) ==
    /\ Setting
    /\ bps >= reinvestBountyBps
    /\ maxReinvestBountyBps' = bps
    /\ UNCHANGED <<okStrats, okWorkers, okReinvestors, reinvestBountyBps>>

setStrategyOk(strats, isOk) ==
    /\ Setting
    /\ okStrats' = IF isOk THEN okStrats \cup strats ELSE okStrats \ strats
    /\ UNCHANGED <<okWorkers, okReinvestors, reinvestBountyBps, maxReinvestBountyBps>>

\* setWorkersOk, in each of the strategies.
setWorkersOk(strats, isOk) ==
    /\ Setting
    /\ okWorkers' = IF isOk THEN okWorkers \cup strats ELSE okWorkers \ strats
    /\ UNCHANGED <<okStrats, okReinvestors, reinvestBountyBps, maxReinvestBountyBps>>

setReinvestorOk(reinvestor, isOk) ==
    /\ Setting
    /\ okReinvestors' = IF isOk THEN okReinvestors \cup {reinvestor}
                        ELSE okReinvestors \ {reinvestor}
    /\ UNCHANGED <<okStrats, okWorkers, reinvestBountyBps, maxReinvestBountyBps>>
-----------------------------------------------------------------------------
(* Environment: farming rewards, other traders, LP tokens sent by others. *)

Market == trades < MaxTrades /\ trades' = trades + 1
          /\ UNCHANGED <<shares, totalShare, staked, left, admin, sent, ops, settings>>

Earn(amount) ==
    /\ Market
    /\ staked > 0 /\ reward' = reward + amount
    /\ UNCHANGED <<lp, pair>>

Trade(in, out, amount) ==
    LET w == swapExactTokensForTokens(
               [ok |-> TRUE, pair |-> pair, has |-> [base |-> amount, farm |-> amount]],
               in, out, amount)
    IN  /\ Market
        /\ w.ok /\ pair' = w.pair
        /\ UNCHANGED <<lp, reward>>

Donate(amount) ==
    /\ Market
    /\ staked + lp + amount < pair.supply
    /\ lp' = lp + amount
    /\ UNCHANGED <<reward, pair>>

Next ==
    \/ \E id \in Ids :
          \/ liquidate(id)
          \/ \E strat \in AllStrategies, base \in BaseAmounts, debt \in Debts :
                work(id, strat, base, debt)
    \/ \E sender \in Reinvestors :
          \/ \E base \in CakeSwaps : reinvest(sender, base)
          \/ \E isOk \in BOOLEAN : setReinvestorOk(sender, isOk)
    \/ \E bps \in Bounties : setReinvestBountyBps(bps) \/ setMaxReinvestBountyBps(bps)
    \/ \E strats \in StrategySets, isOk \in BOOLEAN :
          setStrategyOk(strats, isOk) \/ setWorkersOk(strats, isOk)
    \/ \E amount \in Rewards : Earn(amount)
    \/ \E in, out \in Tokens, amount \in Trades : in # out /\ Trade(in, out, amount)
    \/ \E amount \in Donations : Donate(amount)

Spec == Init /\ [][Next]_vars
-----------------------------------------------------------------------------
\* The shares are those of the positions, all of them, and none stands for less
\* than one LP token of the stake: every position can be paid, whichever closes
\* first, and balanceToShare never divides by an empty stake.
StakeCoversShares ==
    /\ totalShare = SumFunctionOnSet(shares, Ids)
    /\ totalShare <= staked

\* No call that changes another position's shares and no reinvestment (which
\* spends the reward) lowers the LP balance of a position.
OthersBalanceNeverFalls ==
    [][\A id \in Ids :
         /\ shares'[id] = shares[id]
         /\ \/ \E other \in Ids : shares'[other] # shares[other]
            \/ reward' < reward
         => balanceOf(id)' >= balanceOf(id)]_vars

\* A position that work touches is credited with all the LP tokens that end up
\* staked for it, but for less than the value of one share.
CreditedInFull ==
    [][\A id \in Ids :
         LET credited == staked' - StakeLeft(id)
         IN  shares'[id] # shares[id] /\ totalShare' > 0
               => (shares'[id] + 1) * staked' > credited * totalShare']_vars

\* Liquidating a position brings the vault at least the health the worker has
\* just reported for it: both compute the same removal and the same sale.
LiquidationPaysHealth ==
    [][\A id \in Ids : liquidate(id) => sent' >= health(id)]_vars

\* The two add strategies swap the amount that makes the two sides match: what
\* they leave behind is worth at most four units of each token.
LittleLeftBehind ==
    [][\A s \in AllStrategies :
         left'[s] # left[s]
           => left'[s].base * pair'.farm + left'[s].farm * pair'.base
                <= 4 * (pair'.base + pair'.farm)]_vars

\* The amounts AddBaseTokenOnly takes roots of, and the neighbours of a perfect square,
\* where the last rounds of sqrt may alternate.
Radicands ==
    {radicand(base, pair.base) : base \in BaseAmounts}
      \cup (pair.base * pair.base - 1)..(pair.base * pair.base + 1)

\* sqrt returns the integer square root of each of them.
SqrtExact ==
    \A x \in Radicands : LET r == sqrt(x) IN r * r <= x /\ x < (r + 1) * (r + 1)
=============================================================================
