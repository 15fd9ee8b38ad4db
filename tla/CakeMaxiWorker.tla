--------------------------- MODULE CakeMaxiWorker ---------------------------
(***************************************************************************)
(* contracts/6/protocol/workers/CakeMaxiWorker.sol and its strategies: the *)
(* worker that stakes CAKE itself.  Rewards come in the farming token, so  *)
(* rewardBalance sets them apart from what belongs to a position.          *)
(*                                                                         *)
(* baseToken is wNative: the swaps go through one pair.  MasterChef pays   *)
(* pendingCake on every enterStaking and leaveStaking.  Strategies pass on *)
(* everything they hold, so nothing stays in them between calls.           *)
(***************************************************************************)
EXTENDS Pancake, Functions, FiniteSets

CONSTANTS
    Ids,
    FullBps,    \* 10000 basis points
    InitialPair, InitialBounty, InitialVaultBounty, InitialMaxBounty,
    BaseAmounts, Debts, FarmAmounts,  \* base tokens sent, debts, farming tokens requested
    Rewards, Trades, Donations, Bounties,
    MaxCalls, MaxMoves     \* bounds: calls, market moves and settings

\* Amounts are unsigned, and the pair starts with reserves.
ASSUME MaxiAssumption ==
    /\ IsFiniteSet(Ids) /\ FullBps \in Nat \ {0}
    /\ InitialPair \in [base : Nat \ {0}, farm : Nat \ {0}]
    /\ {InitialBounty, InitialVaultBounty, InitialMaxBounty} \subseteq Nat
    /\ BaseAmounts \cup Debts \cup FarmAmounts \cup Rewards \cup Trades
          \cup Donations \cup Bounties \subseteq Nat

AllStrategies == {"AddBaseTokenOnly", "AddBaseWithFarm", "Liquidate", "WithdrawMinimizeTrading"}

VARIABLES
    shares, totalShare,
    staked,          \* masterChef.userInfo(pid, worker).amount
    rewardBalance,
    farming,         \* farmingToken.balanceOf(worker)
    pendingCake,     \* masterChef.pendingCake(pid, worker)
    pair,
    okStrats,
    okReinvestor,    \* okReinvestors, of the one account that calls reinvest
    reinvestBountyBps, maxReinvestBountyBps, beneficialVaultBountyBps,
    sent,            \* history: base tokens the last call sent to the vault
    unpaid,          \* history: CAKE earned and not reinvested yet
    calls, moves     \* history

bounties == <<reinvestBountyBps, maxReinvestBountyBps, beneficialVaultBountyBps>>
maxiVars == <<shares, totalShare, staked, rewardBalance, farming, pendingCake, pair,
              okStrats, okReinvestor, bounties, sent, unpaid, calls, moves>>

MaxiInit ==
    /\ shares = [id \in Ids |-> 0] /\ totalShare = 0
    /\ staked = 0 /\ rewardBalance = 0 /\ farming = 0 /\ pendingCake = 0
    /\ pair = InitialPair
    /\ reinvestBountyBps = InitialBounty /\ maxReinvestBountyBps = InitialMaxBounty
    /\ beneficialVaultBountyBps = InitialVaultBounty
    /\ okStrats = AllStrategies /\ okReinvestor = TRUE
    /\ sent = 0 /\ unpaid = 0 /\ calls = 0 /\ moves = 0
-----------------------------------------------------------------------------
\* Mutant: the balance of a share is rounded up.
ShareToBalanceUp(share, total, totalBalance) ==
    IF total = 0 THEN share ELSE (share * totalBalance + total - 1) \div total

shareToBalance(share, total, totalBalance) ==
    IF total = 0 THEN share ELSE (share * totalBalance) \div total

balanceToShare(balance, total, totalBalance) ==
    IF total = 0 THEN balance ELSE (balance * total) \div totalBalance

balanceOf(id) == shareToBalance(shares[id], totalShare, staked)

\* health follows the pair's own formula, for the position's farming tokens.
health(id) ==
    IF balanceOf(id) = 0 THEN 0 ELSE getAmountOut(balanceOf(id), pair.farm, pair.base)

(* _removeShare: the position's tokens leave the stake, with the rewards so far. *)

TotalShareLeft(id) == totalShare - shares[id]
StakeLeft(id) == staked - balanceOf(id)
Leaves(id) == shares[id] > 0

\* Mutant: the rewards are not set apart.
RewardsMixed(id) == rewardBalance

RewardsAfterLeave(id) == rewardBalance + (IF Leaves(id) THEN pendingCake ELSE 0)
PendingAfterLeave(id) == IF Leaves(id) THEN 0 ELSE pendingCake
FarmingAfterLeave(id) ==
    farming + balanceOf(id) + (IF Leaves(id) THEN pendingCake ELSE 0)

actualFarmingTokenBalance(id) == FarmingAfterLeave(id) - RewardsAfterLeave(id)
-----------------------------------------------------------------------------
(* The strategies, on a wallet w of base and farming tokens: what comes back *)
(* to the worker.  The user's minimum amounts can only make a call revert.   *)

Back(w, base, farm) == [ok |-> w.ok, pair |-> w.pair, base |-> base, farm |-> farm]

AddBaseTokenOnly(w) ==
    LET s == swapExactTokensForTokens(w, "base", "farm", w.has.base)
    IN  Back(s, 0, s.has.farm)

AddBaseWithFarm(w, inputFarmingTokenAmount) ==
    AddBaseTokenOnly([w EXCEPT !.has.farm = @ + inputFarmingTokenAmount])

Liquidate(w) ==
    LET s == swapExactTokensForTokens(w, "farm", "base", w.has.farm)
    IN  Back(s, s.has.base, 0)

\* The rest of the farming tokens goes to the user.
WithdrawMinimizeTrading(w, debt) ==
    LET s == swapTokensForExactTokens(w, "farm", "base", debt)
    IN  Back(s, s.has.base, 0)

Executions(strat, id, base, debt) ==
    LET w == [ok |-> TRUE, pair |-> pair,
              has |-> [base |-> base, farm |-> actualFarmingTokenBalance(id)]]
    IN  CASE strat = "AddBaseTokenOnly" -> {AddBaseTokenOnly(w)}
          [] strat = "AddBaseWithFarm" -> {AddBaseWithFarm(w, amount) : amount \in FarmAmounts}
          [] strat = "Liquidate" -> {Liquidate(w)}
          [] strat = "WithdrawMinimizeTrading" -> {WithdrawMinimizeTrading(w, debt)}

\* work: _removeShare, the strategy, _addShare of what came back.
workWith(id, strat, r) ==
    LET share == balanceToShare(r.farm, TotalShareLeft(id), StakeLeft(id))
    IN  /\ calls < MaxCalls /\ calls' = calls + 1
        /\ strat \in okStrats
        /\ actualFarmingTokenBalance(id) >= 0 /\ r.ok
        /\ pair' = r.pair /\ sent' = r.base
        /\ \/ /\ r.farm = 0
              /\ shares' = [shares EXCEPT ![id] = 0] /\ totalShare' = TotalShareLeft(id)
              /\ staked' = StakeLeft(id)
              /\ rewardBalance' = RewardsAfterLeave(id)
              /\ farming' = RewardsAfterLeave(id) /\ pendingCake' = PendingAfterLeave(id)
           \/ /\ r.farm > 0 /\ (TotalShareLeft(id) > 0 => StakeLeft(id) > 0)
              /\ shares' = [shares EXCEPT ![id] = share]
              /\ totalShare' = TotalShareLeft(id) + share
              /\ staked' = StakeLeft(id) + r.farm
              /\ rewardBalance' = RewardsAfterLeave(id) + PendingAfterLeave(id)
              /\ farming' = RewardsAfterLeave(id) + PendingAfterLeave(id)
              /\ pendingCake' = 0
        /\ UNCHANGED <<okStrats, okReinvestor, bounties, unpaid, moves>>

work(id, strat, base, debt) ==
    \E r \in Executions(strat, id, base, debt) : workWith(id, strat, r)

liquidate(id) ==
    LET r == Liquidate([ok |-> TRUE, pair |-> pair,
                        has |-> [base |-> 0, farm |-> actualFarmingTokenBalance(id)]])
    IN  /\ calls < MaxCalls /\ calls' = calls + 1
        /\ actualFarmingTokenBalance(id) >= 0 /\ r.ok
        /\ pair' = r.pair /\ sent' = r.base
        /\ shares' = [shares EXCEPT ![id] = 0] /\ totalShare' = TotalShareLeft(id)
        /\ staked' = StakeLeft(id)
        /\ rewardBalance' = RewardsAfterLeave(id)
        /\ farming' = RewardsAfterLeave(id) /\ pendingCake' = PendingAfterLeave(id)
        /\ UNCHANGED <<okStrats, okReinvestor, bounties, unpaid, moves>>

\* reinvest stakes all farming tokens but the bounty, of which a part is sold
\* for the beneficial vault; the tokens staked are of no position alone.
reinvest ==
    LET reward      == farming + pendingCake
        bounty      == (reward * reinvestBountyBps) \div FullBps
        vaultBounty == (bounty * beneficialVaultBountyBps) \div FullBps
        sold        == swapExactTokensForTokens(
                         [ok |-> TRUE, pair |-> pair, has |-> [base |-> 0, farm |-> vaultBounty]],
                         "farm", "base", vaultBounty)
    IN  /\ calls < MaxCalls /\ calls' = calls + 1
        /\ okReinvestor
        /\ reward > 0 /\ bounty <= reward /\ vaultBounty <= bounty
        /\ IF vaultBounty > 0 THEN sold.ok /\ pair' = sold.pair ELSE UNCHANGED pair
        /\ staked' = staked + (reward - bounty)
        /\ rewardBalance' = 0 /\ farming' = 0 /\ pendingCake' = 0 /\ unpaid' = 0
        /\ sent' = 0
        /\ UNCHANGED <<shares, totalShare, okStrats, okReinvestor, bounties, moves>>
-----------------------------------------------------------------------------
(* The owner's settings, farming rewards, other traders and gifts. *)

Move == moves < MaxMoves /\ moves' = moves + 1
        /\ UNCHANGED <<shares, totalShare, staked, rewardBalance, sent, calls>>
Setting == Move /\ UNCHANGED <<farming, pendingCake, pair, unpaid>>
Market == Move /\ UNCHANGED <<okStrats, okReinvestor, bounties>>

setReinvestBountyBps(bps) ==
    /\ Setting /\ bps <= maxReinvestBountyBps /\ reinvestBountyBps' = bps
    /\ UNCHANGED <<okStrats, okReinvestor, maxReinvestBountyBps, beneficialVaultBountyBps>>

setMaxReinvestBountyBps(bps) ==
    /\ Setting /\ bps >= reinvestBountyBps /\ maxReinvestBountyBps' = bps
    /\ UNCHANGED <<okStrats, okReinvestor, reinvestBountyBps, beneficialVaultBountyBps>>

setBeneficialVaultBountyBps(bps) ==
    /\ Setting /\ bps <= FullBps /\ beneficialVaultBountyBps' = bps
    /\ UNCHANGED <<okStrats, okReinvestor, reinvestBountyBps, maxReinvestBountyBps>>

setStrategyOk(strats, isOk) ==
    /\ Setting /\ okStrats' = IF isOk THEN okStrats \cup strats ELSE okStrats \ strats
    /\ UNCHANGED <<okReinvestor, bounties>>

setReinvestorOk(isOk) ==
    /\ Setting /\ okReinvestor' = isOk
    /\ UNCHANGED <<okStrats, bounties>>

Earn(amount) ==
    /\ Market /\ staked > 0
    /\ pendingCake' = pendingCake + amount /\ unpaid' = unpaid + amount
    /\ UNCHANGED <<farming, pair>>

Trade(in, out, amount) ==
    LET w == swapExactTokensForTokens(
               [ok |-> TRUE, pair |-> pair, has |-> [base |-> amount, farm |-> amount]],
               in, out, amount)
    IN  /\ Market /\ w.ok /\ pair' = w.pair
        /\ UNCHANGED <<farming, pendingCake, unpaid>>

Donate(amount) ==
    /\ Market /\ farming' = farming + amount
    /\ UNCHANGED <<pendingCake, pair, unpaid>>

MaxiNext ==
    \/ \E id \in Ids, strat \in AllStrategies, base \in BaseAmounts, debt \in Debts :
          work(id, strat, base, debt)
    \/ \E id \in Ids : liquidate(id)
    \/ reinvest
    \/ \E bps \in Bounties : setReinvestBountyBps(bps) \/ setMaxReinvestBountyBps(bps)
                             \/ setBeneficialVaultBountyBps(bps)
    \/ \E isOk \in BOOLEAN : setReinvestorOk(isOk) \/ setStrategyOk(AllStrategies, isOk)
    \/ \E amount \in Rewards : Earn(amount)
    \/ \E in, out \in Tokens, amount \in Trades : in # out /\ Trade(in, out, amount)
    \/ \E amount \in Donations : Donate(amount)

MaxiSpec == MaxiInit /\ [][MaxiNext]_maxiVars
-----------------------------------------------------------------------------
\* Rewards stay apart from the positions' tokens until they are reinvested: the
\* worker holds what rewardBalance says, all rewards earned and nothing else, so
\* actualFarmingTokenBalance never reverts and no position is paid with them.
RewardsSetApart ==
    /\ rewardBalance <= farming
    /\ rewardBalance + pendingCake = unpaid

\* No call on another position and no reinvestment lowers a position's balance.
PositionNeverFalls ==
    [][\A id \in Ids :
         shares'[id] = shares[id] => balanceOf(id)' >= balanceOf(id)]_maxiVars
=============================================================================
