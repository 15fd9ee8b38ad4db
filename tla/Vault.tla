------------------------------- MODULE Vault -------------------------------
(***************************************************************************)
(* The lending vault of contracts/6/protocol/Vault.sol.                    *)
(*                                                                         *)
(* Lenders deposit the base token and hold ibToken shares; farmers borrow  *)
(* through leveraged positions whose debt is kept as shares of a common    *)
(* debt pool; liquidators kill positions whose health fell below the kill  *)
(* factor; interest accrues lazily, in the accrue modifier.                *)
(*                                                                         *)
(* A call that reverts changes nothing, so a require is a conjunct of the  *)
(* guard and so is every SafeMath subtraction and division.  Base tokens   *)
(* held by anyone but the vault are BaseSupply - cash: who of them is paid *)
(* does not matter to the vault's books.  The same holds for the ibToken,  *)
(* a freely transferable ERC20: only its totalSupply is kept.  A worker is *)
(* an environment: it reports any health and returns any amount of base    *)
(* token that exists outside the vault.                                    *)
(***************************************************************************)
EXTENDS TripleSlopeModel, LedgerMath, FiniteSets

CONSTANTS
    Users,              \* externally owned accounts (onlyEOA)
    Workers,            \* worker contracts
    NoAddress,          \* the zero address
    Configs,            \* the configurations governance may install
    DebtTokens,         \* debt token contracts
    Pools, NoPool,      \* FairLaunch pool ids, and uint256(-1)
    StakeToken,         \* the debt token each FairLaunch pool stakes
    BPS, WAD,           \* 10000 and 1e18
    TinyShares,         \* 1e17, the "no tiny shares" threshold
    BaseSupply,         \* all base tokens that exist
    Principals, Loans, Backs, MaxReturns, \* amounts calls are made with
    Deposits, Shares,   \* amounts deposited, ibTokens burnt
    Values,             \* amounts moved by reserve operations and gifts
    Outcomes,           \* outcomes of the tolerated FairLaunch call
    HealthLevels,       \* values a worker's health() reports
    \* bounds: clock, positions, a farmer's stake, the debt pool, ibTokens
    MaxTime, MaxPositions, MaxStake, MaxDebt, MaxSupply

ASSUME ScaleAssumption ==
    /\ BPS \in Nat \ {0}
    /\ WAD \in Nat \ {0}
    /\ TinyShares \in Nat
    /\ BaseSupply \in Nat
    /\ MaxTime \in Nat
    /\ MaxPositions \in Nat
    /\ MaxStake \in Nat
    /\ MaxSupply \in Nat
    /\ MaxDebt \in Nat

ASSUME AmountAssumption ==
    /\ Principals \subseteq Nat /\ Loans \subseteq Nat
    /\ Backs \subseteq Nat      /\ MaxReturns \subseteq Nat
    /\ Deposits \subseteq Nat   /\ Shares \subseteq Nat
    /\ Values \subseteq Nat     /\ Outcomes \subseteq BOOLEAN
    /\ HealthLevels \subseteq Nat

ASSUME AddressAssumption ==
    /\ NoAddress \notin Users
    /\ NoAddress \notin Workers
    /\ NoPool \notin Pools /\ IsFiniteSet(Pools)
    /\ StakeToken \in [Pools -> DebtTokens]

(***************************************************************************)
(* What the vault reads of its configuration.  stable stands for the       *)
(* oracle check every factor getter makes first (WorkerConfig.isStable).   *)
(* The ratios the vault adds to its own books are fractions; nothing in    *)
(* the configuration contracts bounds them, deployments do.                *)
(***************************************************************************)
ASSUME ConfigAssumption ==
    \A c \in Configs :
        /\ c.minDebtSize \in Nat
        /\ c.reservePoolBps \in 0..BPS
        /\ c.killBps \in 0..BPS
        /\ c.closeBps \in 0..BPS
        /\ WellFormedSlopes(c.interestModel)
        /\ \A w \in Workers :
              /\ c.worker[w].isWorker \in BOOLEAN
              /\ c.worker[w].acceptDebt \in BOOLEAN
              /\ c.worker[w].stable \in BOOLEAN
              /\ c.worker[w].workFactor \in Nat
              /\ c.worker[w].killFactor \in Nat

VARIABLES
    cash,              \* token.balanceOf(vault)
    totalSupply,       \* ibToken supply
    reservePool, vaultDebtVal, vaultDebtShare, lastAccrueTime,
    now,               \* block timestamp
    nextPositionID, positions,
    config, debtToken, fairLaunchPoolId,
    staked,            \* FairLaunch: debt tokens staked, by pool and farmer
    health,            \* what the workers' health(id) reports
    shortfall          \* history: some kill recovered less than the debt

books == <<cash, totalSupply, reservePool, vaultDebtVal, vaultDebtShare,
           lastAccrueTime>>
farm == <<nextPositionID, positions, staked, health>>
admin == <<config, debtToken, fairLaunchPoolId>>
vars == <<books, farm, admin, now, shortfall>>

Ids == 1..MaxPositions
Position == [worker   : Workers \cup {NoAddress},
             owner    : Users \cup {NoAddress},
             debtShare: Nat]
-----------------------------------------------------------------------------
(* Conversions.  V and S are vaultDebtVal and vaultDebtShare. *)

\* Mutants: the value of a share rounded up; the ratio of a new share swapped.
ShareToValRoundedUp(debtShare, V, S) ==
    IF S = 0 THEN debtShare ELSE (debtShare * V + S - 1) \div S
ValToShareSwapped(debtVal, V, S) ==
    IF S = 0 THEN debtVal ELSE (debtVal * V) \div S

debtShareToVal(debtShare, V, S) ==
    IF S = 0 THEN debtShare ELSE (debtShare * V) \div S

debtValToShare(debtVal, V, S) ==
    IF S = 0 THEN debtVal ELSE (debtVal * S) \div V

\* Interest since the last accrual.  The balance the rate is read at leaves
\* out the value that the current call has already transferred in.
pendingInterest(balance, value) ==
    IF now > lastAccrueTime
    THEN (getInterestRate(config.interestModel, vaultDebtVal, balance - value)
            * vaultDebtVal * (now - lastAccrueTime)) \div WAD
    ELSE 0

\* What _removeDebt leaves of the pool when a position gives up share.
\* Mutant: the position is cleared, the pool keeps its share.
KeepsDebtShare(share) == vaultDebtShare

DebtShareLeft(share) == vaultDebtShare - share

DebtValLeft(share, V) == V - debtShareToVal(share, V, vaultDebtShare)

\* The books after the accrue modifier of a call that brought value in.
\* Mutant: the reserve gets its part, the debt is not increased.
UnaccruedDebtVal(value) == vaultDebtVal

AccruedDebtVal(value) == vaultDebtVal + pendingInterest(cash + value, value)

AccruedReserve(value) ==
    reservePool
      + (pendingInterest(cash + value, value) * config.reservePoolBps) \div BPS

totalToken(balance, V, reserve) == balance + V - reserve

\* ibTokens minted for amount when the pool was worth total before it, and
\* base tokens paid for share.
MintedShare(amount, total) ==
    IF total = 0 THEN amount ELSE (amount * totalSupply) \div total

\* Mutant: the payment rounded up.
RedeemedRoundedUp(share, total) ==
    (share * total + totalSupply - 1) \div totalSupply

RedeemedAmount(share, total) == (share * total) \div totalSupply

\* Mutant: factor and denominator swapped.
WorkFactorSwapped(conf, h, debt) == h * BPS >= debt * conf.workFactor

WorkFactorMet(conf, h, debt) == h * conf.workFactor >= debt * BPS

Killable(id, V, S) ==
    LET pos  == positions[id]
        conf == config.worker[pos.worker]
    IN  health[id] * conf.killFactor < debtShareToVal(pos.debtShare, V, S) * BPS
-----------------------------------------------------------------------------
(* FairLaunch, as the vault uses it (external: Vault keeps farmers' debt    *)
(* tokens staked there).                                                    *)

\* _fairLaunchWithdraw makes a call whose failure is tolerated.  It can only
\* succeed when the farmer has the share staked in the current pool, and then
\* the vault burns as many of the current debt token.
CanUnstake(owner, share) ==
    /\ staked[fairLaunchPoolId][owner] >= share
    /\ StakeToken[fairLaunchPoolId] = debtToken

fairLaunchWithdraw(owner, share, success) ==
    IF success
    THEN [staked EXCEPT ![fairLaunchPoolId][owner] = @ - share]
    ELSE staked

\* _fairLaunchDeposit, on the stakes st, when CanStake(share).
CanStake(share) == share > 0 => StakeToken[fairLaunchPoolId] = debtToken

\* Mutant: the stake of one position replaces that of the others.
StakeReplaced(owner, share, st) ==
    [st EXCEPT ![fairLaunchPoolId][owner] = share]

fairLaunchDeposit(owner, share, st) ==
    [st EXCEPT ![fairLaunchPoolId][owner] = @ + share]
-----------------------------------------------------------------------------
Init ==
    /\ cash = 0 /\ totalSupply = 0
    /\ reservePool = 0 /\ vaultDebtVal = 0 /\ vaultDebtShare = 0
    /\ now = 0 /\ lastAccrueTime = 0
    /\ nextPositionID = 1
    /\ positions = [id \in Ids |-> [worker |-> NoAddress, owner |-> NoAddress,
                                    debtShare |-> 0]]
    /\ config \in Configs /\ debtToken \in DebtTokens
    /\ fairLaunchPoolId = NoPool
    /\ staked = [p \in Pools |-> [u \in Users |-> 0]]
    /\ health = [id \in Ids |-> 0]
    /\ shortfall = FALSE

\* The lazily accrued part of the books.
Accrue(value) ==
    /\ reservePool' = AccruedReserve(value)
    /\ lastAccrueTime' = now

deposit(amountToken) ==
    LET V     == AccruedDebtVal(amountToken)
        total == totalToken(cash, V, AccruedReserve(amountToken))
        share == MintedShare(amountToken, total)
    IN  /\ amountToken <= BaseSupply - cash
        /\ total >= 0
        /\ totalSupply + share > TinyShares
        /\ totalSupply + share <= MaxSupply
        /\ Accrue(amountToken)
        /\ vaultDebtVal' = V
        /\ totalSupply' = totalSupply + share
        /\ cash' = cash + amountToken
        /\ UNCHANGED <<vaultDebtShare, farm, admin, now, shortfall>>

withdraw(share) ==
    LET V      == AccruedDebtVal(0)
        total  == totalToken(cash, V, AccruedReserve(0))
        amount == RedeemedAmount(share, total)
    IN  /\ totalSupply > 0 /\ share <= totalSupply
        /\ total >= 0
        /\ amount <= cash
        /\ totalSupply - share > TinyShares
        /\ Accrue(0)
        /\ vaultDebtVal' = V
        /\ totalSupply' = totalSupply - share
        /\ cash' = cash - amount
        /\ UNCHANGED <<vaultDebtShare, farm, admin, now, shortfall>>

(***************************************************************************)
(* work, on position id of user, whose fields are those of pos.  The call  *)
(* brings principal in and sends principal + loan to the worker, which     *)
(* returns back and then reports health h.  success is the outcome of the  *)
(* tolerated FairLaunch call.                                              *)
(***************************************************************************)
workOn(id, pos, principal, loan, maxReturn, back, h, success) ==
    LET conf     == config.worker[pos.worker]
        V        == AccruedDebtVal(principal)
        removed  == debtShareToVal(pos.debtShare, V, vaultDebtShare)
        V1       == DebtValLeft(pos.debtShare, V)
        S1       == DebtShareLeft(pos.debtShare)
        lessDebt == Min2(removed + loan, Min2(back, maxReturn))
        debt     == removed + loan - lessDebt
        share    == IF debt > 0 THEN debtValToShare(debt, V1, S1) ELSE 0
        prize    == ((back - lessDebt) * config.closeBps) \div BPS
    IN  /\ fairLaunchPoolId # NoPool
        /\ principal <= BaseSupply - cash
        /\ conf.isWorker
        /\ loan > 0 => conf.stable /\ conf.acceptDebt
        /\ principal + loan <= cash + principal
        /\ back <= BaseSupply - (cash - loan)
        /\ success => CanUnstake(pos.owner, pos.debtShare)
        /\ debt > 0 => /\ debt >= config.minDebtSize
                       /\ conf.stable
                       /\ WorkFactorMet(conf, h, debt)
                       /\ V1 = 0 => S1 = 0
                       /\ CanStake(share)
        /\ Accrue(principal)
        /\ vaultDebtVal' = V1 + debt
        /\ V1 + debt <= MaxDebt
        /\ vaultDebtShare' = S1 + share
        /\ positions' = [positions EXCEPT ![id] = [pos EXCEPT !.debtShare = share]]
        /\ staked' = fairLaunchDeposit(pos.owner, share,
                        fairLaunchWithdraw(pos.owner, pos.debtShare, success))
        /\ staked'[fairLaunchPoolId][pos.owner] <= MaxStake
        /\ cash' = cash + principal - (principal + loan) + back
                     - (back - lessDebt - prize)
        /\ health' = [health EXCEPT ![id] = h]
        /\ UNCHANGED <<totalSupply, admin, now, shortfall>>

\* work(0, ...) opens a position, work(id, ...) works on one of the caller's.
workNew(user, w, principal, loan, maxReturn, back, h) ==
    /\ nextPositionID \in Ids
    /\ nextPositionID' = nextPositionID + 1
    /\ workOn(nextPositionID, [worker |-> w, owner |-> user, debtShare |-> 0],
              principal, loan, maxReturn, back, h, FALSE)

workExisting(id, principal, loan, maxReturn, back, h, success) ==
    /\ id < nextPositionID
    /\ UNCHANGED nextPositionID
    /\ workOn(id, positions[id], principal, loan, maxReturn, back, h, success)

\* kill, when liquidating the position brings back base tokens in.
kill(id, back, success) ==
    LET pos   == positions[id]
        conf  == config.worker[pos.worker]
        V     == AccruedDebtVal(0)
        debt  == debtShareToVal(pos.debtShare, V, vaultDebtShare)
        prize == (back * config.killBps) \div BPS
        rest  == back - prize
        left  == IF rest > debt THEN rest - debt ELSE 0
    IN  /\ fairLaunchPoolId # NoPool
        /\ pos.debtShare > 0
        /\ conf.isWorker /\ conf.stable
        /\ Killable(id, V, vaultDebtShare)
        /\ back <= BaseSupply - cash
        /\ success => CanUnstake(pos.owner, pos.debtShare)
        /\ Accrue(0)
        /\ vaultDebtVal' = DebtValLeft(pos.debtShare, V)
        /\ vaultDebtShare' = DebtShareLeft(pos.debtShare)
        /\ positions' = [positions EXCEPT ![id].debtShare = 0]
        /\ staked' = fairLaunchWithdraw(pos.owner, pos.debtShare, success)
        /\ cash' = cash + back - prize - left
        /\ health' = [health EXCEPT ![id] = 0]
        /\ shortfall' = (shortfall \/ rest < debt)
        /\ UNCHANGED <<totalSupply, nextPositionID, admin, now>>
-----------------------------------------------------------------------------
(* Governance: onlyOwner. *)

updateConfig(c) ==
    /\ config' = c
    /\ UNCHANGED <<books, farm, debtToken, fairLaunchPoolId, now, shortfall>>

updateDebtToken(t, pid) ==
    /\ debtToken' = t
    /\ fairLaunchPoolId' = pid
    /\ UNCHANGED <<books, farm, config, now, shortfall>>

setFairLaunchPoolId(pid) ==
    /\ fairLaunchPoolId' = pid
    /\ UNCHANGED <<books, farm, config, debtToken, now, shortfall>>

withdrawReserve(value) ==
    /\ value <= reservePool
    /\ value <= cash
    /\ reservePool' = reservePool - value
    /\ cash' = cash - value
    /\ UNCHANGED <<totalSupply, vaultDebtVal, vaultDebtShare, lastAccrueTime,
                   farm, admin, now, shortfall>>

reduceReserve(value) ==
    /\ value <= reservePool
    /\ reservePool' = reservePool - value
    /\ UNCHANGED <<cash, totalSupply, vaultDebtVal, vaultDebtShare,
                   lastAccrueTime, farm, admin, now, shortfall>>
-----------------------------------------------------------------------------
(* Environment: time, prices, and base tokens sent straight to the vault. *)

Tick ==
    /\ now < MaxTime
    /\ now' = now + 1
    /\ UNCHANGED <<books, farm, admin, shortfall>>

MarketMove(id, h) ==
    /\ id < nextPositionID
    /\ health' = [health EXCEPT ![id] = h]
    /\ UNCHANGED <<books, nextPositionID, positions, staked, admin, now, shortfall>>

Donate(amount) ==
    /\ amount <= BaseSupply - cash
    /\ cash' = cash + amount
    /\ UNCHANGED <<totalSupply, reservePool, vaultDebtVal, vaultDebtShare,
                   lastAccrueTime, farm, admin, now, shortfall>>

Next ==
    \/ \E a \in Deposits : deposit(a)
    \/ \E s \in Shares : withdraw(s)
    \/ \E u \in Users, w \in Workers, p \in Principals, l \in Loans,
          m \in MaxReturns, b \in Backs, h \in HealthLevels :
          workNew(u, w, p, l, m, b, h)
    \/ \E id \in Ids, p \in Principals, l \in Loans, m \in MaxReturns,
          b \in Backs, h \in HealthLevels, success \in Outcomes :
          workExisting(id, p, l, m, b, h, success)
    \/ \E id \in Ids, b \in Backs, success \in Outcomes : kill(id, b, success)
    \/ \E c \in Configs : updateConfig(c)
    \/ \E t \in DebtTokens, pid \in Pools \cup {NoPool} : updateDebtToken(t, pid)
    \/ \E pid \in Pools \cup {NoPool} : setFairLaunchPoolId(pid)
    \/ \E v \in Values : withdrawReserve(v) \/ reduceReserve(v) \/ Donate(v)
    \/ Tick
    \/ \E id \in Ids, h \in HealthLevels : MarketMove(id, h)

Spec == Init /\ [][Next]_vars
-----------------------------------------------------------------------------
(* Properties. *)

\* Every variable keeps its type: no SafeMath subtraction ever wrapped.
TypeOK ==
    /\ cash \in 0..BaseSupply
    /\ totalSupply \in Nat /\ reservePool \in Nat
    /\ vaultDebtVal \in Nat /\ vaultDebtShare \in Nat
    /\ now \in 0..MaxTime /\ lastAccrueTime \in 0..now
    /\ nextPositionID \in 1..(MaxPositions + 1)
    /\ positions \in [Ids -> Position]
    /\ config \in Configs /\ debtToken \in DebtTokens
    /\ fairLaunchPoolId \in Pools \cup {NoPool}
    /\ staked \in [Pools -> [Users -> Nat]]
    /\ health \in [Ids -> HealthLevels \cup {0}]
    /\ shortfall \in BOOLEAN

debtShares == [id \in Ids |-> positions[id].debtShare]

\* The pool's debt shares are those of the positions, all of them: no work or
\* kill creates a share no position holds or drops one that a position holds.
DebtSharesConserved == SumsTo(debtShares, MaxPositions, vaultDebtShare)

\* A debt share is never worth less than the token it was issued for, and a
\* pool without shares has no value: debtValToShare never divides by zero.
DebtShareAtLeastPar ==
    /\ vaultDebtShare <= vaultDebtVal
    /\ vaultDebtShare = 0 => vaultDebtVal = 0

\* Until a kill recovers less than the debt, the pool is worth at least one
\* base token per ibToken: rounding, interest, reserve and prizes never take
\* from the lenders, and totalToken() does not revert.
LendersWhole ==
    ~shortfall => totalSupply <= totalToken(cash, vaultDebtVal, reservePool)

\* What farmers have staked in FairLaunch, over all pools, covers the debt
\* shares of their positions, whatever FairLaunch calls failed and whichever
\* pool was current when a position was opened.
StakeCoversDebt ==
    \A u \in Users :
        SumFunctionOnSet([p \in Pools |-> staked[p][u]], Pools)
            >= SumFunctionOnSet(debtShares, {id \in Ids : positions[id].owner = u})

\* No operation on one position lowers the debt of another.
OthersDebtNeverFalls ==
    [][\A id, other \in Ids :
         /\ positions'[id] = positions[id]
         /\ positions'[other] # positions[other]
         => debtShareToVal(positions[id].debtShare, vaultDebtVal', vaultDebtShare')
              >= debtShareToVal(positions[id].debtShare, vaultDebtVal, vaultDebtShare)]_vars

\* Until a kill recovers less than the debt, no step lowers the price of the
\* ibToken, totalToken() / totalSupply().
LenderPriceNeverFalls ==
    [][~shortfall' =>
         totalToken(cash, vaultDebtVal, reservePool)' * totalSupply
           >= totalToken(cash, vaultDebtVal, reservePool) * totalSupply']_vars

\* A position whose debt work() has just accepted cannot be killed in the state
\* work() leaves, when the kill factor is not below the work factor.
NotKillableAfterWork ==
    [][\A id \in Ids :
         /\ positions'[id].debtShare # positions[id].debtShare
         /\ positions'[id].debtShare > 0
         /\ config.worker[positions'[id].worker].workFactor
              <= config.worker[positions'[id].worker].killFactor
         => ~Killable(id, vaultDebtVal, vaultDebtShare)']_vars

\* BasicVaultConfig.sol:16 says of getCloseBps "The prize for successfully
\* closing a position to the reserve pool": when a position's whole debt is
\* repaid at a time already accrued, the prize is the reserve's, so what the
\* lenders are entitled to does not grow.
ClosePrizeGoesToReserve ==
    [][(/\ now = lastAccrueTime
        /\ \E id \in Ids : positions[id].debtShare > 0 /\ positions'[id].debtShare = 0)
       => totalToken(cash, vaultDebtVal, reservePool)'
            <= totalToken(cash, vaultDebtVal, reservePool)]_vars
=============================================================================
