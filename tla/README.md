# A TLA+ verification of the Huski leveraged-farming protocol

This directory holds TLA+ models of the Solidity contracts under
`contracts/6` and of the TypeScript that deploys and administers them
(`deploy`, `utils`), the TLC configurations that check them on small instances and
the theorems TLAPS proves about them for every value of the constants.
`PROJECT.json` maps every definition to the lines it models, lists the runs,
the mutants each property is tested against, and the hazards the properties
are aimed at.

Contents: 1 the system, 2 what is hard about it, 3 the modules, 4 the runs,
5 the proofs, 6 findings and observations, 7 abstractions, 8 what is not
modelled, 9 the plan.

## 1. The system and its parts

Lenders deposit a base token into a **vault** and get ibTokens. Farmers open
leveraged **positions**: the vault lends them base tokens and hands everything
to a **worker**, which runs a **strategy** (swap, add or remove liquidity) on
PancakeSwap and farms the result; the worker reports a position's *health* and
the vault keeps its debt as shares of a common debt pool. A position whose debt
is too close to its health may be *killed*. Debt shares are staked on the
farmer's behalf in **FairLaunch**, which mints **HUSKI**; a part of some
rewards is locked in the token or in a **locker**. A **timelock** owns it all.

| part | state it keeps | operations | talks to |
|---|---|---|---|
| `protocol/Vault.sol` | token balance, ibToken supply, `vaultDebtVal`, `vaultDebtShare`, `reservePool`, `lastAccrueTime`, positions, execution scope | `deposit`, `withdraw`, `work`, `kill`, reserve and configuration setters, callbacks `requestFunds`, `injectSerialCode` | config, workers, FairLaunch, debt token |
| `protocol/configs` | per-vault and per-worker parameters | setters, `isStable`, factor getters | interest models, price oracles |
| `protocol/interestmodels` | constants | `getInterestRate` | - |
| `protocol/priceoracles` | prices with time stamps | `setPrices`, `getPrice` | Chainlink feeds |
| `protocol/workers` | shares of a farmed balance, reward balance, approvals, bounties | `work`, `reinvest`, `liquidate`, `health` | strategies, MasterChef, router |
| `protocol/strategies` | approved workers; no tokens between calls | `execute` | router, vault |
| `token/FairLaunch.sol` | pools, stakes, reward debts, bonus window | `deposit`, `withdraw`, `harvest`, `updatePool`, setters | HuskyToken |
| `token/FairLaunchV2.sol` | pools, stakes, reward debts | the same, over the HUSKI one FairLaunch pool earns | FairLaunch, lockers |
| `token/HuskyToken.sol` | balances, locks, vote checkpoints | `mint`, `lock`, `unlock`, `transferAll`, delegation | - |
| `token/lockers/LinearRelease.sol` | locked amounts, release clocks | `lock`, `claim` | FairLaunchV2 |
| `Timelock.sol` | queued transactions, delay, admin | `queueTransaction`, `executeTransaction`, ... | everything it owns |
| `token/MerkleDistributor.sol`, `utils` | Merkle root, claim bitmap, balance; a table of earnings | `parseBalanceMap`, `claim`, deposits and withdrawals | an ERC20 |
| `deploy/scripts`, some of `deploy/setup` | the process: consts, config in memory; the results file | one script per step of the rollout | every contract, from the deployer's account |
| the other `deploy/setup` scripts, `021_deploy_shield.ts` | a table of calls, one `EXACT_ETA` | `queueTransaction` for each entry | Timelock |
| `token/StronkHusky.sol`, `token/Shield.sol`, `token/BadgeRelayer.sol`, `token/badge`, `dao` | wrapped locks, badges and points, raised amounts | see section 8 | HuskyToken, FairLaunch |

How the contracts interact: every interaction is a synchronous call inside one
transaction, which completes as a whole or reverts as a whole. There are two
exceptions to "a failing callee reverts the caller": the vault tolerates a
failing `FairLaunch.withdraw`, and FairLaunch's `safeHuskyTransfer` pays what is there
when its balance of HUSKI is short. For a reward a `require` comes first, so the
latter concerns only the badges' `unlockFromOwner`.

The scripts are different. Each is a process that reads
`deploy/results/<network>.json` when it starts, sends one transaction after the
other, mostly without waiting until they are mined, and writes the file back at
a point of its own choosing. Scripts hand over to each other only through that
file and the chain. An operator runs them one by one and runs a script again
when it died.

What makes each part correct, in one line:

* vault: debt shares are conserved, rounding never favours the caller, lenders
  lose only through a kill that falls short, work leaves no killable position;
* workers: the farmed stake covers the shares, nobody's balance falls through
  another's call, liquidation brings what health reported;
* strategies: nothing of value stays behind; closing brings the whole debt;
* FairLaunch, FairLaunchV2: stakes and rewards are covered, weights do not
  create past rewards, nobody lowers another's reward, beyond diluting the
  blocks since a pool's last update by sending stake tokens in;
* HuskyToken, LinearRelease: locks are backed, released no faster than
  linearly and, in the end, completely; checkpoints answer for past blocks;
* timelock: nothing executes early, twice or unannounced;
* deployment: a worker goes live only when everything it needs is set up, the
  results file agrees with the chain, a crash leaves behind a bounded amount of
  debris and, apart from the workers of 014-1 and 014-2, nothing in use that
  is unrecorded;
* setup scripts: a batch is queued, interrupted and queued again without any part
  of it running twice or joining after the rest has run;
* airdrop: the published claims, and only they, are paid, once each.

## 2. What is hard

The contracts run no threads. Their hard part is the *order of transactions* of
unrelated parties over shared books, together with integer division:

* lazily accrued values (`accrue`, `updatePool`) that must be brought up to
  date before weights, stakes or supplies change;
* share accounting that rounds on every conversion, over arbitrarily long
  sequences of openings, closings, liquidations and reinvestments;
* a value read now and acted on later: health against liquidation, pool id and
  debt token against the pool a position was staked in, a reward balance held
  in the same token as the principal;
* one step of several failing: the tolerated FairLaunch call;
* settings that change while positions, stakes and locks are open;
* clocks: release periods, bonus windows, the timelock's delay and grace time;
* limits: the token's cap, full utilisation of a vault, an empty pool.

The hard part of the scripts is failure between two statements:

* a crash after a transaction was sent and before its address was written, and a
  rerun that does everything again;
* a script that runs ahead of the chain: transactions awaited when submitted, not
  when mined, a sleep of ten seconds in the place of a confirmation, an explicit
  `gasLimit` that skips the estimation which would have thrown;
* positions in arrays (`vaultIndex`, `poolLength() - 1`, the first index of a
  loop) that stand for identities and shift when a script is repeated;
* steps that cannot be repeated (`transferOwnership`), and batches whose time
  runs out while they are being queued.

`PROJECT.json` lists them under "hazards", each at the line where it bites.

## 3. The modules

| module | models | extends |
|---|---|---|
| `LedgerMath` | floor division on shares, the sum of a ledger | - |
| `TripleSlopeModel` | `protocol/interestmodels` | - |
| `Vault` | `protocol/Vault.sol` | `TripleSlopeModel`, `LedgerMath` |
| `Pancake` | the pair and router calls the strategies make | - |
| `Strategies` | the six PancakeSwap V2 strategies, `HuskyMath.sqrt` | `Pancake` |
| `PancakeswapV2Worker` | the worker, composed with strategies and pair | `Strategies` |
| `CakeMaxiWorker` | the single-asset worker and its four strategies | `Pancake` |
| `FairLaunch` | `token/FairLaunch.sol` | - |
| `LinearRelease` | `token/lockers/LinearRelease.sol` | `LedgerMath` |
| `FairLaunchV2` | `token/FairLaunchV2.sol`, composed with the locker | `LinearRelease` |
| `HuskyToken` | `token/HuskyToken.sol` | `LedgerMath` |
| `Timelock` | `Timelock.sol` | - |
| `Setup` | the scripts that queue on the timelock, composed with it | `Timelock` |
| `DeployScripts` | the deployment scripts as programs | - |
| `Deployment` | the process, the chain and the results file that run them | `DeployScripts` |
| `WorkerRollout` | abstract: workers become ready, then go live | - |
| `MerkleDistributor` | `utils`, `token/MerkleDistributor.sol` | - |
| `LedgerMathProofs` | lemmas about floors and sums | `LedgerMath` |
| `VaultProofs`, `HuskyTokenProofs`, `FairLaunchProofs`, `FairLaunchV2Proofs`, `PancakeswapV2WorkerProofs`, `CakeMaxiWorkerProofs` | theorems about one component each | its module, `LedgerMathProofs` |
| `TimelockProofs` | theorems about the timelock and the scripts that queue on it | `Setup` |
| `MCVault`, `MCFairLaunch`, `MCPancakeswapV2Worker`, `MCSuite`, `MCRollout` | instances for TLC | |

One convention holds throughout: **an external function is one atomic action**.
A transaction that reverts changes nothing, so a `require`, a SafeMath
subtraction, a division by zero and a failing transfer are conjuncts of the
guard. Variables keep the contract's names; what the code reads from another
contract (`balanceOf`, `userInfo`) is a variable commented with the call.
Variables marked *history* are not in the code; properties need them.
Identifiers that name a mistake (`DebtKept`, `RewardsMixed`, ...) are mutants:
plausible wrong versions of the definition below them, never used by a
specification.

**Vault.** `deposit`, `withdraw`, `workNew`/`workExisting` (both through
`workOn`: accrual, `_removeDebt`, the worker, the health checks, `_addDebt`,
FairLaunch), `kill`, `withdrawReserve`, `reduceReserve`, `updateConfig`,
`updateDebtToken`, `setFairLaunchPoolId`. Time, the market (`MarketMove`) and
gifts are actions of the environment. A worker returns any amount of base
tokens that exists outside the vault and reports any health: whatever the
workers do, the invariants hold.

**Strategies and worker.** A strategy is a function from a *wallet* (tokens
held, pair, and whether something has reverted) to a wallet; `work`,
`liquidate` and `reinvest` run it between `_removeShare` and `_addShare`. The
swap arithmetic is the router's, with its fee and rounding, so that health and
sale, optimal swap and left-over can really disagree.

**FairLaunch.** Pools, stakes for oneself and for others (`fundedBy`), the
bonus window with the part of the bonus that is locked, badges' locks in the
contract, the cap of the token, at which every call that would mint reverts.
The supply of a pool is the contract's balance of the stake token, which anybody
can raise with a transfer (`Donate`).

**FairLaunchV2** sees FairLaunch as a source that pays `huskyPerBlock` per
block in FairLaunch's own rounding, and calls `lock` of the locker inside
`_harvest`. Here too the divisor of a pool's reward is a balance, and `SendStake` is
the transfer that raises it without a deposit.

**HuskyToken.** Balances, mint limits, locks, release, `transferAll`, vote
delegation and the checkpoints with their binary search, written as a
recursive function.

**Timelock.** The transaction stands for its hash. Calls to the timelock itself
change `delay` or `pendingAdmin`; calls elsewhere succeed or revert.

**DeployScripts and Deployment.** A script is a sequence of statements: a
creation, a wait for it, a call with or without gas estimation, a sleep, a read
of `poolLength()`, assignments to the config and the write of the file. The
operands are the names of the source, the tables of workers are the source's
with their pool ids and factors, and the order of the statements is the source's.
`Deployment` interprets one statement per step. `Submit` appends to `pending`;
`Mine` takes from it in the order of the nonces, at any time; `AwaitSleep` may
end before the chain has caught up; `Throw` ends a script whose next statement
cannot be encoded, whose gas estimation fails or whose array entry is missing,
after which the operator goes on with the next one; `Crash` ends it at any
statement, after which it is run again. Of a deployed contract the model keeps
its arguments, its owner and a *fact* per effective call. `Ready` and `Live` are
read off these facts, and are what `RolloutOrder` maps to `WorkerRollout`. What
`Reverts` knows of the contracts is ownership and FairLaunch's refusal of a
duplicate pool; constructors revert on a PancakeSwap pool without the base token,
which is what the workers' `initialize` requires.

**Setup.** Each script is the sequence of transactions it queues. `Submit` is the
accepted estimation, `MineQueue` the transaction on the chain, which may revert
when time has passed or the admin has changed since; `Interrupt` a throw or a
crash, `RunScript` a first or a repeated run. Everything else an admin may do with
a timelock, in any order, is `ByHand` and `QueueByHand`. Two of the scripts queue
calls that no contract of this repository has (section 6): they never execute.

**MerkleDistributor.** `parseBalanceMap` with its validation, the sorted and
deduplicated tree with odd layers, the proofs, the contract's bitmap in words of
`WordSize` bits. A hash is the sequence it was computed from, prefixed so that the
leaves sort in any order: hashes collide exactly when their inputs are equal.

## 4. The runs

| run | instance | what it shows |
|---|---|---|
| `vault_books` | 2 positions, 1 farmer, 2 configurations, `BaseSupply` 6, one time step | debt shares conserved and at least at par, lenders whole, no other debt falls, ibToken price never falls before a shortfall, `work` leaves nothing killable |
| `vault_stake` | 2 farmers, 2 pools, 2 debt tokens, FairLaunch calls that fail | stakes cover debt shares whichever pool was current |
| `vault_close_prize` | as `vault_books` | **violation**: the close prize never reaches the reserve |
| `fairlaunch_stakes` | 1 pool, 2 accounts, cap 60, 4 blocks | rewards covered up to dust, no harvest locks more than it pays, nobody lowers another's reward, stake tokens sent in excepted as said below |
| `fairlaunch_pools` | 2 pools, weights 0 to 2, two rates | changes of weight create no reward for past blocks (steps that keep the rate and the bonus) |
| `fairlaunch_late_bonus` | as `fairlaunch_stakes` | **violation**: a bonus set late counts earlier rewards as bonus |
| `husky_locks` | 2 accounts, release from block 2 to 6 | locks backed, no unlock underflows, release not ahead of linear; eventually every lock is paid |
| `husky_votes` | 2 accounts, 5 blocks | `getPriorVotes` returns what each past block ended with |
| `husky_early_unlock` | as `husky_locks` | **violation**: an early unlock starts the release clock early |
| `rollout` | deployment: five kinds of plans, one crash, one late sleep; administration: 11 scripts, 2 runs each, time 0 to 4 | see below |
| `worker` | 2 positions, 4 calls, trades, gifts, settings | the worker's and the strategies' properties |
| `second_generation` | `FairLaunchV2` with locker: 2 pools, 2 accounts, 3 blocks; `CakeMaxiWorker`: 2 positions, 4 calls; airdrops to 1 to 5 accounts | rewards backed up to dust, positions never fall through others' calls, nor pending rewards, with the same exception; proofs verify for exactly their claims, which are paid once |

`MCSuite` holds three independent subjects and `MCRollout` two: the initial state
chooses one and only that one takes steps, so their state spaces add up.

`OthersRewardNeverFalls` and `OthersPendingNeverFalls` are about every step, that of
a stranger who sends stake tokens to the contract included. There they promise less:
the balance divides the rewards of the blocks since the pool's last update, so those
can fall; what was earned by that update, and every other pool, cannot.

`rollout` runs these plans, from an empty results file:

* every script once, in the order of the files, on mainnet, without faults but
  with the chain at any pace: eight vaults, 34 entries in the tables of workers
  (014-1 throws, since its pool id is -1, and so does 014-5, whose pools exist on
  the testnet only);
* one vault and the last worker of its table, with a crash at any statement, the
  rerun, and one sleep that ends too early; the loops start where the committed
  files start them;
* the first three vault configurations and two vaults, with a crash at any
  statement and the rerun;
* the testnet, where 014-3 finds no pools and throws, with one late sleep;
* five of the base scripts in all 120 orders before a vault that needs them all.

`RolloutOrder` is a refinement: under `ready <- Ready, live <- Live` every step is a
step of `WorkerRollout` or a stutter. `PoolsLinked`, `RecordTrue` and `LiveRecorded`
hold in every state, also between a crash and the rerun; `LeftoversBounded` counts, at the
end, what interrupted scripts left for good. `RecordTrue` covers entries whose symbol
stands twice as well: tokens, debt token and configuration are always those of one
vault. `VaultsAsNamed` says which vault that is: the one for the symbol's token, up to
the first entry that a rerun of a 010 script doubled. From there on the committed `vaultIndex`
of the 011 scripts is one off and the statement is false (section 6), which the plan
with two vaults reaches. `PoolsLinked` excludes a sleep that was too short: then the pool id is
wrong, and the model shows it. `LiveRecorded` excludes 014-1 and 014-2, which write
their workers after linking them, so that a crash in between leaves a worker in use
that no file names. For the timelock, every script is run up to
twice, interrupted anywhere, beside three transactions of the timelock itself
queued by hand, cancellations and executions in any order.

**Bounds.** Scales are shrunk with their ratios: 10000 basis points become 4,
1e18 becomes 8, 1e12 becomes 10. This makes rounding *worse* than on the chain:
a division that loses 1 of 1e12 there loses a tenth here, so the rounding
properties are exercised in nearly every step. Two positions, accounts, pools
and locks are what a property about "another one" needs, as every property here
relates at most two parties and the total of a ledger. Calls are
bounded by `MaxOps`, `MaxCalls`, `MaxMoves` and the like, and clocks by `MaxBlock` or
`MaxTime`: enough to open, change and close a position around a change of
settings and an accrual, or to pass through the beginning, middle and end of a
release. The proofs of section 5 need none of these bounds to be small.
In `rollout` the batches of a script are cut to `MaxBatch` = 2 entries, which is
what order, interruption between entries and a partial rerun need; `MaxRuns` = 2 is
one repetition, `MaxByHand` = 1 one change of delay or admin per behaviour. One
crash per plan reaches every pair of an interruption point and a rerun. The airdrop
has 1 to 5 accounts, since five is the first size with two odd layers, and words of
two bits, so that claims fall in the same and in different words. In `FairLaunchV2` one
stake token sent in (`MaxSent`) is as much as any stake is raised by in a call.
Symmetry is used for model values that no definition tells apart, and never
in a run with a liveness property. `CHECK_DEADLOCK FALSE` stands where the bounded
run ends with nothing left to do.

**Fairness.** One run checks liveness. In `husky_locks`, `FairSpec` assumes weak
fairness of `Tick`, since the chain goes on producing blocks whatever the contracts
do, and of each holder's `unlock`: nobody else can call it, so "every lock is
paid" can only be promised to a holder who keeps calling. From `endReleaseBlock`
on, `unlock` stays enabled as long as the holder has a lock, so weak fairness
suffices. The clock stops at `MaxBlock`, which is not before `endReleaseBlock`. A
holder may also hand the lock on with `transferAll`, and then it is the receiver's
to unlock.

**Mutants.** For every property of a passing run, `PROJECT.json` names a
plausible mistake in a modelled definition (a debt not lowered, a ratio
swapped, a rounding up, an update after instead of before) for which TLC
reports that property violated under the same configuration.

## 5. The proofs

Theorems have the form `Spec => []P` or `Spec => [][A]_vars`, for every
value of the constants that meets the named assumptions of the module:
scales are positive naturals, amounts are sets of naturals, sets of ids, pools
and accounts are finite, special addresses are not accounts, the slopes of an
interest model are well formed. TLC evaluates the assumptions of every module it
instantiates. No bound of a run is small in a proof: `MaxOps`, `MaxBlock` and their
like are arbitrary. The argument is always `Init => IInv`,
`IInv /\ [Next]_vars => IInv'`, `IInv => P`, with one lemma per action; an action
property is then shown of every step from a state with `IInv`.

**Sums and rounding** (`LedgerMathProofs`). Ledgers are summed with
`SumFunctionOnSet`. Its definition is recursive over the set, and the library's
induction rules cannot be instantiated here, so `SetInduction` proves the rule for
membership in a set of subsets, and `SumStep`, `SumChange`, `SumOrder`,
`SumScaled` and `SumExtend` follow from it: adding an element, changing
one entry, comparing term by term, scaling, and summing over a part. The others
are about floors: `RemoveRounds` (taking a rounded-down share of a ledger leaves at
least par behind), `RatioMono`, `DivMono`, `DivAnti`, `FloorSum`.

**Vault** (`VaultProofs`): `TypeCorrect`, `DebtSharesAlwaysConserved`,
`DebtShareAlwaysAtLeastPar`, `LendersAlwaysWhole`. The inductive invariant is
the conjunction of the four properties and `PositionsWellFormed` (a position
has an owner and a worker once it has an id, and no share before). They are needed
together: that lenders stay whole when a debt is repaid needs the debt share at
par, since otherwise rounding `share * debtVal / debtShare` could remove more
value than it removes shares; that `_removeDebt` does not underflow needs the
position's share to be part of the total; the amount paid for ibTokens is bounded
because the pool is worth at least par. From the same invariant come three action
properties. `OthersDebtKept`: a removed debt is rounded down and an added share is
rounded down too, so the value per share of what is left can only rise.
`NeverKillableAfterWork`: the debt `work` accepts is at least what its share
is worth afterwards. `LenderPriceKept`: minting and burning ibTokens
round against the caller, and a debt that is removed reappears as cash unless a kill
falls short. `StakeAlwaysCoversDebt` needs one more conjunct, `Covers`: the
stakes of a farmer, summed over all pools, against the debt shares summed over all
positions, those of other owners counting zero. With both sums over a fixed set a step
changes one entry of each, whichever pool and debt token are current.

**HuskyToken** (`HuskyTokenProofs`): `TokenTypeCorrect`, `LocksAlwaysBacked`,
`UnlockAlwaysDefined`, `ReleaseNeverAhead`. The last one is not inductive: from
"released so far is below the line" alone nothing follows for the next unlock,
which releases a fraction of *what is left*. `Scheduled` strengthens it to what
is still locked at an account's clock: at least the part of everything ever locked
that a linear release would still hold. `ClockNotAhead` keeps the clocks at or below
the block number, or at the start of the release, and `NothingReleasedYet` says
that before the start all that was locked still is. `UnlockRounds` is the
arithmetic step, `ScheduleAdds` the one for merging two accounts in `transferAll`.
`PriorVotesAlwaysCorrect` has an invariant of its own, `VotesKept`: the checkpoints of an
account are in the order of their blocks, and the last one not after a past block
(`Answers`) has the votes the account ended that block with. `_writeCheckpoint`
overwrites only a checkpoint of the current block, so no operation changes an
earlier answer (`WriteReplaces`, `MoveReplaces`). That the binary search finds this
checkpoint is shown for a list of any length: `Best` is the last index of a window
that is not after the block, every step of the search keeps it in the window
(`BestStep`), and the width of the window falls (`SearchFinds`). The search is a
recursive function, a CHOOSE, so its equation must also be shown to have a
solution (`SearchExists`, where the votes at `Best` are one).

**FairLaunch** (`FairLaunchProofs`). `Solvent`: pending rewards are floors, and
floors do not add up. What adds up is a claim before it is rounded,
`amount * acc - PRECISION * rewardDebt`; the invariant `ClaimsCovered` says that
the claims of all accounts on all pools are covered by the HUSKI in the contract,
less the badges' locks, but for one unit per rounded debt. It needs that no claim
is negative, since `acc` only grows; that the stakes of a pool are within its
`lpSupply`, by which `acc` is raised; and that a pool nobody added holds nothing.
`RewardsOfOthers`: `Acc`, the reward per share of a pool brought up to date, is
what an account's reward depends on, and a step writes it down, leaves it, raises
it by lowering the supply, or, when stake tokens are sent in, lowers it; then it is still
at least what the pool has on record (`AccAboveSettled`), and no other pool's changes.
`RewardsByBlocks`: what a step mints it takes off what past
blocks still have to mint, for one pool or for all of them, and no reweighting raises
the latter, because the weights add up and every pool is updated before they
change or has nothing to gain. `LockAlwaysWithinReward` has a hypothesis,
`BonusesInTime`: a new bonus is set while the one before it runs or before any pool has
paid a reward, and locks at most all of a reward. `fairlaunch_late_bonus` shows that it
cannot be dropped. The deployment meets it as long as no bonus is added later: 002 passes
a lock of 0 to the constructor, and its `setBonus` has the multiplier 1, which the contract
refuses. What a harvest locks is computed from two accumulators and two debts
that are written by different branches, and `BonusInv` relates them: `accTilBonusEnd` is
`acc` until the bonus ends and stays behind it afterwards (`PoolLevel`), and an account with a
stake either has two equal debts, having been settled during the bonus, or was settled
after a pool had got all of it (`DebtLevel`, `Over`).

**FairLaunchV2 and LinearRelease** (`FairLaunchV2Proofs`). `DebtAlwaysWithinOne`: every
step is one of three kinds for every account: its record is kept, its debt is set to
what it is entitled to at the updated `acc`, or it leaves a part of its stake and
takes that part's floor off the debt. `FloorSum` bounds the last one by one unit, and the
proof shows that the units do not add up over partial withdrawals, since each is
preceded by a harvest. `PendingOfOthers` is as for FairLaunch, while the total
weight stands. It needs that the stake is at least the sum of the amounts
(`StakesHeld`), and no more than that: tokens sent in only add to it. In
`ReleaseNeverAhead` the clock of an account plays the part it does in HuskyToken:
`released * end <= everLocked * clock`, with the clock at or below the block or the
start of the release. `RewardsAlwaysBacked` is the solvency of the second generation.
As in FairLaunch what adds up are the claims before rounding, but here a pool is brought up to
date alone, so `BackedInv` counts for each pool also what it is still to be given for the
blocks it lags behind, in units of the total weight (`Load`), and compares the sum with
the HUSKI of all blocks so far that was not harvested (`Earned`). It needs that the weights
add up, so that the pools' parts of a block are the block's HUSKI, and `steady`: once a weight
changes while another pool lags behind, its past blocks are shared out by new weights and
nothing bounds the sum (section 6). `V1DustAlwaysSmall` says how large the allowance in
`RewardsBacked` for FairLaunch's rounding is: the remainders of all updates together stay
below `1 + block * DummySupply / ACC_HUSKY_PRECISION`.

**PancakeswapV2Worker** (`PancakeswapV2WorkerProofs`). The strategies come first:
each keeps the LP tokens outside the caller's hands as they were and never empties the
pair (`Keeps`, for each router call, composed by `KeepsTrans`); that needs that somebody
else holds LP tokens, as the pair's `MINIMUM_LIQUIDITY` does. With the shares adding
up (`FarmingOK`) and the pair sound (`MarketOK`), `SharesCovered`, `OthersBalanceKept`
and `AlwaysCreditedInFull` follow from the rounding of `_removeShare` and
`_addShare`. `LiquidationAlwaysPays` compares two computations of the code:
`health` sells into `reserve - part`, the liquidation removes liquidity, with its
own rounding and with LP tokens others sent in, and sells what it got into what is left.
`PayoutMono` and `SaleMono` show the second at least the first.
`SevenIterationsEnough` is about `HuskyMath.sqrt` alone, with its six tests of leading bits,
for all 256 bits: its comment says that seven iterations *should be* enough. The tests leave
a seed `r` with `r * r <= x < 8 * r * r` (`ScaledEstimates`). No round goes below the root `s`
(`RoundAbove`), and what a round leaves of the distance above `s + 1` is at most the square of
the distance over twice the estimate (`RoundSquares`), so that a distance of `b / a` of `s + 1`
becomes one of `b * b / (2 * a * (a + b))` (`RoundConverges`): 3/5 after the first round, less
than 2^-32 after the fifth and 2^-64 after the sixth. The seventh then ends at `s`, or at `s + 1`
if `x >= s * (s + 1)`, and in both cases the smaller of it and `x / r` is `s` (`LastRound`).
`SqrtAlwaysExact` takes this to the worker: in the model `sqrt` has the lower three tests only,
as TLC's integers have 32 bits, so the theorem assumes the amounts below 2^32
(`SmallRadicands`); there the two functions agree (`SqrtOfSmall`). That they are natural
numbers needs that the pair is never emptied, which is the worker's invariant.

**CakeMaxiWorker** (`CakeMaxiWorkerProofs`). `RewardsAlwaysApart`: what the worker
holds covers `rewardBalance`, and this and what is pending are exactly the rewards
not yet paid. `PositionsKept` rests on it: a strategy returns no farming tokens or
no fewer than it got (`Returns`), and it got at least the position's balance because
the rewards are apart; so a share is minted for at least what was
removed, also when it is the last one.

**Timelock and its scripts** (`TimelockProofs`): `TimelockTypeCorrect`,
`MinimumDelayAlwaysRespected`, `NeverReplayed`, `BatchesClose`,
`GovernanceAlwaysAnnounced`.
The strengthening `QueuedInTime` says that a queued transaction's `eta` is at
least `MINIMUM_DELAY` after it was queued, even if the delay has changed since.
`NeverReplayed` is about all time, not about one queueing: `spent` is never
cleared. It needs `SpentInPast`, that what was executed has an `eta` no later than
now, from which queueing it again is impossible because the delay is at least
`MINIMUM_DELAY`, which is positive; `BatchesClose` is the same argument for other
transactions with the same or an earlier `eta`. `ScriptsImplementTimelock` is a
refinement, `SetupSpec => Spec`, for any scripts, runs and interruptions: each step of
a script is a step of the timelock or leaves its variables alone. The invariant
`ScriptsOK` it needs says that what a script has yet to send, and what is not yet
mined, are transactions of the model. `ScriptsNeverReplay` and
`ScriptBatchesClose` then follow from the timelock's theorems.

**Only model-checked**, and why:

* `LocksReleased`: liveness under fairness, outside what the prover does;
* `PoolsLinked`, `RecordTrue`, `VaultsAsNamed`, `LiveRecorded`, `LeftoversBounded`,
  `RolloutOrder`: the scripts are long fixed sequences, for which running them is the
  better argument;
* `ClaimsExact`, `ClaimsCovered`: what a tree of any depth, built by folds and recursive
  functions over sequences, computes is an induction over data;
* `LittleLeftBehind`: a numerical fact about the rounding of a closed formula, with an
  allowance that suits the fees and reserves of the instance and not all others.

## 6. Findings and observations

Three runs show a disagreement between the code and what the repository says
of it:

* `vault_close_prize`: `Vault.sol:347` evaluates `reservePool.add(prize)` and
  drops the result. The prize is withheld from the farmer and ends up with the
  lenders; `BasicVaultConfig.sol:16` says it goes to the reserve pool.
* `fairlaunch_late_bonus`: within a bonus window `updatePool` sets
  `accHuskyPerShareTilBonusEnd` to the whole accumulator. If rewards accrued
  before the window, a harvest has to lock more than it pays and reverts unless
  the wallet holds other HUSKI; `FairLaunch.sol:31-33` says a deposit or
  withdrawal pays the pending reward. `fairlaunch_stakes` sets the bonus before
  the first reward. The `setBonus` of 002 is refused, since its multiplier is 1, so a
  bonus in use would be one set later.
* `husky_early_unlock`: an `unlock` before `startReleaseBlock` pays nothing but
  moves the clock below the start, so more is released right after the start
  than the comment at `HuskyToken.sol:102` implies. It never exceeds a linear release from
  block 0, which is what `NeverAheadOfLinear` states. `LinearRelease.claim` does the same.

Against a comment, but without a run of its own: `setBonus` brings no pool up to date,
so the new multiplier also applies to the blocks since each pool's last update, while
`FairLaunch.sol:125` says that the bonus "will start to accu on the next block".
`setHuskyPerBlock` applies to past blocks in the same way. `RewardsOnlyByBlocks` is
therefore about the steps that keep both.

Met while modelling, without a statement in the repository that they contradict:

* The branch of the interest model for full utilisation is reachable.
* FairLaunch and FairLaunchV2 divide a reward by their balance of the stake token.
  Tokens that are sent in without a deposit belong to nobody's stake, and take their
  part of the rewards since the last update, and of all later ones, from the stakers.
* In FairLaunchV2, unlike in FairLaunch, a partial withdrawal can leave a reward debt
  one unit above the entitlement; the subtraction in `_harvest` then reverts
  until more reward accrues, which in a pool of weight zero never happens.
  `RewardDebtWithinOne` bounds it.
* `FairLaunchV2.setPool` updates only its own pool. Pools that lag behind are
  then paid for past blocks at the new weights and the claims can exceed the
  HUSKI received. `RewardsBacked` therefore holds while weights change only
  when the other pools are up to date, which `massUpdatePools` lets the owner ensure, and
  up to one unit a call and `V1Dust`, what FairLaunch's rounding keeps back.
* `transfer`, `transferFrom` and `mint` move votes; `lock`, `unlock`,
  `transferAll` and `lockToOwner` move balances without them, so votes and
  balances diverge.
* A worker position worth dust cannot be liquidated, since the swap reverts.
* Tokens that reach the vault before the first deposit make `totalToken()`
  positive with no supply, and the first deposit then mints nothing and reverts. A
  withdrawal that would leave at most 1e17 ibTokens reverts, so the last lenders
  cannot leave entirely.
* Once HUSKI's cap is reached every mint reverts, and with it every update,
  deposit, withdrawal and harvest of a pool; a stake that the vault funded has no
  emergency exit. With `totalAllocPoint` 0 and a stake in some pool, `setPool`
  cannot repair the weights, since it updates all pools first; `addPool` without an
  update can.
* A FairLaunch deposit of zero sets `fundedBy` of any account, which a later funder
  then does not match.
* 010-k pushes a vault entry unconditionally. A rerun leaves two entries with one
  symbol, and every later `vaultIndex` of the committed scripts names another vault.
  011 writes to all entries with the symbol it finds there: after a second run of
  010-2 the vault for WBNB is written to both entries of BUSD, over the vault for BUSD
  deployed before, which no file then names, and a worker script that goes by the entry
  would pair that vault with the tokens of the other.
* 011-k relies on ten seconds: if `addPool` is not mined by then, the vault is
  linked to the pool before it, and `setFairLaunchPoolId`, sent with a gas limit, does
  not fail.
* `s004` cannot be run twice: its first `transferOwnership` then throws and the rest
  of its list stays with the deployer.
* `s010` queues a `setParams` of seven arguments, and `BasicVaultConfig.setParams`
  has eight; `s016` queues `resetApproval`, which no worker of the repository
  has. Both are accepted by the timelock and revert when executed.
* `s007` queues the upgrade of a vault and `updateDebtToken` with the same eta, and
  nothing but the operator makes them execute in that order.
* `022_deploy_dao.ts` does not await its `setPublicOffering` calls;
  `validate_vaults_config.ts` prints that there is no problem after a
  check has failed and been caught; the old format of `parseBalanceMap` turns a
  string of decimal digits into a hexadecimal number.

## 7. Abstractions

* **Vault**: base tokens outside the vault are `BaseSupply - cash`, and the
  ibToken, a free ERC20, is its total supply. Calls carry amounts from small
  sets. `MaxDebt`, `MaxSupply` and `MaxStake` cap the books in the guards.
* **Worker**: CAKE held and pending are one amount; the base tokens a
  reinvestment gets for CAKE are arbitrary; the pair's protocol fee is off. The
  users' minimum amounts can only make a call revert and are a small set, or
  left out in `CakeMaxiWorker`. There `baseToken` is the wrapped native coin, so that
  a path is one pair, and MasterChef pays exactly `pendingCake`.
* **FairLaunch**: no badge points, no address setters; a harvester's wallet
  holds any amount from `Wallets`.
* **FairLaunchV2**: stake tokens are not HUSKI; those sent in without a deposit are
  bounded by `MaxSent`; FairLaunch's rate is constant. What
  FairLaunch rounds off is its own accumulator's, and `V1Dust` counts it.
* **HuskyToken**: `transferFrom` is a transfer, `delegateBySig` a delegation. The owner,
  FairLaunch, never locks for or burns from the token contract itself.
* **Deployment**: amounts, interest slopes, prices, bounties, the router and the
  MasterChef address are left out, and so are names that are only printed. A proxy and
  its implementation are one contract, as are the two writes of a 011 script when
  two entries have its symbol. Setup scripts whose addresses are edited by hand before each run
  get those of the vault under consideration. The pairs of PancakeSwap's pools are
  those the results files name.
* **Setup**: `NEW_IMPL` is set in the committed files, so nothing is deployed.
* **MerkleDistributor**: `withdrawTokens` for another token changes nothing here; the
  flags of a claim and the old table format are left out.
* Integers are unbounded: the modelled contracts add, subtract and multiply
  amounts through SafeMath, so an overflow would revert, and real amounts are far
  below 2^256.

## 8. Not modelled

Configurations, oracles and `isStable` (the vault sees them as `Configs`), the
migrating worker, StronkHusky, badges, Shield itself, the public offering, debt token, relayers and libraries without state: `PROJECT.json` gives
the reason for each. Within modelled parts: the vault's callbacks
`requestFunds` and `injectSerialCode` and its execution scope; the workers'
`setCriticalStrategies`; FairLaunchV2's one-time `init`. Of the scripts: those that
set up a test network (`000_*`, `s013`), single calls without consequence for
another script (`s002`, `s003`, `s006`, `s008`, `h002`), the deployment of parts
that are not modelled (`020`, `022`), and `validate`, which only reads; what it
compares is the property `RecordTrue`. Vendored code and mocks are out of scope.

## 9. The plan

Done: vault, interest models, timelock with its scripts, HuskyToken, FairLaunch,
FairLaunchV2 with locker and the two workers with their strategies, checked and proved;
the deployment and the airdrop, checked.
Next, in this order:

1. **Vault execution scope**: the strategy's callbacks during `work` as steps of
   their own, with the reentrancy lock; `requestFunds` only for the user and
   worker in scope.
2. **Vault with FairLaunch**: the two composed, with `fundedBy` and zero
   deposits, instead of the nondeterministic outcome of the FairLaunch call.
3. **An abstract lending pool** (entitlements of lenders, debts of positions,
   no shares) that `Vault` refines under a mapping.
4. **Proofs**: a bound on what `AddBaseTokenOnly` and `AddTwoSidesOptimal` leave behind
   for every fee and reserve, now that the root is known to be exact; `ClaimsCovered`
   from `ClaimsExact`.
5. **More parts**: `WorkerConfig.isStable` with the oracles, StronkHusky on top
   of HuskyToken, `PancakeswapV2WorkerMigrate.migrateLP`, badges, the offering.
