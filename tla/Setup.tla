------------------------------- MODULE Setup -------------------------------
(***************************************************************************)
(* The administration of the deployed protocol with the scripts of         *)
(* deploy/setup that queue transactions on the timelock, and with          *)
(* 021_deploy_shield.ts.  A script sends one queueTransaction after the    *)
(* other, all with its EXACT_ETA; it awaits their submission, not that     *)
(* they are mined, so a transaction may be accepted when its gas is        *)
(* estimated and revert when it is mined.  The script throws at the first  *)
(* one the estimation refuses, may crash at any statement, and is run      *)
(* again from the beginning.  The executeTransaction lines it prints are   *)
(* run by hand, in any order.                                              *)
(***************************************************************************)
EXTENDS Timelock, Sequences

CONSTANTS
    Operator,             \* the account the scripts sign with
    EXACT_ETA,            \* the eta of the script that is run
    Scripts,              \* the tags of the scripts considered
    MaxBatch, MaxRuns,    \* bounds: entries of a script's table, runs of a script
    MaxByHand             \* bound on transactions queued by hand

VARIABLES
    script,       \* the script the operator runs
    todo, sent,   \* transactions it has yet to send, and those not yet mined
    runs,         \* how often it was started
    byHand        \* how many transactions were queued by hand

scriptVars == <<script, todo, sent, runs, byHand>>

\* queueTransaction of a call of fn with the n-th entry of the script's table.
Queue(fn, n) == [call |-> [op |-> "call", arg |-> <<fn, n>>], eta |-> EXACT_ETA]

ForEach(fn, length) ==
    [n \in 1..(IF length < MaxBatch THEN length ELSE MaxBatch) |-> Queue(fn, n)]

TimelockAddWorkerStrategy == <<Queue("setStrategyOk", 1)>>

\* NEW_IMPL and NEW_DEBT_TOKEN are set: nothing is deployed, both are queued.
UpgradeVault == <<Queue("upgrade", 1), Queue("updateDebtToken", 1)>>

TimelockChangeAdminProxy == ForEach("changeAdmin", 6)
TimelockSetParamsVaultConfig == ForEach("setParams", 2)
TimelockUpdateWorkerWorkerConfigParams == ForEach("setConfigs", 1)

\* ADD_STRAT and LIQ_STRAT are empty: no setCriticalStrategies.
TimelockUpdateAddStratWorkers == ForEach("setStrategyOk", 1)

UpgradeWorkers == ForEach("upgrade", 22)
TimelockWorkersMigrateLP == ForEach("migrateLP", 2)

\* Three approvals of each of 17 workers.
TimelockWorkersResetApproval == ForEach("resetApproval", 17 * 3)

\* WHITELISTED_STRATS_WORKERS is empty.
TimelockSetSharedStratsWhitelistedWorkers == ForEach("setWorkersOk", 0)

\* Every run deploys a Shield of its own and queues the transfer of FairLaunch to it.
Shield(run) == <<Queue("transferOwnership", run)>>

Program(tag, run) ==
    CASE tag = "TimelockAddWorkerStrategy" -> TimelockAddWorkerStrategy
      [] tag = "UpgradeVault" -> UpgradeVault
      [] tag = "TimelockChangeAdminProxy" -> TimelockChangeAdminProxy
      [] tag = "TimelockSetParamsVaultConfig" -> TimelockSetParamsVaultConfig
      [] tag = "TimelockUpdateWorkerWorkerConfigParams" -> TimelockUpdateWorkerWorkerConfigParams
      [] tag = "TimelockUpdateAddStratWorkers" -> TimelockUpdateAddStratWorkers
      [] tag = "UpgradeWorkers" -> UpgradeWorkers
      [] tag = "TimelockWorkersMigrateLP" -> TimelockWorkersMigrateLP
      [] tag = "TimelockWorkersResetApproval" -> TimelockWorkersResetApproval
      [] tag = "TimelockSetSharedStratsWhitelistedWorkers" ->
            TimelockSetSharedStratsWhitelistedWorkers
      [] tag = "Shield" -> Shield(run)

ASSUME ScriptsAssumption ==
    /\ MaxRuns \in Nat
    /\ \A tag \in Scripts : \A run \in 1..MaxRuns : Program(tag, run) \in Seq(Transactions)
-----------------------------------------------------------------------------
RunScript ==
    /\ todo = <<>> /\ runs < MaxRuns
    /\ runs' = runs + 1
    /\ todo' = Program(script, runs')
    /\ UNCHANGED <<vars, script, sent, byHand>>

\* queueTransaction does not revert.
Accepted(tx) == admin = Operator /\ tx.eta >= now + delay

Submit ==
    /\ todo # <<>> /\ Accepted(Head(todo))
    /\ todo' = Tail(todo)
    /\ sent' = Append(sent, Head(todo))
    /\ UNCHANGED <<vars, script, runs, byHand>>

\* The estimation fails, or the process dies.
Interrupt ==
    /\ todo # <<>>
    /\ todo' = <<>>
    /\ UNCHANGED <<vars, script, sent, runs, byHand>>

MineQueue ==
    /\ sent # <<>>
    /\ sent' = Tail(sent)
    /\ IF Accepted(Head(sent)) THEN queueTransaction(Head(sent)) ELSE UNCHANGED vars
    /\ UNCHANGED <<script, todo, runs, byHand>>

Called(fn) == \E tx \in spent : tx.call.op = "call" /\ tx.call.arg[1] = fn

\* The calls no contract has a function for: BasicVaultConfig.setParams takes
\* another argument, and no worker has resetApproval.
Unimplemented == {"setParams", "resetApproval"}

\* The called contract does not revert; FairLaunch leaves the timelock only once.
Callable(call) ==
    call.op = "call" =>
        /\ call.arg[1] \notin Unimplemented
        /\ call.arg[1] = "transferOwnership" => ~Called("transferOwnership")

\* The timelock's own transactions are queued by hand.
QueueByHand ==
    /\ byHand < MaxByHand /\ byHand' = byHand + 1
    /\ \E tx \in Transactions : tx.call.op # "call" /\ queueTransaction(tx)
    /\ UNCHANGED <<script, todo, sent, runs>>

\* What else the admin does by hand, the printed executeTransaction lines included
\* (cancelling what is not queued changes nothing).
ByHand ==
    /\ \/ Tick
       \/ \E a \in Accounts : setFirstPendingAdmin(a)
       \/ acceptAdmin
       \/ \E tx \in Transactions \cap queuedTransactions :
             cancelTransaction(tx) \/ (Callable(tx.call) /\ executeTransaction(tx))
    /\ UNCHANGED scriptVars

SetupInit ==
    /\ Init
    /\ script \in Scripts /\ todo = <<>> /\ sent = <<>> /\ runs = 0 /\ byHand = 0

SetupNext == RunScript \/ Submit \/ Interrupt \/ MineQueue \/ QueueByHand \/ ByHand

SetupSpec == SetupInit /\ [][SetupNext]_<<vars, scriptVars>>
=============================================================================
