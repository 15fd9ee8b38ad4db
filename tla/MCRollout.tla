----------------------------- MODULE MCRollout -----------------------------
(***************************************************************************)
(* The rollout of the protocol and its administration afterwards, two      *)
(* independent subjects of one run: the deployment scripts with the chain  *)
(* and the results file, and the timelock with the scripts that queue on   *)
(* it.                                                                     *)
(***************************************************************************)
EXTENDS Setup, SequencesExt, TLC

CONSTANTS a1, a2, Plans

VARIABLES
    subject,
    network, plan, file, running, mem, prog, loc, chain, pending,
    crashesLeft, latesLeft, crashes, late, failed

D == INSTANCE Deployment

deployment == <<network, plan, file, running, mem, prog, loc, chain, pending,
                crashesLeft, latesLeft, crashes, late, failed>>
administration == <<vars, scriptVars>>
all == <<subject, deployment, administration>>
-----------------------------------------------------------------------------
(* The plans of the operator.                                              *)

At(tag, from) == [tag |-> tag, from |-> from]
All(tags) == [i \in DOMAIN tags |-> At(tags[i], 0)]
Plan(net, scripts, c, l) == [network |-> net, scripts |-> scripts, crashes |-> c, lates |-> l]

Base == All(<<"TimeLock", "FairLaunch", "TripleSlopeModel", "WNativeRelayer",
              "SimpleOracle", "WorkerConfig">>)
Configs == All(<<"BasicVaultConfigibHUSKI", "BasicVaultConfigibBUSD", "BasicVaultConfigibBNB",
                 "BasicVaultConfigibUSDT", "BasicVaultConfigibCAKE", "BasicVaultConfigibETH",
                 "BasicVaultConfigibBTCB", "BasicVaultConfigibUSDC">>)

\* Every script, in the order of the numbers of the files.
Everything ==
    Base \o Configs
    \o All(<<"Vault", "VaultBUSD", "VaultWBNB", "VaultUSDT", "VaultCAKE", "VaultETH",
             "VaultBTCB", "VaultUSDC", "ShareRestrictedStrategiesV2">>)
    \o <<At("RestrictedVaultStrategiesV2", 1)>>
    \o All(<<"PancakeswapV2WorkersHUSKI", "PancakeswapV2WorkersBUSD",
             "PancakeswapV2WorkersBNB", "PancakeswapV2WorkersUSDT",
             "PancakeswapV2WorkersCAKE", "PancakeswapV2WorkersETH",
             "PancakeswapV2WorkersBTCB", "PancakeswapV2WorkersUSDC", "FeederSimpleOracle">>)
    \o <<At("AddFairLaunchPool", 3), At("BasicVaultConfigSetParams", 3),
         At("TransferOwnershipToTimeLock", 3)>>

\* The WBNB vault and its last worker, with the committed starts of the loops.
OneVault ==
    Base \o SubSeq(Configs, 1, 3) \o All(<<"VaultWBNB", "ShareRestrictedStrategiesV2">>)
    \o <<At("RestrictedVaultStrategiesV2", 3), At("PancakeswapV2WorkersBNB", 12),
         At("TransferOwnershipToTimeLock", 3)>>

\* Two vaults after three configurations, so that a configuration deployed twice comes
\* before, at or after the entries the vaults look for.
TwoVaults == Base \o SubSeq(Configs, 1, 3) \o All(<<"VaultBUSD", "VaultWBNB">>)

\* The testnet, where the WBNB table's pools do not exist and 014-3 throws.
Testnet ==
    Base \o SubSeq(Configs, 1, 5) \o All(<<"VaultCAKE", "ShareRestrictedStrategiesV2">>)
    \o <<At("RestrictedVaultStrategiesV2", 5)>>
    \o All(<<"PancakeswapV2WorkersCAKE", "VaultWBNB", "PancakeswapV2WorkersBNB">>)

\* Five scripts in every order, and then a vault that needs them all.
AnyOrder ==
    {All(s \o <<"Vault">>) : s \in SetToSeqs(
        {"TimeLock", "FairLaunch", "WNativeRelayer", "TripleSlopeModel",
         "BasicVaultConfigibHUSKI"})}

MCPlans ==
    {Plan("mainnet", <<>>, 0, 0), Plan("mainnet", Everything, 0, 0),
     Plan("mainnet", OneVault, 1, 1), Plan("mainnet", TwoVaults, 1, 0),
     Plan("testnet", Testnet, 0, 1)}
    \cup {Plan("mainnet", s, 0, 0) : s \in AnyOrder}
-----------------------------------------------------------------------------
(* The transactions of the administration.                                 *)

MCScripts == {"TimelockAddWorkerStrategy", "UpgradeVault", "TimelockChangeAdminProxy",
              "TimelockSetParamsVaultConfig", "TimelockUpdateWorkerWorkerConfigParams",
              "TimelockUpdateAddStratWorkers", "UpgradeWorkers", "TimelockWorkersMigrateLP",
              "TimelockWorkersResetApproval", "TimelockSetSharedStratsWhitelistedWorkers",
              "Shield"}

MCTargets == {"setStrategyOk", "upgrade", "updateDebtToken", "changeAdmin", "setParams",
              "setConfigs", "migrateLP", "resetApproval", "setWorkersOk", "transferOwnership"}
             \X {1, 2}

\* The timelock's own, with etas before and after the scripts', and the scripts'.
MCTransactions ==
    {[call |-> [op |-> "setDelay", arg |-> 0], eta |-> 2],
     [call |-> [op |-> "setDelay", arg |-> 1], eta |-> 2],
     [call |-> [op |-> "setPendingAdmin", arg |-> a2], eta |-> 3]}
    \cup {Queue(t[1], t[2]) : t \in MCTargets}
-----------------------------------------------------------------------------
MCInit ==
    /\ D!Init /\ SetupInit
    /\ \/ subject = "deployment" /\ plan # <<>>
          /\ admin = a1 /\ delay = 1 /\ script = "UpgradeVault"
       \/ subject = "administration" /\ plan = <<>> /\ admin = a1

MCNext ==
    \/ subject = "deployment" /\ D!Next /\ UNCHANGED <<subject, administration>>
    \/ subject = "administration" /\ SetupNext /\ UNCHANGED <<subject, deployment>>
    \/ now = MaxTime /\ UNCHANGED all

MCSpec == MCInit /\ [][MCNext]_all
-----------------------------------------------------------------------------
\* The scripts implement the rollout of workers: one worker at a time becomes
\* ready, only a ready worker goes live, and no worker that is ready or live
\* stops to be, whatever crashes, throws or is run again (014-k's calls from
\* setStrategyOk to setWorkers).
RolloutOrder == D!RolloutOrder

\* Once the chain has caught up, a recorded vault stakes its debt token in the
\* pool of FairLaunch that takes it, and the recorded pool ids are the chain's:
\* poolLength() - 1 in 011-k is the new pool's id after crashes and reruns,
\* unless the sleep before it was too short.
PoolsLinked == D!PoolsLinked

\* What the results file says of a vault is what the chain has, and what
\* validate_vaults_config.ts checks of its workers holds where its symbol is of one
\* entry only.
RecordTrue == D!RecordTrue

\* Every vault is recorded under the symbol of its base token, unless a 010 script
\* threw, or that of its entry or of one before it was run again after a crash: the
\* committed vaultIndex of 011-k then finds another entry.
VaultsAsNamed == D!VaultsAsNamed

\* A live worker of the scripts that record first (014-3 to 014-8) is in the
\* results file: a crash never leaves a worker in use that nobody knows of.
LiveRecorded == D!LiveRecorded

\* What interrupted scripts leave behind for good is bounded: per interruption one
\* vault entry (010-k), two pools of FairLaunch (011-k), one worker that no entry
\* names (014-k) and one vault handed over to the timelock only in part (s004).
LeftoversBounded == D!LeftoversBounded
=============================================================================
