--------------------------- MODULE DeployScripts ---------------------------
(***************************************************************************)
(* The deployment scripts (deploy/scripts, deploy/setup) as programs.  A   *)
(* script is the sequence of what it does that can be told apart from      *)
(* outside: transactions it submits, what it waits for, and what it saves  *)
(* to the results file.  An operand is the name the source gives a value:  *)
(* a const of the script, a field of the results file (the config), or an  *)
(* external token.  Amounts, factors of the interest models, the router    *)
(* and MasterChef addresses and everything printed are left out.           *)
(*                                                                         *)
(* The loops of the scripts start where the operator edits them to start,  *)
(* so that what exists is not deployed again: a script takes the first     *)
(* index as a parameter, with the committed one in a comment.              *)
(***************************************************************************)
EXTENDS Integers, Sequences, SequencesExt
-----------------------------------------------------------------------------
(* The statements.                                                         *)

\* deployProxy or deploy: submits a creation; args are its address arguments.
Create(reg, kind, args) == [op |-> "create", reg |-> reg, kind |-> kind, args |-> args]

\* .deployed(), or the end of hardhat-deploy's deploy: waits until it is mined.
Deployed(reg) == [op |-> "deployed", reg |-> reg]

\* await contract.fn(args): estimates the gas and submits, but does not wait for
\* the transaction to be mined.
Call(to, fn, args) ==
    [op |-> "call", to |-> to, fn |-> fn, args |-> args, estimate |-> TRUE]

\* The same with an explicit gasLimit, which skips the estimation.
CallGas(to, fn, args) ==
    [op |-> "call", to |-> to, fn |-> fn, args |-> args, estimate |-> FALSE]

\* setTimeout(resolve, 10000)
Sleep == [op |-> "sleep"]

\* const reg = (await fairlaunch.poolLength()).sub(1)
ReadPid(reg) == [op |-> "readPid", reg |-> reg]

\* Constants of a loop iteration, and those taken from config.Vaults[i].
Let(consts) == [op |-> "let", consts |-> consts]
UseVault(i) == [op |-> "useVault", index |-> i]

\* Assignments to the config in memory, and FileService.write of all of it.
Save(field, reg) == [op |-> "save", field |-> field, reg |-> reg]
PushVault(symbol) == [op |-> "pushVault", symbol |-> symbol]
PushPool(reg, token) == [op |-> "pushPool", reg |-> reg, token |-> token]
SaveVault == [op |-> "saveVault"]
SaveTwoSides(i) == [op |-> "saveTwoSides", index |-> i]
PushWorker(i) == [op |-> "pushWorker", index |-> i]
Write == [op |-> "write"]
-----------------------------------------------------------------------------
(* What everything else needs: scripts 001 to 007.                         *)

TimeLock == <<Create("timelock", "Timelock", <<"AdminAddress">>), Deployed("timelock"),
              Save("Timelock", "timelock"), Write>>

FairLaunch ==
    <<Create("huskyToken", "HuskyToken", <<>>), Deployed("huskyToken"),
      Create("fairLaunch", "FairLaunch", <<"huskyToken", "deployer">>), Deployed("fairLaunch"),
      CallGas("huskyToken", "transferOwnership", <<"fairLaunch">>),
      CallGas("fairLaunch", "setBonus", <<>>),
      Save("HUSKY", "huskyToken"), Save("FairLaunch", "fairLaunch"), Write>>

TripleSlopeModel ==
    <<Create("model", "TripleSlopeModel", <<>>), Deployed("model"),
      Create("low", "LowInterestTripleSlopeModel", <<>>), Deployed("low"),
      Create("high", "HighInterestTripleSlopeModel", <<>>), Deployed("high"),
      Save("TripleSlopeModel", "model"), Save("LowInterestTripleSlopeModel", "low"),
      Save("HighInterestTripleSlopeModel", "high"), Write>>

WNativeRelayer == <<Create("relayer", "WNativeRelayer", <<"WBNB">>), Deployed("relayer"),
                    Save("WNativeRelayer", "relayer"), Write>>

SimpleOracle ==
    <<Create("simplePriceOracle", "SimplePriceOracle", <<"FeederAddress">>),
      Deployed("simplePriceOracle"), Save("SimpleOracle", "simplePriceOracle"), Write>>

\* The wait for workerConfig to be deployed is commented out.
WorkerConfig == <<Create("workerConfig", "WorkerConfig", <<"SimpleOracle">>),
                  Save("WorkerConfig", "workerConfig"), Write>>
-----------------------------------------------------------------------------
(* Scripts 010-k: the configuration of a vault, pushed on config.Vaults.   *)

DeployVaultConfig(SYMBOL, INTEREST_MODEL) ==
    <<Create("basicVaultConfig", "BasicVaultConfig",
             <<INTEREST_MODEL, "WBNB", "WNativeRelayer", "FairLaunch">>),
      Deployed("basicVaultConfig"), PushVault(SYMBOL), Write>>

BasicVaultConfigibHUSKI == DeployVaultConfig("ibHUSKI", "HighInterestTripleSlopeModel")
BasicVaultConfigibBUSD == DeployVaultConfig("ibBUSD", "HighInterestTripleSlopeModel")
BasicVaultConfigibBNB == DeployVaultConfig("ibBNB", "HighInterestTripleSlopeModel")
BasicVaultConfigibUSDT == DeployVaultConfig("ibUSDT", "LowInterestTripleSlopeModel")
BasicVaultConfigibCAKE == DeployVaultConfig("ibCAKE", "HighInterestTripleSlopeModel")
BasicVaultConfigibETH == DeployVaultConfig("ibETH", "LowInterestTripleSlopeModel")
BasicVaultConfigibBTCB == DeployVaultConfig("ibBTCB", "LowInterestTripleSlopeModel")
BasicVaultConfigibUSDC == DeployVaultConfig("ibUSDC", "LowInterestTripleSlopeModel")
-----------------------------------------------------------------------------
(* Scripts 011-k: the vault at config.Vaults[vaultIndex] and its debt      *)
(* token, each with a pool of FairLaunch; saved at the end, to every entry *)
(* with the symbol.                                                        *)

\* Mutant: the pool id is read before the new pool is there.
ReadPidFirst(token, alloc, pid) ==
    <<ReadPid(pid), Call("FairLaunch", "addPool", <<token, alloc>>), Sleep>>

\* addPool, the sleep and the id the pool is taken to have got.
AddPool(token, alloc, pid) ==
    <<Call("FairLaunch", "addPool", <<token, alloc>>), Sleep, ReadPid(pid)>>

DeployVault(vaultIndex, BASE_TOKEN, ALLOC_POINT_FOR_DEPOSIT, ALLOC_POINT_FOR_OPEN_POSITION) ==
    <<UseVault(vaultIndex),
      Let([BASE_TOKEN |-> BASE_TOKEN, ALLOC_POINT_FOR_DEPOSIT |-> ALLOC_POINT_FOR_DEPOSIT,
           ALLOC_POINT_FOR_OPEN_POSITION |-> ALLOC_POINT_FOR_OPEN_POSITION]),
      Create("debtToken", "DebtToken", <<"Timelock">>), Deployed("debtToken"),
      Create("vault", "Vault", <<"CONFIG_ADDR", BASE_TOKEN, "debtToken">>), Deployed("vault"),
      Call("debtToken", "setOkHolders", <<"vault", "FairLaunch">>),
      Call("debtToken", "transferOwnership", <<"vault">>)>>
    \o AddPool("debtToken", "ALLOC_POINT_FOR_OPEN_POSITION", "fairLaunchDebtPid")
    \o <<CallGas("vault", "setFairLaunchPoolId", <<"fairLaunchDebtPid">>),
         PushPool("fairLaunchDebtPid", "debtToken")>>
    \o AddPool("vault", "ALLOC_POINT_FOR_DEPOSIT", "fairLaunchPid")
    \o <<PushPool("fairLaunchPid", "vault"),
         Call("WNativeRelayer", "setCallerOk", <<"vault">>),
         SaveVault, Write>>

\* Mutant: the vaultIndex of the script it was copied from.
VaultWBNBAtBUSD == DeployVault(2, "WBNB", 200, 300)

Vault == DeployVault(1, "HUSKY", 0, 0)
VaultBUSD == DeployVault(2, "BUSD", 200, 300)
VaultWBNB == DeployVault(3, "WBNB", 200, 300)
VaultUSDT == DeployVault(4, "USDT", 100, 100)
VaultCAKE == DeployVault(5, "CAKE", 0, 0)
VaultETH == DeployVault(6, "ETH", 100, 100)
VaultBTCB == DeployVault(7, "BTCB", 100, 50)
VaultUSDC == DeployVault(8, "USDC", 100, 100)
-----------------------------------------------------------------------------
(* Scripts 012 and 013: the strategies all workers share, and for each     *)
(* vault the one that is the vault's own.                                  *)

ShareRestrictedStrategiesV2 ==
    <<Create("addBase", "StrategyAddBaseTokenOnly", <<>>), Deployed("addBase"),
      Create("liquidate", "StrategyLiquidate", <<>>), Deployed("liquidate"),
      Create("minimize", "StrategyWithdrawMinimizeTrading", <<"WBNB", "WNativeRelayer">>),
      Deployed("minimize"),
      Call("WNativeRelayer", "setCallerOk", <<"minimize">>),
      Create("partialLiquidate", "StrategyPartialCloseLiquidate", <<>>),
      Deployed("partialLiquidate"),
      Create("partialMinimize", "StrategyPartialCloseMinimizeTrading", <<"WBNB", "WNativeRelayer">>),
      Deployed("partialMinimize"),
      Call("WNativeRelayer", "setCallerOk", <<"partialMinimize">>),
      Save("StrategyAddBaseTokenOnly", "addBase"), Save("StrategyLiquidate", "liquidate"),
      Save("StrategyWithdrawMinimizeTrading", "minimize"),
      Save("StrategyPartialCloseLiquidate", "partialLiquidate"),
      Save("StrategyPartialCloseMinimizeTrading", "partialMinimize"), Write>>

\* Mutant: the strategy is saved to the entry before the vault's.
SavedOneOff(from, length) ==
    FlattenSeq([n \in 1..(length - from) |->
        <<UseVault(from + n - 1),
          Create("twoSides", "StrategyAddTwoSidesOptimal", <<"VAULT_ADDR">>), Deployed("twoSides"),
          SaveTwoSides(from + n - 2), Write>>])

\* One iteration per vault from index from on (committed: 3); length is
\* config.Vaults.length.
RestrictedVaultStrategiesV2(from, length) ==
    FlattenSeq([n \in 1..(length - from) |->
        <<UseVault(from + n - 1),
          Create("twoSides", "StrategyAddTwoSidesOptimal", <<"VAULT_ADDR">>), Deployed("twoSides"),
          SaveTwoSides(from + n - 1), Write>>])
-----------------------------------------------------------------------------
(* Scripts 014-k: the workers of the vault at vaultIndex.                  *)

Worker(WORKER_NAME, POOL_ID, WORK_FACTOR, KILL_FACTOR) ==
    [WORKER_NAME |-> WORKER_NAME, POOL_ID |-> POOL_ID,
     WORK_FACTOR |-> WORK_FACTOR, KILL_FACTOR |-> KILL_FACTOR]

\* STRATS of every worker.
STRATS == <<"StrategyPartialCloseLiquidate", "StrategyPartialCloseMinimizeTrading",
            "StrategyWithdrawMinimizeTrading", "StrategyAddTwoSidesOptimal">>

CreateWorker(BASE_TOKEN) ==
    <<Create("worker", "PancakeswapV2Worker",
             <<"VAULT_ADDR", BASE_TOKEN, "POOL_ID", "StrategyAddBaseTokenOnly", "StrategyLiquidate">>),
      Deployed("worker")>>

\* Mutant: the worker is linked to the vault before it has a configuration.
LinkFirst ==
    <<Call("worker", "setReinvestorOk", <<"AdminAddress">>),
      Call("worker", "setStrategyOk", STRATS),
      Call("StrategyAddBaseTokenOnly", "setWorkersOk", <<"worker">>),
      Call("StrategyLiquidate", "setWorkersOk", <<"worker">>)>>
    \o [j \in 1..4 |-> Call(STRATS[j], "setWorkersOk", <<"worker">>)]
    \o <<Call("CONFIG_ADDR", "setWorkers", <<"worker", "WorkerConfig">>),
         Call("WorkerConfig", "setConfigs", <<"worker", "WORK_FACTOR", "KILL_FACTOR">>)>>

\* From the reinvestor to the link with the vault's configuration.
ConfigureWorker ==
    <<Call("worker", "setReinvestorOk", <<"AdminAddress">>),
      Call("worker", "setStrategyOk", STRATS),
      Call("StrategyAddBaseTokenOnly", "setWorkersOk", <<"worker">>),
      Call("StrategyLiquidate", "setWorkersOk", <<"worker">>)>>
    \o [j \in 1..4 |-> Call(STRATS[j], "setWorkersOk", <<"worker">>)]
    \o <<Call("WorkerConfig", "setConfigs", <<"worker", "WORK_FACTOR", "KILL_FACTOR">>),
         Call("CONFIG_ADDR", "setWorkers", <<"worker", "WorkerConfig">>)>>

\* The loop over WORKERS from index from on, with one iteration's statements
\* around ConfigureWorker.
ForWorkers(vaultIndex, WORKERS, from, Body) ==
    <<UseVault(vaultIndex)>>
    \o FlattenSeq([n \in 1..(Len(WORKERS) - from) |-> <<Let(WORKERS[from + n])>> \o Body])

\* Mutant: a worker is saved only when it is in use.
RecordLast(vaultIndex, BASE_TOKEN) ==
    CreateWorker(BASE_TOKEN) \o ConfigureWorker \o <<PushWorker(vaultIndex), Write>>

\* The iteration of 014-3 to 014-8, which saves the worker once it is deployed.
RecordFirst(vaultIndex, BASE_TOKEN) ==
    CreateWorker(BASE_TOKEN) \o <<PushWorker(vaultIndex), Write>> \o ConfigureWorker

WorkersHUSKI == <<Worker("BUSD-HUSKI", -1, 5500, 7000)>>

WorkersBUSD ==
    <<Worker("CAKE-BUSD", 389, 7000, 8000), Worker("BNB-BUSD", 252, 7000, 8000),
      Worker("USDT-BUSD", 258, 8600, 9100), Worker("USDC-BUSD", 283, 7800, 8900),
      Worker("DAI-BUSD", 282, 7800, 8900), Worker("TRX-BUSD", 442, 7000, 8000),
      Worker("BTT-BUSD", 443, 7000, 8000)>>

WorkersBNB ==
    <<Worker("CAKE-BNB", 251, 7000, 8000), Worker("BUSD-BNB", 252, 7000, 8000),
      Worker("USDT-BNB", 264, 7000, 8000), Worker("ETH-BNB", 261, 7000, 8000),
      Worker("BTCB-BNB", 262, 7000, 8000), Worker("DOT-BNB", 255, 7000, 8000),
      Worker("ADA-BNB", 253, 7000, 8000), Worker("UNI-BNB", 268, 7000, 8000),
      Worker("LINK-BNB", 257, 7000, 8000), Worker("XVS-BNB", 260, 7000, 8000),
      Worker("DOT-BNB", 255, 7000, 8000), Worker("AXS-BNB", 430, 7000, 8000),
      Worker("DODO-BNB", 305, 7000, 8000)>>

WorkersUSDT ==
    <<Worker("CAKE-USDT", 422, 7000, 8000), Worker("BNB-USDT", 264, 7000, 8000),
      Worker("BUSD-USDT", 258, 8600, 9100), Worker("USDC-USDT", 423, 7800, 8900)>>

WorkersCAKE ==
    <<Worker("BNB-CAKE", 21, 7000, 8000), Worker("USDT-CAKE", 57, 7000, 8000),
      Worker("BUSD-CAKE", 49, 7000, 8000)>>

WorkersETH == <<Worker("BNB-ETH", 261, 7000, 8000), Worker("SUSHI-ETH", 306, 7000, 8000)>>

WorkersBTCB == <<Worker("BNB-BTCB", 262, 5500, 7000), Worker("BUSD-BTCB", 365, 5500, 7000)>>

WorkersUSDC == <<Worker("BUSD-USDC", 283, 7800, 8900), Worker("USDT-USDC", 423, 7800, 8900)>>

\* Committed start 0; the file is written once, after the loop.
PancakeswapV2WorkersHUSKI(from) ==
    ForWorkers(1, WorkersHUSKI, from, CreateWorker("HUSKY") \o ConfigureWorker \o <<PushWorker(1)>>)
    \o <<Write>>

\* Committed start 5; a worker is saved at the end of its iteration.
PancakeswapV2WorkersBUSD(from) ==
    ForWorkers(2, WorkersBUSD, from,
               CreateWorker("BUSD") \o ConfigureWorker \o <<PushWorker(2), Write>>)

\* Committed starts 12, 1, 0, 0, 0 and 0.
PancakeswapV2WorkersBNB(from) == ForWorkers(3, WorkersBNB, from, RecordFirst(3, "WBNB"))
PancakeswapV2WorkersUSDT(from) == ForWorkers(4, WorkersUSDT, from, RecordFirst(4, "USDT"))
PancakeswapV2WorkersCAKE(from) == ForWorkers(5, WorkersCAKE, from, RecordFirst(5, "CAKE"))
PancakeswapV2WorkersETH(from) == ForWorkers(6, WorkersETH, from, RecordFirst(6, "ETH"))
PancakeswapV2WorkersBTCB(from) == ForWorkers(7, WorkersBTCB, from, RecordFirst(7, "BTCB"))
PancakeswapV2WorkersUSDC(from) == ForWorkers(8, WorkersUSDC, from, RecordFirst(8, "USDC"))
-----------------------------------------------------------------------------
(* Setup scripts that call contracts directly.  Their addresses are edited *)
(* before each run; here they are those of the vault at index.             *)

AddFairLaunchPool(index) ==
    <<UseVault(index), Let([ALLOC_POINT |-> 300]),
      CallGas("FairLaunch", "addPool", <<"VAULT_ADDR", "ALLOC_POINT">>)>>

FeederSimpleOracle == <<Call("SimpleOracle", "setFeeder", <<"FeederAddress">>)>>

BasicVaultConfigSetParams(index) ==
    <<UseVault(index),
      Call("CONFIG_ADDR", "setParams",
           <<"HighInterestTripleSlopeModel", "WBNB", "WNativeRelayer", "FairLaunch">>)>>

\* Mutant: the last address is left out.
LockAllButLast(index) ==
    <<UseVault(index), Call("CONFIG_ADDR", "transferOwnership", <<"Timelock">>)>>

\* TO_BE_LOCKED: a vault's configuration and the vault.
TransferOwnershipToTimeLock(index) ==
    <<UseVault(index),
      Call("CONFIG_ADDR", "transferOwnership", <<"Timelock">>),
      Call("VAULT_ADDR", "transferOwnership", <<"Timelock">>)>>
=============================================================================
