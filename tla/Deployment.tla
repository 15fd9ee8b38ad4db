----------------------------- MODULE Deployment -----------------------------
(***************************************************************************)
(* The rollout of the protocol with the scripts of deploy/.  An operator   *)
(* runs one script after the other; each is a process that reads the       *)
(* results file (deploy/results/<network>.json) when it starts, sends      *)
(* transactions from the deployer's account, and writes the file back.     *)
(*                                                                         *)
(* The chain mines the deployer's transactions in the order of their       *)
(* nonces, at any pace: a script that only awaits the submission runs      *)
(* ahead of the chain, and the ten seconds a script sleeps may be too      *)
(* short.  A script may throw, and then the operator goes on with the next *)
(* one.  It may also crash at any statement: what it sent stays sent, what *)
(* it did not write is lost, and the operator runs it again from the       *)
(* beginning (every npm script passes --reset, so nothing deployed before  *)
(* is reused).                                                             *)
(*                                                                         *)
(* An address is the position of the contract in the order of creation; 0  *)
(* is the empty string of a field that is not filled in, and the accounts  *)
(* and tokens that exist beforehand are negative.                          *)
(***************************************************************************)
EXTENDS DeployScripts, FiniteSets, TLC

CONSTANT Plans   \* [network, scripts, crashes, lates]: what is run, and the faults

VARIABLES
    network, plan,          \* "mainnet" or "testnet"; the scripts still to run
    file,                   \* the results file
    running, mem, prog, loc,  \* the process: its config, what is left of it, its consts
    chain, pending,         \* contracts, and transactions not yet mined
    crashesLeft, latesLeft, \* the faults that may still happen
    crashes, late, failed   \* history: crashes, a sleep was too short, scripts that threw

process == <<running, mem, prog, loc>>
faults == <<crashesLeft, latesLeft, crashes, late>>
vars == <<network, plan, file, process, chain, pending, faults, failed>>
-----------------------------------------------------------------------------
(* Addresses.                                                              *)

Deployer == -1

External ==
    [deployer |-> Deployer, AdminAddress |-> Deployer, FeederAddress |-> Deployer,
     WBNB |-> -2, BUSD |-> -3, USDT |-> -4, CAKE |-> -5, ETH |-> -6, BTCB |-> -7,
     USDC |-> -8, DAI |-> -9, TRX |-> -10, BTT |-> -11, DOT |-> -12, ADA |-> -13,
     UNI |-> -14, LINK |-> -15, XVS |-> -16, AXS |-> -17, DODO |-> -18, SUSHI |-> -19]

\* The pairs staked in PancakeSwap's MasterChef, as the results files list them.
Pools ==
    [mainnet |->
        251 :> {"CAKE", "WBNB"} @@ 252 :> {"BUSD", "WBNB"} @@ 253 :> {"ADA", "WBNB"}
     @@ 255 :> {"DOT", "WBNB"} @@ 257 :> {"LINK", "WBNB"} @@ 258 :> {"USDT", "BUSD"}
     @@ 260 :> {"XVS", "WBNB"} @@ 261 :> {"ETH", "WBNB"} @@ 262 :> {"BTCB", "WBNB"}
     @@ 264 :> {"USDT", "WBNB"} @@ 268 :> {"UNI", "WBNB"} @@ 282 :> {"DAI", "BUSD"}
     @@ 283 :> {"USDC", "BUSD"} @@ 305 :> {"DODO", "WBNB"} @@ 306 :> {"SUSHI", "ETH"}
     @@ 365 :> {"BTCB", "BUSD"} @@ 389 :> {"CAKE", "BUSD"} @@ 422 :> {"CAKE", "USDT"}
     @@ 423 :> {"USDC", "USDT"} @@ 430 :> {"AXS", "WBNB"} @@ 442 :> {"TRX", "BUSD"}
     @@ 443 :> {"BTT", "BUSD"},
     testnet |-> 21 :> {"CAKE", "WBNB"} @@ 49 :> {"CAKE", "BUSD"} @@ 57 :> {"CAKE", "USDT"}]

HasPool(base, pid) ==
    /\ pid \in DOMAIN Pools[network]
    /\ base \in {External[t] : t \in Pools[network][pid]}

\* The value of a name: a const of the script, a field of the config, or external.
Val(name) == IF name \in DOMAIN loc THEN loc[name]
             ELSE IF name \in DOMAIN mem THEN mem[name]
             ELSE External[name]

Vals(names) == [i \in 1..Len(names) |-> Val(names[i])]

Numbers == {"ALLOC_POINT", "ALLOC_POINT_FOR_DEPOSIT", "ALLOC_POINT_FOR_OPEN_POSITION",
            "WORK_FACTOR", "KILL_FACTOR", "POOL_ID", "fairLaunchDebtPid"}

\* What ethers refuses to encode: an empty address, a negative uint256.
Unencodable(names) ==
    \E n \in ToSet(names) : IF n \in Numbers THEN Val(n) < 0 ELSE Val(n) = 0
-----------------------------------------------------------------------------
(* The chain.                                                              *)

NextAddress == Len(chain) + Len(SelectSeq(pending, LAMBDA tx : tx.op = "create")) + 1

PoolsOf(c) == {f \in chain[c].facts : f[1] = "addPool"}

\* The owner's functions; addPool takes no pool twice.
Reverts(tx) ==
    \/ chain[tx.to].owner # Deployer
    \/ tx.fn = "addPool" /\ \E f \in PoolsOf(tx.to) : f[3] = tx.args[1]

Lists == {"setOkHolders", "setStrategyOk", "setWorkersOk", "setCallerOk", "setReinvestorOk"}

\* What a call leaves behind: one fact per address of a list, or its arguments.
Facts(tx) ==
    CASE tx.fn \in Lists -> {<<tx.fn, a>> : a \in ToSet(tx.args)}
      [] tx.fn = "addPool" -> {<<tx.fn, Cardinality(PoolsOf(tx.to))>> \o tx.args}
      [] OTHER -> {<<tx.fn>> \o tx.args}

Executed(tx) ==
    CASE tx.op = "create" ->
            chain' = Append(chain, [kind |-> tx.kind, args |-> tx.args, owner |-> Deployer,
                                    facts |-> {}])
      [] tx.op = "call" ->
            chain' = IF Reverts(tx) THEN chain
                     ELSE IF tx.fn = "transferOwnership"
                       THEN [chain EXCEPT ![tx.to].owner = tx.args[1]]
                     ELSE [chain EXCEPT ![tx.to].facts = @ \cup Facts(tx)]

Mine ==
    /\ pending # <<>>
    /\ pending' = Tail(pending)
    /\ Executed(Head(pending))
    /\ UNCHANGED <<network, plan, file, process, faults, failed>>
-----------------------------------------------------------------------------
(* The results file.                                                       *)

EmptyVault == [name |-> "", symbol |-> "", address |-> 0, baseToken |-> 0, debtToken |-> 0,
               config |-> 0, StrategyAddTwoSidesOptimal |-> 0, workers |-> <<>>]

EmptyFile ==
    [Timelock |-> 0, HUSKY |-> 0, FairLaunch |-> 0, TripleSlopeModel |-> 0,
     LowInterestTripleSlopeModel |-> 0, HighInterestTripleSlopeModel |-> 0,
     WNativeRelayer |-> 0, SimpleOracle |-> 0, WorkerConfig |-> 0,
     StrategyAddBaseTokenOnly |-> 0, StrategyLiquidate |-> 0,
     StrategyWithdrawMinimizeTrading |-> 0, StrategyPartialCloseLiquidate |-> 0,
     StrategyPartialCloseMinimizeTrading |-> 0,
     pools |-> <<>>, Vaults |-> <<EmptyVault>>]

\* The entry at index i of the source's array.
Entry(config, i) == config.Vaults[i + 1]

\* The config in memory after an assignment.
Saved(s) ==
    CASE s.op = "save" -> [mem EXCEPT ![s.field] = Val(s.reg)]
      [] s.op = "pushVault" ->
            [mem EXCEPT !.Vaults = Append(@, [EmptyVault EXCEPT
                !.symbol = s.symbol, !.config = Val("basicVaultConfig")])]
      [] s.op = "pushPool" ->
            [mem EXCEPT !.pools = Append(@, [id |-> Val(s.reg), address |-> Val(s.token)])]
      [] s.op = "saveVault" ->
            [mem EXCEPT !.Vaults = [i \in DOMAIN @ |->
                IF @[i].symbol # Val("SYMBOL") THEN @[i]
                ELSE [@[i] EXCEPT !.name = Val("BASE_TOKEN"), !.address = Val("vault"),
                                  !.baseToken = Val(Val("BASE_TOKEN")), !.debtToken = Val("debtToken")]]]
      [] s.op = "saveTwoSides" ->
            [mem EXCEPT !.Vaults[s.index + 1].StrategyAddTwoSidesOptimal = Val("twoSides")]
      [] s.op = "pushWorker" ->
            [mem EXCEPT !.Vaults[s.index + 1].workers = Append(@,
                [name |-> Val("WORKER_NAME"), address |-> Val("worker"), pId |-> Val("POOL_ID")])]
-----------------------------------------------------------------------------
(* The process.                                                            *)

\* The statements of the script that is next in the plan.
Program(s, config) ==
    CASE s.tag = "TimeLock" -> TimeLock
      [] s.tag = "FairLaunch" -> FairLaunch
      [] s.tag = "TripleSlopeModel" -> TripleSlopeModel
      [] s.tag = "WNativeRelayer" -> WNativeRelayer
      [] s.tag = "SimpleOracle" -> SimpleOracle
      [] s.tag = "WorkerConfig" -> WorkerConfig
      [] s.tag = "BasicVaultConfigibHUSKI" -> BasicVaultConfigibHUSKI
      [] s.tag = "BasicVaultConfigibBUSD" -> BasicVaultConfigibBUSD
      [] s.tag = "BasicVaultConfigibBNB" -> BasicVaultConfigibBNB
      [] s.tag = "BasicVaultConfigibUSDT" -> BasicVaultConfigibUSDT
      [] s.tag = "BasicVaultConfigibCAKE" -> BasicVaultConfigibCAKE
      [] s.tag = "BasicVaultConfigibETH" -> BasicVaultConfigibETH
      [] s.tag = "BasicVaultConfigibBTCB" -> BasicVaultConfigibBTCB
      [] s.tag = "BasicVaultConfigibUSDC" -> BasicVaultConfigibUSDC
      [] s.tag = "Vault" -> Vault
      [] s.tag = "VaultBUSD" -> VaultBUSD
      [] s.tag = "VaultWBNB" -> VaultWBNB
      [] s.tag = "VaultUSDT" -> VaultUSDT
      [] s.tag = "VaultCAKE" -> VaultCAKE
      [] s.tag = "VaultETH" -> VaultETH
      [] s.tag = "VaultBTCB" -> VaultBTCB
      [] s.tag = "VaultUSDC" -> VaultUSDC
      [] s.tag = "ShareRestrictedStrategiesV2" -> ShareRestrictedStrategiesV2
      [] s.tag = "RestrictedVaultStrategiesV2" ->
            RestrictedVaultStrategiesV2(s.from, Len(config.Vaults))
      [] s.tag = "PancakeswapV2WorkersHUSKI" -> PancakeswapV2WorkersHUSKI(s.from)
      [] s.tag = "PancakeswapV2WorkersBUSD" -> PancakeswapV2WorkersBUSD(s.from)
      [] s.tag = "PancakeswapV2WorkersBNB" -> PancakeswapV2WorkersBNB(s.from)
      [] s.tag = "PancakeswapV2WorkersUSDT" -> PancakeswapV2WorkersUSDT(s.from)
      [] s.tag = "PancakeswapV2WorkersCAKE" -> PancakeswapV2WorkersCAKE(s.from)
      [] s.tag = "PancakeswapV2WorkersETH" -> PancakeswapV2WorkersETH(s.from)
      [] s.tag = "PancakeswapV2WorkersBTCB" -> PancakeswapV2WorkersBTCB(s.from)
      [] s.tag = "PancakeswapV2WorkersUSDC" -> PancakeswapV2WorkersUSDC(s.from)
      [] s.tag = "AddFairLaunchPool" -> AddFairLaunchPool(s.from)
      [] s.tag = "FeederSimpleOracle" -> FeederSimpleOracle
      [] s.tag = "BasicVaultConfigSetParams" -> BasicVaultConfigSetParams(s.from)
      [] s.tag = "TransferOwnershipToTimeLock" -> TransferOwnershipToTimeLock(s.from)

Idle == /\ running' = FALSE /\ mem' = EmptyFile /\ prog' = <<>> /\ loc' = <<>>

Start ==
    /\ ~running /\ plan # <<>>
    /\ running' = TRUE
    /\ mem' = file
    /\ prog' = Program(Head(plan), file)
    /\ loc' = <<>>
    /\ UNCHANGED <<network, plan, file, chain, pending, faults, failed>>

\* The next statement, if the process runs and it is one of ops.
At(ops) == running /\ prog # <<>> /\ Head(prog).op \in ops
Proceed == prog' = Tail(prog) /\ UNCHANGED running

Transaction(s) == [op |-> "call", to |-> Val(s.to), fn |-> s.fn, args |-> Vals(s.args)]

\* The next statement throws: ethers cannot encode it, the node's estimation of
\* its gas fails, or config.Vaults has no such entry.
Throws ==
    LET s == Head(prog) IN
    CASE s.op = "create" ->
            \/ Unencodable(s.args)
            \/ s.kind = "PancakeswapV2Worker" /\ ~HasPool(Val(s.args[2]), Val("POOL_ID"))
      [] s.op = "call" ->
            \/ Val(s.to) = 0
            \/ Unencodable(s.args)
            \/ s.estimate /\ Val(s.to) \in 1..Len(chain) /\ Reverts(Transaction(s))
      [] s.op = "useVault" -> s.index >= Len(mem.Vaults)
      [] OTHER -> FALSE

\* Nothing catches the rejection: it ends the script where it is.
Throw ==
    /\ running /\ prog # <<>> /\ Throws
    /\ Idle
    /\ plan' = Tail(plan)
    /\ failed' = failed \cup {Head(plan).tag}
    /\ UNCHANGED <<network, file, chain, pending, faults>>

Submit ==
    /\ At({"create", "call"}) /\ ~Throws
    /\ LET s == Head(prog) IN
         IF s.op = "create"
           THEN /\ pending' = Append(pending, [op |-> "create", kind |-> s.kind, args |-> Vals(s.args)])
                /\ loc' = (s.reg :> NextAddress) @@ loc
           ELSE /\ pending' = Append(pending, Transaction(s))
                /\ UNCHANGED loc
    /\ Proceed
    /\ UNCHANGED <<network, plan, file, mem, chain, faults, failed>>

AwaitDeployed ==
    /\ At({"deployed"})
    /\ Val(Head(prog).reg) <= Len(chain)
    /\ Proceed
    /\ UNCHANGED <<network, plan, file, mem, loc, chain, pending, faults, failed>>

\* Ten seconds are enough for the chain to catch up, or they are not.
AwaitSleep ==
    /\ At({"sleep"})
    /\ \/ pending = <<>> /\ UNCHANGED faults
       \/ /\ pending # <<>> /\ latesLeft > 0
          /\ latesLeft' = latesLeft - 1 /\ late' = TRUE
          /\ UNCHANGED <<crashesLeft, crashes>>
    /\ Proceed
    /\ UNCHANGED <<network, plan, file, mem, loc, chain, pending, failed>>

\* Reads the chain as mined so far, or takes consts from the config or a table.
Read ==
    /\ At({"readPid", "let", "useVault"}) /\ ~Throws
    /\ LET s == Head(prog) IN
         loc' = CASE s.op = "readPid" ->
                        (s.reg :> Cardinality(PoolsOf(Val("FairLaunch"))) - 1) @@ loc
                  [] s.op = "let" -> s.consts @@ loc
                  [] s.op = "useVault" ->
                        LET v == Entry(mem, s.index) IN
                        [SYMBOL |-> v.symbol, CONFIG_ADDR |-> v.config, VAULT_ADDR |-> v.address,
                         StrategyAddTwoSidesOptimal |-> v.StrategyAddTwoSidesOptimal] @@ loc
    /\ Proceed
    /\ UNCHANGED <<network, plan, file, mem, chain, pending, faults, failed>>

Assign ==
    /\ At({"save", "pushVault", "pushPool", "saveVault", "saveTwoSides", "pushWorker"})
    /\ mem' = Saved(Head(prog))
    /\ Proceed
    /\ UNCHANGED <<network, plan, file, loc, chain, pending, faults, failed>>

WriteFile ==
    /\ At({"write"})
    /\ file' = mem
    /\ Proceed
    /\ UNCHANGED <<network, plan, mem, loc, chain, pending, faults, failed>>

Finish ==
    /\ running /\ prog = <<>>
    /\ Idle
    /\ plan' = Tail(plan)
    /\ UNCHANGED <<network, file, chain, pending, faults, failed>>

Crash ==
    /\ running /\ crashesLeft > 0
    /\ Idle
    /\ crashesLeft' = crashesLeft - 1 /\ crashes' = crashes + 1
    /\ UNCHANGED <<network, plan, file, chain, pending, latesLeft, late, failed>>

Statement == Throw \/ Submit \/ AwaitDeployed \/ AwaitSleep \/ Read \/ Assign \/ WriteFile \/ Finish

Init ==
    /\ \E p \in Plans :
          network = p.network /\ plan = p.scripts /\ crashesLeft = p.crashes /\ latesLeft = p.lates
    /\ file = EmptyFile
    /\ running = FALSE /\ mem = EmptyFile /\ prog = <<>> /\ loc = <<>>
    /\ chain = <<>> /\ pending = <<>>
    /\ crashes = 0 /\ late = FALSE /\ failed = {}

Done == plan = <<>> /\ pending = <<>> /\ UNCHANGED vars

Next == Start \/ Statement \/ Mine \/ Crash \/ Done

Spec == Init /\ [][Next]_vars
-----------------------------------------------------------------------------
Contracts(kind) == {c \in 1..Len(chain) : chain[c].kind = kind}

Workers == Contracts("PancakeswapV2Worker")

\* The strategies a worker accepts: its addStrat and liqStrat, and the others.
StrategiesOf(w) == {chain[w].args[4], chain[w].args[5]}
                     \cup {f[2] : f \in {g \in chain[w].facts : g[1] = "setStrategyOk"}}

\* A worker can be used: all six strategies accept it, the two-sided one serves
\* the worker's own vault, and the worker has a configuration.
Ready ==
    {w \in Workers :
        /\ Cardinality(StrategiesOf(w)) = 6
        /\ \A s \in StrategiesOf(w) :
              /\ <<"setWorkersOk", w>> \in chain[s].facts
              /\ chain[s].kind = "StrategyAddTwoSidesOptimal"
                    => chain[s].args[1] = chain[w].args[1]
        /\ \E c \in Contracts("WorkerConfig") :
              \E f \in chain[c].facts : f[1] = "setConfigs" /\ f[2] = w}

\* A vault lets a position be opened with the worker.
Live ==
    {w \in Workers : \E c \in Contracts("BasicVaultConfig") :
        \E f \in chain[c].facts : f[1] = "setWorkers" /\ f[2] = w}

Rollout == INSTANCE WorkerRollout WITH ready <- Ready, live <- Live

\* The scripts implement the rollout of workers: one worker at a time becomes
\* ready, only a ready worker goes live, and no worker that is ready or live
\* stops to be, whatever crashes, throws or is run again.
RolloutOrder == Rollout!Spec

\* The entries of config.Vaults that name a deployed vault, and those of them with a
\* symbol of their own.  Two entries with one symbol are the trace of a 010 script that
\* was run again: a 011 script then writes its vault to both of them, and the next 011
\* script may find the second of them at its vaultIndex and write over both.
Filled == {i \in DOMAIN file.Vaults : file.Vaults[i].address # 0}
SameSymbol(i) == {j \in DOMAIN file.Vaults : file.Vaults[j].symbol = file.Vaults[i].symbol}
Recorded == {i \in Filled : SameSymbol(i) = {i}}

\* Once the chain has caught up, a recorded vault stakes its debt token in the
\* pool of FairLaunch that takes it, and the recorded pool ids are the chain's:
\* the id a 011 script computes is right after crashes and reruns, unless its
\* sleep was too short.
PoolsLinked ==
    pending = <<>> /\ ~late =>
        /\ \A i \in Recorded :
              LET v == file.Vaults[i] IN
              \E f \in PoolsOf(chain[v.config].args[4]) :
                 f[3] = v.debtToken /\ <<"setFairLaunchPoolId", f[2]>> \in chain[v.address].facts
        /\ \A k \in DOMAIN file.pools :
              \E f \in PoolsOf(file.FairLaunch) :
                 f[2] = file.pools[k].id /\ f[3] = file.pools[k].address

\* What the results file says of a vault is what the chain has: its tokens, and the
\* configuration of an entry with its symbol.  And where the symbol is of one entry
\* only, what validate_vaults_config.ts checks holds too: the vault's own strategy,
\* and each worker's vault, base token and pool.
RecordTrue ==
    /\ \A i \in Filled :
          LET v == file.Vaults[i] IN
          /\ \E j \in SameSymbol(i) :
                chain[v.address].args = <<file.Vaults[j].config, v.baseToken, v.debtToken>>
          /\ pending = <<>> => chain[v.debtToken].owner = v.address
    /\ \A i \in Recorded :
          LET v == file.Vaults[i] IN
          /\ v.StrategyAddTwoSidesOptimal # 0
                => chain[v.StrategyAddTwoSidesOptimal].args = <<v.address>>
          /\ \A w \in ToSet(v.workers) :
                SubSeq(chain[w.address].args, 1, 3) = <<v.address, v.baseToken, w.pId>>

\* The base token a vault with the symbol is for.
BaseTokenOf ==
    [ibHUSKI |-> "HUSKY", ibBUSD |-> "BUSD", ibBNB |-> "WBNB", ibUSDT |-> "USDT",
     ibCAKE |-> "CAKE", ibETH |-> "ETH", ibBTCB |-> "BTCB", ibUSDC |-> "USDC"]
ConfigScripts ==
    {"BasicVaultConfigibHUSKI", "BasicVaultConfigibBUSD", "BasicVaultConfigibBNB",
     "BasicVaultConfigibUSDT", "BasicVaultConfigibCAKE", "BasicVaultConfigibETH",
     "BasicVaultConfigibBTCB", "BasicVaultConfigibUSDC"}

\* Every vault is recorded under the symbol of its base token, unless a 010 script
\* threw, or the one of its entry or of an entry before it was run again: the 011
\* scripts find their entry by the committed vaultIndex and write by the symbol found
\* there.  A rerun misnames the vaults from its entry on, and none before.
VaultsAsNamed ==
    failed \cap ConfigScripts = {} =>
        \A i \in Filled :
            (\A j \in 1..i : SameSymbol(j) = {j})
                => file.Vaults[i].name = BaseTokenOf[file.Vaults[i].symbol]

\* A live worker of the scripts that record first is in the results file, so
\* that a crash never leaves a worker in use that nobody knows of.
LiveRecorded ==
    \A w \in Live :
        chain[w].args[2] \notin {file.HUSKY, External["BUSD"]}
            => \E i \in DOMAIN file.Vaults :
                  \E r \in ToSet(file.Vaults[i].workers) : r.address = w

\* What an interrupted script, one that crashed or threw, leaves behind for good is
\* bounded: one more vault entry, two pools of FairLaunch and one worker that no
\* entry of the file names, and one vault whose configuration was handed to the
\* timelock but which was not itself.
LeftoversBounded ==
    plan = <<>> /\ pending = <<>> =>
        LET interrupted == crashes + Cardinality(failed)
            named == {file.pools[k].address : k \in DOMAIN file.pools}
            workers == UNION {{r.address : r \in ToSet(file.Vaults[i].workers)} :
                                 i \in DOMAIN file.Vaults}
        IN /\ Cardinality({i \in DOMAIN file.Vaults : \E j \in 1..(i - 1) :
                               file.Vaults[j].symbol = file.Vaults[i].symbol}) <= interrupted
           /\ Cardinality({f \in UNION {PoolsOf(c) : c \in Contracts("FairLaunch")} :
                               f[3] \notin named}) <= 2 * interrupted
           /\ Cardinality(Workers \ workers) <= interrupted
           /\ Cardinality({i \in Recorded :
                               /\ chain[file.Vaults[i].config].owner # Deployer
                               /\ chain[file.Vaults[i].address].owner = Deployer}) <= interrupted
=============================================================================
