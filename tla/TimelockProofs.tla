--------------------------- MODULE TimelockProofs ---------------------------
(***************************************************************************)
(* The timelock's properties, for any accounts, delays, transactions and   *)
(* clock.  The inductive invariant adds that a queued transaction's eta    *)
(* already lies MINIMUM_DELAY after its queueing, whatever delay was then  *)
(* in force, and that the eta of what was executed has passed.             *)
(***************************************************************************)
EXTENDS Setup, TLAPS

\* Whatever waits in the queue was queued MINIMUM_DELAY before its eta.
QueuedInTime ==
    \A tx \in queuedTransactions : queuedAt[tx] + MINIMUM_DELAY <= tx.eta

\* The eta of everything executed has passed.
SpentInPast == \A tx \in spent : tx.eta <= now

IInv == TypeOK /\ QueuedInTime /\ SpentInPast /\ MinimumDelayRespected /\ NoReplay

\* The constructor establishes the invariant.
LEMMA InitEstablishes == Init => IInv
<1> SUFFICES ASSUME Init PROVE IInv
  OBVIOUS
<1>1. now \in 0..MaxTime /\ queuedAt \in [Transactions -> 0..MaxTime]
  BY TimelockAssumption DEF Init
<1>2. delay \in Nat /\ InRange(delay)
  BY TimelockAssumption DEF Init
<1> QED BY <1>1, <1>2 DEF Init, IInv, TypeOK, QueuedInTime, SpentInPast,
                          MinimumDelayRespected, NoReplay

\* Calls made by an executed transaction keep the types of what they change.
LEMMA DispatchTypes ==
    ASSUME TypeOK, NEW tx \in Transactions, Dispatch(tx.call)
    PROVE  /\ delay' \in Nat /\ InRange(delay')
           /\ pendingAdmin' \in Accounts \cup {NoAddress}
           /\ admin_initialized' \in BOOLEAN
<1>1. tx.call \in Calls
  BY TransactionsAssumption
<1>2. CASE tx.call.op = "setDelay" /\ setDelay(tx.call.arg)
  <2>1. tx.call.arg \in Nat
    BY <1>1, <1>2, TimelockAssumption DEF Calls
  <2> QED BY <1>2, <2>1 DEF setDelay, TypeOK, InRange
<1>3. CASE tx.call.op = "setPendingAdmin" /\ setPendingAdmin(Self, tx.call.arg)
  <2>1. tx.call.arg \in Accounts
    BY <1>1, <1>3 DEF Calls
  <2> QED BY <1>3, <2>1 DEF setPendingAdmin, TypeOK, InRange
<1>4. CASE tx.call.op = "call" /\ UNCHANGED <<delay, pendingAdmin, admin_initialized>>
  BY <1>4 DEF TypeOK, InRange
<1> QED BY <1>2, <1>3, <1>4 DEF Dispatch

\* Every step of the timelock preserves the invariant.
LEMMA NextPreserves == IInv /\ [Next]_vars => IInv'
<1> SUFFICES ASSUME IInv, [Next]_vars PROVE IInv'
  OBVIOUS
<1> USE TimelockAssumption DEF IInv, QueuedInTime, MinimumDelayRespected, NoReplay
<1>1. CASE Tick
  <2>1. SpentInPast'
    BY <1>1, TransactionsAssumption DEF Tick, TypeOK, SpentInPast, history
  <2> QED BY <1>1, <2>1 DEF Tick, TypeOK, InRange, history
<1>2. ASSUME NEW a \in Accounts, setFirstPendingAdmin(a) PROVE IInv'
  BY <1>2 DEF setFirstPendingAdmin, setPendingAdmin, TypeOK, InRange, SpentInPast, history
<1>3. CASE acceptAdmin
  BY <1>3 DEF acceptAdmin, TypeOK, InRange, SpentInPast, history
<1>4. ASSUME NEW tx \in Transactions, queueTransaction(tx) PROVE IInv'
  <2>1. tx.eta \in Nat
    BY TransactionsAssumption
  <2>2. TypeOK'
    BY <1>4 DEF queueTransaction, TypeOK, InRange
  <2>3. QueuedInTime'
    <3> SUFFICES ASSUME NEW q \in queuedTransactions'
                 PROVE  queuedAt'[q] + MINIMUM_DELAY <= q.eta
      OBVIOUS
    <3>1. CASE q = tx
      BY <1>4, <2>1, <3>1 DEF queueTransaction, TypeOK, InRange
    <3>2. CASE q # tx
      BY <1>4, <3>2 DEF queueTransaction, TypeOK
    <3> QED BY <3>1, <3>2
  <2>4. SpentInPast' /\ tx \notin spent
    BY <1>4, <2>1 DEF queueTransaction, TypeOK, InRange, SpentInPast
  <2> QED BY <1>4, <2>2, <2>3, <2>4 DEF queueTransaction
<1>5. ASSUME NEW tx \in Transactions, cancelTransaction(tx) PROVE IInv'
  <2>1. TypeOK'
    BY <1>5 DEF cancelTransaction, TypeOK, InRange
  <2>2. QueuedInTime' /\ SpentInPast' /\ NoReplay' /\ MinimumDelayRespected'
    BY <1>5 DEF cancelTransaction, TypeOK, SpentInPast
  <2> QED BY <2>1, <2>2
<1>6. ASSUME NEW tx \in Transactions, executeTransaction(tx) PROVE IInv'
  <2>1. /\ delay' \in Nat /\ InRange(delay')
        /\ pendingAdmin' \in Accounts \cup {NoAddress}
        /\ admin_initialized' \in BOOLEAN
    BY <1>6, DispatchTypes DEF executeTransaction
  <2>2. tx.eta \in Nat /\ queuedAt[tx] \in Nat /\ now \in Nat
    BY TransactionsAssumption DEF TypeOK
  <2>3. early' = FALSE
    BY <1>6, <2>2 DEF executeTransaction, TypeOK
  <2>4. TypeOK'
    BY <1>6, <2>1, <2>3 DEF executeTransaction, Dequeued, TypeOK, InRange
  <2>5. QueuedInTime' /\ NoReplay'
    BY <1>6 DEF executeTransaction, Dequeued, TypeOK
  <2>6. SpentInPast'
    BY <1>6 DEF executeTransaction, SpentInPast
  <2> QED BY <2>3, <2>4, <2>5, <2>6
<1>7. CASE UNCHANGED vars
  BY <1>7 DEF vars, TypeOK, InRange, SpentInPast
<1> QED BY <1>1, <1>2, <1>3, <1>4, <1>5, <1>6, <1>7 DEF Next

\* The inductive invariant holds in every reachable state.
LEMMA Invariance == Spec => []IInv
BY InitEstablishes, NextPreserves, PTL DEF Spec

\* Every variable keeps its type and the delay stays between MINIMUM_DELAY and
\* MAXIMUM_DELAY, whatever the executed transactions set it to.
THEOREM TimelockTypeCorrect == Spec => []TypeOK
<1>1. IInv => TypeOK
  BY DEF IInv
<1> QED BY <1>1, Invariance, PTL

\* executeTransaction never runs what was queued less than MINIMUM_DELAY ago.
THEOREM MinimumDelayAlwaysRespected == Spec => []MinimumDelayRespected
<1>1. IInv => MinimumDelayRespected
  BY DEF IInv
<1> QED BY <1>1, Invariance, PTL

\* executeTransaction never runs the same transaction twice, however often it is
\* queued or a setup script run again.
THEOREM NeverReplayed == Spec => []NoReplay
<1>1. IInv => NoReplay
  BY DEF IInv
<1> QED BY <1>1, Invariance, PTL

\* Once a transaction was executed, queueTransaction takes no other with its eta.
THEOREM BatchesClose == Spec => BatchClosed
<1> DEFINE A == \A tx \in queuedTransactions' \ queuedTransactions :
                   \A x \in spent : x.eta < tx.eta
<1>1. IInv /\ [Next]_vars => [A]_vars
  <2> SUFFICES ASSUME IInv, Next PROVE A
    OBVIOUS
  <2>1. CASE Tick \/ acceptAdmin \/ \E a \in Accounts : setFirstPendingAdmin(a)
    BY <2>1 DEF Tick, acceptAdmin, setFirstPendingAdmin
  <2>2. ASSUME NEW q \in Transactions, queueTransaction(q) PROVE A
    <3> SUFFICES ASSUME NEW x \in spent PROVE x.eta < q.eta
      BY <2>2 DEF queueTransaction
    <3>1. x.eta \in Nat /\ q.eta \in Nat /\ now \in Nat /\ x.eta <= now
      BY TransactionsAssumption DEF IInv, TypeOK, SpentInPast
    <3>2. delay \in Nat /\ delay >= 1
      BY TimelockAssumption DEF IInv, TypeOK, InRange
    <3> QED BY <2>2, <3>1, <3>2 DEF queueTransaction
  <2>3. ASSUME NEW q \in Transactions, cancelTransaction(q) \/ executeTransaction(q)
        PROVE  A
    BY <2>3 DEF cancelTransaction, executeTransaction, Dequeued
  <2> QED BY <2>1, <2>2, <2>3 DEF Next
<1> QED BY <1>1, Invariance, PTL DEF Spec, BatchClosed

\* The step behind GovernanceIsAnnounced: the executed transaction is still
\* queued, in time, in the state it executes in.
LEMMA ExecutedIsAnnounced ==
    ASSUME IInv, NEW tx \in Transactions, executeTransaction(tx)
    PROVE  Announced(tx.call)
<1>1. tx.eta \in Nat /\ queuedAt[tx] \in Nat /\ now \in Nat
  BY TransactionsAssumption DEF IInv, TypeOK
<1>2. tx \in queuedTransactions /\ queuedAt[tx] + MINIMUM_DELAY <= now
  BY <1>1, TimelockAssumption DEF executeTransaction, IInv, QueuedInTime
<1> QED BY <1>2 DEF Announced

\* Neither the delay nor, once initialised, the pending admin changes without
\* having been queued for MINIMUM_DELAY.
THEOREM GovernanceAlwaysAnnounced == Spec => GovernanceIsAnnounced
<1> DEFINE A == /\ delay' # delay => Announced([op |-> "setDelay", arg |-> delay'])
                /\ pendingAdmin' \notin {pendingAdmin, NoAddress} /\ admin_initialized
                     => Announced([op |-> "setPendingAdmin", arg |-> pendingAdmin'])
<1>1. IInv /\ [Next]_vars => [A]_vars
  <2> SUFFICES ASSUME IInv, Next PROVE A
    OBVIOUS
  <2>1. CASE Tick \/ acceptAdmin
    BY <2>1 DEF Tick, acceptAdmin
  <2>2. ASSUME NEW a \in Accounts, setFirstPendingAdmin(a) PROVE A
    BY <2>2, TimelockAssumption DEF setFirstPendingAdmin, setPendingAdmin, IInv, TypeOK
  <2>3. ASSUME NEW tx \in Transactions, queueTransaction(tx) \/ cancelTransaction(tx)
        PROVE A
    BY <2>3 DEF queueTransaction, cancelTransaction
  <2>4. ASSUME NEW tx \in Transactions, executeTransaction(tx) PROVE A
    <3>1. Announced(tx.call)
      BY <2>4, ExecutedIsAnnounced
    <3>2. tx.call \in Calls
      BY TransactionsAssumption
    <3>3. CASE tx.call.op = "setDelay" /\ setDelay(tx.call.arg)
      <4>1. tx.call = [op |-> "setDelay", arg |-> delay']
        BY <3>2, <3>3 DEF Calls, setDelay
      <4> QED BY <3>1, <3>3, <4>1 DEF setDelay
    <3>4. CASE tx.call.op = "setPendingAdmin" /\ setPendingAdmin(Self, tx.call.arg)
      <4>1. tx.call = [op |-> "setPendingAdmin", arg |-> pendingAdmin']
        BY <3>2, <3>4 DEF Calls, setPendingAdmin
      <4> QED BY <3>1, <3>4, <4>1 DEF setPendingAdmin
    <3>5. CASE UNCHANGED <<delay, pendingAdmin, admin_initialized>>
      BY <3>5
    <3> QED BY <2>4, <3>3, <3>4, <3>5 DEF executeTransaction, Dispatch
  <2> QED BY <2>1, <2>2, <2>3, <2>4 DEF Next
<1> QED BY <1>1, Invariance, PTL DEF Spec, GovernanceIsAnnounced
-----------------------------------------------------------------------------
(* The setup scripts and the timelock: whatever scripts run, crash, throw  *)
(* and are run again, the timelock only sees steps of its own              *)
(* specification, so that what is proved of it holds with the scripts.     *)

\* A script sends only transactions the timelock knows.
ScriptsOK == script \in Scripts /\ runs \in Nat
               /\ todo \in Seq(Transactions) /\ sent \in Seq(Transactions)

\* The scripts' own state keeps its type.
LEMMA ScriptsPreserve == ScriptsOK /\ [SetupNext]_<<vars, scriptVars>> => ScriptsOK'
<1> SUFFICES ASSUME ScriptsOK, [SetupNext]_<<vars, scriptVars>> PROVE ScriptsOK'
  OBVIOUS
<1>1. CASE RunScript
  <2>1. runs' \in 1..MaxRuns
    BY <1>1, ScriptsAssumption DEF RunScript, ScriptsOK
  <2>2. Program(script, runs') \in Seq(Transactions)
    BY <2>1, ScriptsAssumption DEF ScriptsOK
  <2> QED BY <1>1, <2>1, <2>2 DEF RunScript, ScriptsOK
<1>2. CASE Submit
  <2>1. Head(todo) \in Transactions /\ Tail(todo) \in Seq(Transactions)
    BY <1>2 DEF Submit, ScriptsOK
  <2> QED BY <1>2, <2>1 DEF Submit, ScriptsOK
<1>3. CASE Interrupt
  BY <1>3 DEF Interrupt, ScriptsOK
<1>4. CASE MineQueue
  BY <1>4 DEF MineQueue, ScriptsOK
<1>5. CASE QueueByHand \/ ByHand
  BY <1>5 DEF QueueByHand, ByHand, ScriptsOK, scriptVars
<1>6. CASE UNCHANGED <<vars, scriptVars>>
  BY <1>6 DEF ScriptsOK, scriptVars
<1> QED BY <1>1, <1>2, <1>3, <1>4, <1>5, <1>6 DEF SetupNext

\* A step of a script or of the admin is a step of the timelock or none.
LEMMA StepsAreTimelockSteps ==
    ScriptsOK /\ [SetupNext]_<<vars, scriptVars>> => [Next]_vars
<1> SUFFICES ASSUME ScriptsOK, [SetupNext]_<<vars, scriptVars>> PROVE [Next]_vars
  OBVIOUS
<1>1. CASE RunScript \/ Submit \/ Interrupt
  BY <1>1 DEF RunScript, Submit, Interrupt
<1>2. CASE MineQueue
  <2>1. Head(sent) \in Transactions
    BY <1>2 DEF MineQueue, ScriptsOK
  <2> QED BY <1>2, <2>1 DEF MineQueue, Next
<1>3. CASE QueueByHand \/ ByHand
  BY <1>3 DEF QueueByHand, ByHand, Next
<1>4. CASE UNCHANGED <<vars, scriptVars>>
  BY <1>4
<1> QED BY <1>1, <1>2, <1>3, <1>4 DEF SetupNext

\* The timelock together with the scripts implements the timelock: no crash, throw
\* or rerun of a script takes it where its own functions would not.
THEOREM ScriptsImplementTimelock == SetupSpec => Spec
<1>1. SetupInit => Init /\ ScriptsOK
  BY ScriptsAssumption DEF SetupInit, ScriptsOK
<1> QED BY <1>1, ScriptsPreserve, StepsAreTimelockSteps, PTL DEF SetupSpec, Spec

\* No transaction of a script executes twice, however often the script is run.
THEOREM ScriptsNeverReplay == SetupSpec => []NoReplay
BY ScriptsImplementTimelock, NeverReplayed, PTL

\* A script that is run again cannot add to a batch that has begun to execute.
THEOREM ScriptBatchesClose == SetupSpec => BatchClosed
BY ScriptsImplementTimelock, BatchesClose, PTL
=============================================================================
