------------------------------ MODULE Timelock ------------------------------
(***************************************************************************)
(* contracts/6/Timelock.sol, the owner of the protocol's contracts.  A     *)
(* transaction is a call with the time eta from which it may execute; the  *)
(* hash the contract keeps is the transaction itself.  A call is to the    *)
(* timelock's own setDelay or setPendingAdmin, or to another contract,     *)
(* which succeeds or reverts.                                              *)
(***************************************************************************)
EXTENDS Integers

CONSTANTS
    Accounts, NoAddress, Self,   \* admins, the zero address, the timelock
    MINIMUM_DELAY, MAXIMUM_DELAY, GRACE_PERIOD,
    Delays,                      \* arguments of setDelay
    Targets,                     \* calls of other contracts: function and argument
    Transactions,                \* the transactions the admin may queue
    MaxTime                      \* bound on the clock

ASSUME TimelockAssumption ==
    /\ MINIMUM_DELAY \in Nat \ {0} /\ MAXIMUM_DELAY \in Nat
    /\ MINIMUM_DELAY <= MAXIMUM_DELAY
    /\ GRACE_PERIOD \in Nat /\ MaxTime \in Nat /\ Delays \subseteq Nat
    /\ Self \notin Accounts /\ NoAddress \notin Accounts

Calls == [op : {"setDelay"}, arg : Delays]
           \cup [op : {"setPendingAdmin"}, arg : Accounts]
           \cup [op : {"call"}, arg : Targets]

ASSUME TransactionsAssumption == Transactions \subseteq [call : Calls, eta : Nat]

VARIABLES
    now, admin, pendingAdmin, delay, admin_initialized,
    queuedTransactions,
    queuedAt,     \* history: when each queued transaction was queued
    spent,        \* history: what was executed
    early         \* history: something executed before its time

vars == <<now, admin, pendingAdmin, delay, admin_initialized,
          queuedTransactions, queuedAt, spent, early>>
history == <<queuedAt, spent, early>>

InRange(d) == MINIMUM_DELAY <= d /\ d <= MAXIMUM_DELAY

Init ==
    /\ now = 0
    /\ admin \in Accounts /\ pendingAdmin = NoAddress
    /\ delay \in {d \in Delays : InRange(d)}
    /\ admin_initialized = FALSE
    /\ queuedTransactions = {}
    /\ queuedAt = [tx \in Transactions |-> 0]
    /\ spent = {}
    /\ early = FALSE

\* Mutant: a delay may be set below the minimum.
SetDelayUnbounded(d) ==
    /\ d <= MAXIMUM_DELAY
    /\ delay' = d
    /\ UNCHANGED <<pendingAdmin, admin_initialized>>

\* The bodies of the functions that only the timelock itself may call.
setDelay(d) ==
    /\ InRange(d)
    /\ delay' = d
    /\ UNCHANGED <<pendingAdmin, admin_initialized>>

\* Mutant: the admin keeps the right to call it directly.
SetPendingAdminByAdmin(sender, a) ==
    /\ sender \in {Self, admin}
    /\ admin_initialized' = TRUE
    /\ pendingAdmin' = a
    /\ UNCHANGED delay

setPendingAdmin(sender, a) ==
    /\ IF admin_initialized THEN sender = Self ELSE sender = admin
    /\ admin_initialized' = TRUE
    /\ pendingAdmin' = a
    /\ UNCHANGED delay

\* The one setPendingAdmin the admin calls directly, at deployment.
setFirstPendingAdmin(a) ==
    /\ setPendingAdmin(admin, a)
    /\ UNCHANGED <<now, admin, queuedTransactions, history>>

acceptAdmin ==
    /\ pendingAdmin # NoAddress
    /\ admin' = pendingAdmin
    /\ pendingAdmin' = NoAddress
    /\ UNCHANGED <<now, delay, admin_initialized, queuedTransactions, history>>

\* Mutant: the delay is not added.
QueueForNow(tx) ==
    /\ tx.eta >= now
    /\ queuedTransactions' = queuedTransactions \cup {tx}
    /\ queuedAt' = [queuedAt EXCEPT ![tx] = now]
    /\ UNCHANGED <<now, admin, pendingAdmin, delay, admin_initialized, spent, early>>

queueTransaction(tx) ==
    /\ tx.eta >= now + delay
    /\ queuedTransactions' = queuedTransactions \cup {tx}
    /\ queuedAt' = [queuedAt EXCEPT ![tx] = now]
    /\ UNCHANGED <<now, admin, pendingAdmin, delay, admin_initialized, spent, early>>

cancelTransaction(tx) ==
    /\ queuedTransactions' = queuedTransactions \ {tx}
    /\ queuedAt' = [queuedAt EXCEPT ![tx] = 0]
    /\ UNCHANGED <<now, admin, pendingAdmin, delay, admin_initialized, spent, early>>

\* What the call does; a call of setPendingAdmin before admin_initialized comes
\* from the timelock, not the admin, and reverts.
Dispatch(call) ==
    \/ call.op = "setDelay" /\ setDelay(call.arg)
    \/ call.op = "setPendingAdmin" /\ setPendingAdmin(Self, call.arg)
    \/ call.op = "call" /\ UNCHANGED <<delay, pendingAdmin, admin_initialized>>

\* Mutant: the executed transaction stays queued.
StaysQueued(tx) == queuedTransactions

Dequeued(tx) == queuedTransactions \ {tx}

executeTransaction(tx) ==
    /\ tx \in queuedTransactions
    /\ now >= tx.eta
    /\ now <= tx.eta + GRACE_PERIOD
    /\ queuedTransactions' = Dequeued(tx)
    /\ Dispatch(tx.call)
    /\ spent' = spent \cup {tx}
    /\ early' = (early \/ now < queuedAt[tx] + MINIMUM_DELAY)
    /\ queuedAt' = [queuedAt EXCEPT ![tx] = 0]
    /\ UNCHANGED <<now, admin>>

Tick ==
    /\ now < MaxTime
    /\ now' = now + 1
    /\ UNCHANGED <<admin, pendingAdmin, delay, admin_initialized,
                   queuedTransactions, history>>

Next ==
    \/ Tick
    \/ \E a \in Accounts : setFirstPendingAdmin(a)
    \/ acceptAdmin
    \/ \E tx \in Transactions :
          queueTransaction(tx) \/ cancelTransaction(tx) \/ executeTransaction(tx)

Spec == Init /\ [][Next]_vars
-----------------------------------------------------------------------------
\* Every variable keeps its type, and the delay its range.
TypeOK ==
    /\ now \in 0..MaxTime
    /\ admin \in Accounts /\ pendingAdmin \in Accounts \cup {NoAddress}
    /\ delay \in Nat /\ InRange(delay)
    /\ admin_initialized \in BOOLEAN
    /\ queuedTransactions \subseteq Transactions
    /\ queuedAt \in [Transactions -> 0..MaxTime]
    /\ spent \subseteq Transactions
    /\ early \in BOOLEAN

\* No transaction executes sooner than MINIMUM_DELAY after it was last queued,
\* even when the delay was lowered while it was waiting, or the transaction
\* cancelled and queued again.
MinimumDelayRespected == ~early

\* A transaction executes at most once, ever: what was executed is not queued, and
\* a script that is run again after its eta cannot queue it anew, because
\* queueTransaction wants an eta at least the delay ahead.
NoReplay == queuedTransactions \cap spent = {}

\* Nothing more is queued for an eta at which something was already executed: a
\* batch of transactions with one EXACT_ETA is complete, or never will be, when
\* its first transaction executes.
BatchClosed ==
    [][\A tx \in queuedTransactions' \ queuedTransactions :
          \A x \in spent : x.eta < tx.eta]_vars

Announced(call) ==
    \E tx \in queuedTransactions :
        tx.call = call /\ queuedAt[tx] + MINIMUM_DELAY <= now

\* Once the first pending admin was named, neither the delay nor the pending
\* admin changes to a new value that was not publicly queued for at least
\* MINIMUM_DELAY: no admin shortens the delay or hands over control at once.
GovernanceIsAnnounced ==
    [][/\ delay' # delay => Announced([op |-> "setDelay", arg |-> delay'])
       /\ pendingAdmin' \notin {pendingAdmin, NoAddress} /\ admin_initialized
            => Announced([op |-> "setPendingAdmin", arg |-> pendingAdmin'])]_vars
=============================================================================
