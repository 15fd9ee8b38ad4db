------------------------------- MODULE MCSuite -------------------------------
(***************************************************************************)
(* Small instances of the contracts beside the core, checked in one run:   *)
(* the initial state chooses the contract under test and only that one     *)
(* takes steps, so their state spaces add up and do not multiply.          *)
(***************************************************************************)
EXTENDS FairLaunchV2, CakeMaxiWorker, Sequences, TLC

CONSTANTS Claimants, Inputs, WordSize, Withdrawals, MaxTokens   \* MerkleDistributor

VARIABLES
    subject,    \* the contract under test
    input, published, deployed, claimedBitMap, held, paid, deposited, withdrawn

dropVars == <<input, published, deployed, claimedBitMap, held, paid, deposited, withdrawn>>

Drop == INSTANCE MerkleDistributor

SuiteInit ==
    /\ subject \in {"FairLaunchV2", "CakeMaxiWorker", "MerkleDistributor"}
    /\ Init
    /\ MaxiInit
    /\ Drop!Init
    /\ subject # "MerkleDistributor" => input.rows = <<>>

SuiteNext ==
    \/ subject = "FairLaunchV2" /\ Next /\ UNCHANGED <<subject, maxiVars, dropVars>>
    \/ subject = "CakeMaxiWorker" /\ MaxiNext /\ UNCHANGED <<subject, vars, dropVars>>
    \/ subject = "MerkleDistributor" /\ Drop!Next /\ UNCHANGED <<subject, vars, maxiVars>>

SuiteSpec == SuiteInit /\ [][SuiteNext]_<<subject, vars, maxiVars, dropVars>>

SmallPair == [base |-> 20, farm |-> 30]

\* Tables of one to five accounts, listed from the last, with their hashes in orders
\* that put every leaf at every place; and the tables parseBalanceMap refuses: an
\* empty one, an address spelled in two ways, no earnings, no address.
Row(a, spelling, earnings) == [address |-> <<a, spelling>>, earnings |-> earnings]
Table(n) == [k \in 1..n |-> Row(n + 1 - k, "checksum", 1 + (k % 2))]
Orders(n) == {[i \in 1..n |-> ((i + r) % n) + 1] : r \in 1..n}
               \cup {[i \in 1..n |-> ((n - i + r) % n) + 1] : r \in 1..n}
Tables ==
    {[rows |-> <<>>, order |-> <<>>],
     [rows |-> <<Row(1, "checksum", 1), Row(1, "lower", 1)>>, order |-> <<1, 2>>],
     [rows |-> <<Row(1, "checksum", 0)>>, order |-> <<1>>],
     [rows |-> <<Row(0, "invalid", 1)>>, order |-> <<1>>]}
    \cup UNION {{[rows |-> Table(n), order |-> o] : o \in Orders(n)} : n \in 1..5}

\* Accounts, pools and positions are interchangeable.
Symmetry == Permutations(Accounts) \cup Permutations(Pools) \cup Permutations(Ids)
-----------------------------------------------------------------------------
\* MerkleDistributor: the claims parseBalanceMap publishes are exactly those the
\* contract accepts.
ClaimsExact == Drop!ClaimsExact

\* MerkleDistributor: each account receives its amount once or nothing, and what it
\* did not yet receive is there to be claimed.
ClaimsCovered == Drop!ClaimsCovered
=============================================================================
