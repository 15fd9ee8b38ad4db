---------------------------- MODULE MCFairLaunch ----------------------------
(* Small instances of FairLaunch: a precision of 10 and 4 basis points. *)
EXTENDS FairLaunch, TLC

CONSTANTS p1, p2, u1, u2

DoubleTil(end) == [multiplier |-> 2, endBlock |-> end, lockUpBps |-> 3]
OneBonus == {DoubleTil(2)}

\* Pools and accounts are interchangeable.
Symmetry == Permutations(Pools) \cup Permutations(Accounts)
=============================================================================
