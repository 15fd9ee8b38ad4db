------------------------------ MODULE MCVault ------------------------------
(* Small instances of Vault: BPS = 4, one time unit is a long time. *)
EXTENDS Vault, TLC

CONSTANTS u1, u2, w1, d1, d2, p1, p2

MCStakeToken == (p1 :> d1) @@ (p2 :> d2)

OneStakeToken == p1 :> d1

Slopes == [ceil1 |-> 2, ceil2 |-> 3, ceil3 |-> 4, max1 |-> 1, max2 |-> 2, max3 |-> 4]

Normal == [minDebtSize |-> 2, reservePoolBps |-> 2, killBps |-> 1, closeBps |-> 2,
           interestModel |-> Slopes,
           worker |-> [w \in Workers |->
              [isWorker |-> TRUE, acceptDebt |-> TRUE, stable |-> TRUE,
               workFactor |-> 2, killFactor |-> 3]]]

\* The worker's oracle price is out of range, or too old.
Unstable == [Normal EXCEPT !.worker = [w \in Workers |-> [@[w] EXCEPT !.stable = FALSE]]]

MCConfigs == {Normal, Unstable}
OneConfig == {Normal}

UserSymmetry == Permutations(Users)
=============================================================================
