--------------------------- MODULE TripleSlopeModel ---------------------------
(***************************************************************************)
(* The borrow rate of contracts/6/protocol/interestmodels.  The contracts  *)
(* TripleSlopeModel, HighInterestTripleSlopeModel and                      *)
(* LowInterestTripleSlopeModel are one algorithm over three sets of        *)
(* constants; a slope model is the record of these constants.              *)
(***************************************************************************)
EXTENDS Integers

CONSTANTS
    FullUtilization,  \* 100e18, the scale of a utilization
    Year              \* 365 days, in seconds

ASSUME SlopeScaleAssumption ==
    /\ FullUtilization \in Nat \ {0}
    /\ Year \in Nat \ {0}

\* The constants CEIL_SLOPE_i and MAX_INTEREST_SLOPE_i of one contract.
SlopeModel ==
    [ceil1 : Nat, ceil2 : Nat, ceil3 : Nat, max1 : Nat, max2 : Nat, max3 : Nat]

\* What the constants of the three contracts have in common.
WellFormedSlopes(m) ==
    /\ m \in SlopeModel
    /\ 0 < m.ceil1 /\ m.ceil1 <= m.ceil2 /\ m.ceil2 < m.ceil3
    /\ m.ceil3 = FullUtilization
    /\ m.max1 <= m.max2 /\ m.max2 <= m.max3

utilization(debt, floating) ==
    (debt * FullUtilization) \div (debt + floating)

\* Mutant: the third slope interpolates from zero instead of from ceil2.
YearlyRateFromZero(m, u) ==
    IF u < m.ceil1 THEN (u * m.max1) \div m.ceil1
    ELSE IF u < m.ceil2 THEN m.max2
    ELSE IF u < m.ceil3
    THEN m.max2 + (u * (m.max3 - m.max2)) \div (m.ceil3 - m.ceil2)
    ELSE m.max3

\* The rate per year at utilization u: one slope per range of u.
YearlyRate(m, u) ==
    IF u < m.ceil1 THEN (u * m.max1) \div m.ceil1
    ELSE IF u < m.ceil2 THEN m.max2
    ELSE IF u < m.ceil3
    THEN m.max2 + ((u - m.ceil2) * (m.max3 - m.max2)) \div (m.ceil3 - m.ceil2)
    ELSE m.max3

\* The rate per second.
getInterestRate(m, debt, floating) ==
    IF debt = 0 /\ floating = 0 THEN 0
    ELSE YearlyRate(m, utilization(debt, floating)) \div Year
=============================================================================
