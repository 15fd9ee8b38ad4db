----------------------------- MODULE LedgerMath -----------------------------
(* Operators on amounts that several contracts' models share. *)
EXTENDS Integers, Functions

\* Math.min
Min2(a, b) == IF a <= b THEN a ELSE b

\* t is the sum of f[1], ..., f[n].
SumsTo(f, n, t) == SumFunctionOnSet(f, 1..n) = t
=============================================================================
