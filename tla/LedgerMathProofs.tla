---------------------------- MODULE LedgerMathProofs ----------------------------
EXTENDS LedgerMath, FiniteSetTheorems, WellFoundedInduction, TLAPS

(* Facts about rounded-down ratios and about sums, cited by the proofs of the *)
(* components.                                                              *)

\* \div rounds down, by less than one unit.
LEMMA FloorBounds ==
    ASSUME NEW a \in Nat, NEW b \in Nat \ {0}
    PROVE  /\ a \div b \in Nat
           /\ b * (a \div b) <= a
           /\ a < b * (a \div b) + b
OBVIOUS

\* A product grows with its factors.
LEMMA MulMono ==
    ASSUME NEW a \in Nat, NEW b \in Nat, NEW c \in Nat, b <= c
    PROVE  a * b <= a * c /\ a * b \in Nat /\ a * c \in Nat
OBVIOUS

\* Products distribute over sums.
LEMMA Distribute ==
    ASSUME NEW a \in Int, NEW b \in Int, NEW c \in Int
    PROVE  /\ a * (b + c) = a * b + a * c /\ a * (b - c) = a * b - a * c
           /\ a * b \in Int /\ a * c \in Int
OBVIOUS

\* A positive factor can be cancelled.
LEMMA MulCancel ==
    ASSUME NEW c \in Nat \ {0}, NEW a \in Int, NEW b \in Int, c * a <= c * b
    PROVE  a <= b
<1> SUFFICES ASSUME a - b >= 1 PROVE FALSE
  OBVIOUS
<1> DEFINE d == a - b
<1>1. d \in Nat /\ d >= 1 /\ a = b + d
  OBVIOUS
<1> HIDE DEF d
<1>2. c * a = c * b + c * d
  BY <1>1, Distribute
<1>3. c * 1 <= c * d
  BY <1>1, MulMono
<1>4. c * b \in Int /\ c * d \in Int
  BY <1>1
<1> QED BY <1>2, <1>3, <1>4

\* A quotient grows with the numerator.
LEMMA DivMono ==
    ASSUME NEW x \in Nat, NEW y \in Nat, NEW c \in Nat \ {0}, x <= y
    PROVE  x \div c <= y \div c
<1> DEFINE X == x \div c
           Y == y \div c
<1>1. X \in Nat /\ Y \in Nat /\ c * X <= x /\ y < c * Y + c
  BY FloorBounds
<1> HIDE DEF X, Y
<1> SUFFICES ASSUME X >= Y + 1 PROVE FALSE
  BY <1>1 DEF X, Y
<1>2. c * (Y + 1) <= c * X /\ c * X \in Nat
  BY <1>1, MulMono
<1>3. c * (Y + 1) = c * Y + c /\ c * Y \in Nat
  BY <1>1
<1> QED BY <1>1, <1>2, <1>3

\* A quotient falls as the denominator grows.
LEMMA DivAnti ==
    ASSUME NEW r \in Nat, NEW a \in Nat \ {0}, NEW b \in Nat \ {0}, a <= b
    PROVE  r \div b <= r \div a
<1> DEFINE X == r \div b
           Y == r \div a
<1>1. X \in Nat /\ Y \in Nat /\ b * X <= r /\ r < a * Y + a
  BY FloorBounds
<1> HIDE DEF X, Y
<1> SUFFICES ASSUME X >= Y + 1 PROVE FALSE
  BY <1>1 DEF X, Y
<1>2. a * (Y + 1) <= a * X /\ a * X \in Nat
  BY <1>1, MulMono
<1>3. X * a <= X * b /\ X * a = a * X /\ X * b = b * X /\ b * X \in Nat
  BY <1>1, MulMono
<1>4. a * (Y + 1) = a * Y + a /\ a * Y \in Nat
  BY <1>1
<1> QED BY <1>1, <1>2, <1>3, <1>4

\* Nothing divided is nothing.
LEMMA ZeroDiv == ASSUME NEW c \in Nat \ {0} PROVE 0 \div c = 0
OBVIOUS

\* Two terms rounded down lose at most one unit more than their sum does.
LEMMA FloorSum ==
    ASSUME NEW x \in Nat, NEW y \in Nat, NEW c \in Nat \ {0}
    PROVE  (x + y) \div c - (x \div c + y \div c) \in {0, 1}
<1> DEFINE X == x \div c
           Y == y \div c
           Z == (x + y) \div c
<1>1. /\ X \in Nat /\ Y \in Nat /\ Z \in Nat
      /\ c * X <= x /\ x < c * X + c /\ c * Y <= y /\ y < c * Y + c
      /\ c * Z <= x + y /\ x + y < c * Z + c
  BY FloorBounds
<1> HIDE DEF X, Y, Z
<1> DEFINE d == Z - (X + Y)
<1>2. d \in Int /\ c * d = c * Z - (c * X + c * Y)
  <2>1. c * (X + Y) = c * X + c * Y /\ c * (Z - (X + Y)) = c * Z - c * (X + Y)
    BY <1>1, Distribute
  <2> QED BY <1>1, <2>1
<1> HIDE DEF d
<1>3. c * X \in Int /\ c * Y \in Int /\ c * Z \in Int
  BY <1>1
<1>4. c * d < c * 2 /\ c * (0 - 1) < c * d
  BY <1>1, <1>2, <1>3
<1>5. ~(d >= 2) /\ ~(d <= 0 - 1)
  <2>1. ASSUME d >= 2 PROVE FALSE
    <3>1. d \in Nat /\ c * 2 <= c * d
      BY <1>2, <2>1, MulMono
    <3> QED BY <1>2, <1>4, <3>1
  <2>2. ASSUME d <= 0 - 1 PROVE FALSE
    <3> DEFINE e == 0 - d
    <3>1. e \in Nat /\ c * 1 <= c * e /\ c * e = 0 - c * d
      BY <1>2, <2>2, MulMono
    <3> QED BY <1>2, <1>4, <3>1
  <2> QED BY <2>1, <2>2
<1>6. d \in {0, 1}
  BY <1>2, <1>5
<1> QED BY <1>6 DEF d, X, Y, Z

\* s shares are worth no less when a share is worth no less: V / S <= W / T.
LEMMA RatioMono ==
    ASSUME NEW s \in Nat, NEW V \in Nat, NEW W \in Nat, NEW S \in Nat \ {0},
           NEW T \in Nat \ {0}, V * T <= W * S
    PROVE  (s * V) \div S <= (s * W) \div T
<1> DEFINE q == (s * V) \div S
           r == (s * W) \div T
<1>1. s * V \in Nat /\ s * W \in Nat /\ V * T \in Nat /\ W * S \in Nat
  OBVIOUS
<1>2. q \in Nat /\ S * q <= s * V /\ r \in Nat /\ s * W < T * r + T
  BY <1>1, FloorBounds
<1> HIDE DEF q, r
<1>3. S * q \in Nat /\ T * q \in Nat /\ T * r \in Nat
  BY <1>2
<1>4. T * (S * q) <= T * (s * V)
  BY <1>1, <1>2, <1>3, MulMono
<1>5. s * (V * T) <= s * (W * S)
  BY <1>1, MulMono
<1>6. /\ T * (S * q) = S * (T * q) /\ T * (s * V) = s * (V * T)
      /\ s * (W * S) = S * (s * W)
  BY <1>2
<1>7. S * (T * q) <= S * (s * W)
  <2>1. T * (S * q) \in Int /\ s * (V * T) \in Int /\ s * (W * S) \in Int
    BY <1>1, <1>3
  <2> QED BY <2>1, <1>4, <1>5, <1>6
<1>8. T * q <= s * W
  BY <1>1, <1>3, <1>7, MulCancel
<1> SUFFICES ASSUME q >= r + 1 PROVE FALSE
  BY <1>2 DEF q, r
<1>9. T * (r + 1) <= T * q /\ T * (r + 1) = T * r + T
  BY <1>2, MulMono
<1> QED BY <1>1, <1>2, <1>3, <1>8, <1>9

\* A rounded-down fraction p / q of x lies between 0 and x.
LEMMA FractionBounds ==
    ASSUME NEW x \in Nat, NEW q \in Nat \ {0}, NEW p \in 0..q
    PROVE  (x * p) \div q \in 0..x
<1>1. x * p \in Nat
  OBVIOUS
<1> DEFINE d == (x * p) \div q
<1>2. d \in Nat /\ q * d <= x * p
  BY <1>1, FloorBounds
<1>3. x * p <= x * q
  OBVIOUS
<1> HIDE DEF d
<1>4. q * d <= q * x
  BY <1>2, <1>3
<1>5. d <= x
  BY <1>4, <1>2
<1> QED BY <1>2, <1>5 DEF d

\* A part l / S of less than the whole is worth less than the whole r.
LEMMA PartBelow ==
    ASSUME NEW l \in Nat, NEW S \in Nat \ {0}, l < S, NEW r \in Nat \ {0}
    PROVE  (l * r) \div S \in 0..(r - 1)
<1> DEFINE q == (l * r) \div S
<1>1. l * r \in Nat /\ l * r < S * r
  OBVIOUS
<1>2. q \in Nat /\ S * q <= l * r
  BY <1>1, FloorBounds
<1> HIDE DEF q
<1>3. CASE q >= r
  <2>1. S * r <= S * q
    BY <1>2, <1>3, MulMono
  <2>2. S * r \in Int /\ S * q \in Int
    BY <1>2
  <2> QED BY <2>1, <2>2, <1>1, <1>2
<1>4. q \in 0..(r - 1)
  BY <1>2, <1>3
<1> QED BY <1>4 DEF q

\* Giving up s of S shares of a pool worth V pays v, rounded down: what is left
\* is worth at least as much per share, and stays at par when it was at par.
LEMMA RemoveRounds ==
    ASSUME NEW V \in Nat, NEW S \in Nat \ {0}, NEW s \in 0..S
    PROVE  /\ (s * V) \div S \in 0..V
           /\ (V - (s * V) \div S) * S >= V * (S - s)
           /\ s = S => (s * V) \div S = V
           /\ S <= V => S - s <= V - (s * V) \div S
<1> DEFINE v == (s * V) \div S
<1>1. s * V = V * s /\ s * V \in Nat
  OBVIOUS
<1>2. v \in 0..V
  BY <1>1, FractionBounds
<1>3. S * v <= s * V /\ s * V < S * v + S
  BY <1>1, FloorBounds
<1> HIDE DEF v
<1>4. (V - v) * S = V * S - S * v /\ V * (S - s) = V * S - s * V
  BY <1>2
<1>5. (V - v) * S >= V * (S - s)
  <2>1. V * S \in Int /\ S * v \in Int /\ s * V \in Int
    BY <1>2
  <2> QED BY <1>3, <1>4, <2>1
<1>6. ASSUME s = S PROVE v = V
  <2>1. S * V < S * (v + 1)
    BY <1>3, <1>6, <1>2
  <2>2. V < v + 1
    BY <2>1, <1>2
  <2> QED BY <2>2, <1>2
<1>7. ASSUME S <= V PROVE S - s <= V - v
  <2>1. V * (S - s) >= S * (S - s)
    BY <1>7
  <2>2. (V - v) * S >= (S - s) * S
    <3>1. V * (S - s) \in Int /\ S * (S - s) \in Int /\ (V - v) * S \in Int
      BY <1>2
    <3> QED BY <2>1, <1>5, <3>1
  <2> QED BY <2>2, <1>2
<1> QED BY <1>2, <1>5, <1>6, <1>7 DEF v

-----------------------------------------------------------------------------
\* Induction over the naturals for a set of them rather than for a predicate,
\* from the well-foundedness of <: every proof about sums rests on it.
LEMMA SetInduction ==
    ASSUME NEW T \in SUBSET Nat, 0 \in T, \A n \in T : n + 1 \in T
    PROVE  Nat \subseteq T
<1> DEFINE R == OpToRel(<, Nat)
           U == Nat \ T
<1>1. \A x, y \in Nat : <<x, y>> \in R <=> x < y
  BY DEF OpToRel
<1>2. IsWellFoundedOn(R, Nat)
  BY NatLessThanWellFounded
<1> HIDE DEF R
<1>3. ASSUME U # {} PROVE FALSE
  <2>1. PICK x \in U : \A y \in U : ~(<<y, x>> \in R)
    BY <1>2, <1>3, WFMin
  <2>2. x # 0 /\ x \in Nat
    BY <2>1
  <2>3. x - 1 \in Nat /\ x - 1 < x
    BY <2>2
  <2>4. x - 1 \in T
    BY <2>1, <2>3, <1>1
  <2> QED BY <2>1, <2>2, <2>4
<1> QED BY <1>3

\* The element a sum takes next, as the folds of the library choose it.
Pick(s) == CHOOSE x \in s : TRUE

\* h lists the sums of f over the subsets of S, taken in the order of Pick.
IsSum(h, f, S) ==
    h = [s \in SUBSET S |-> IF s = {} THEN 0 ELSE f[Pick(s)] + h[s \ {Pick(s)}]]

\* The library's sum is defined by choosing such an h.
LEMMA SumUnfold ==
    ASSUME NEW S, NEW f
    PROVE  SumFunctionOnSet(f, S) = (CHOOSE h : IsSum(h, f, S))[S]
  BY Zenon DEF SumFunctionOnSet, FoldFunctionOnSet, MapThenFoldSet, IsSum, Pick

\* Pick takes an element.
LEMMA PickIn == ASSUME NEW s, s # {} PROVE Pick(s) \in s
BY DEF Pick

\* There is such an h for every finite set: h is built up by the size of the subset.
LEMMA SumExists ==
    ASSUME NEW S, IsFiniteSet(S), NEW f, \A x \in S : f[x] \in Int
    PROVE  \E h \in [SUBSET S -> Int] : IsSum(h, f, S)
<1> DEFINE Next(h) == [s \in SUBSET S |-> IF s = {} THEN 0 ELSE f[Pick(s)] + h[s \ {Pick(s)}]]
           UpTo(h, n) == \A s \in SUBSET S : Cardinality(s) <= n => h[s] = Next(h)[s]
           T == {n \in Nat : \E h \in [SUBSET S -> Int] : UpTo(h, n)}
<1>1. ASSUME NEW s \in SUBSET S
      PROVE  IsFiniteSet(s) /\ Cardinality(s) \in Nat /\ (Cardinality(s) = 0 <=> s = {})
  BY FS_Subset, FS_CardinalityType, FS_EmptySet
<1>2. ASSUME NEW s \in SUBSET S, s # {}
      PROVE  /\ Pick(s) \in S /\ s \ {Pick(s)} \in SUBSET S
             /\ Cardinality(s \ {Pick(s)}) = Cardinality(s) - 1
  BY <1>1, <1>2, PickIn, FS_RemoveElement
<1>3. ASSUME NEW h \in [SUBSET S -> Int] PROVE Next(h) \in [SUBSET S -> Int]
  <2>1. ASSUME NEW s \in SUBSET S, s # {} PROVE f[Pick(s)] + h[s \ {Pick(s)}] \in Int
    <3>1. f[Pick(s)] \in Int /\ h[s \ {Pick(s)}] \in Int
      BY <2>1, <1>2
    <3> QED BY <3>1
  <2> QED BY <2>1
<1>4. 0 \in T
  <2> DEFINE h == [s \in SUBSET S |-> 0]
  <2>1. h \in [SUBSET S -> Int]
    OBVIOUS
  <2>2. UpTo(h, 0)
    <3> SUFFICES ASSUME NEW s \in SUBSET S, Cardinality(s) <= 0 PROVE h[s] = Next(h)[s]
      OBVIOUS
    <3>1. s = {}
      BY <1>1
    <3> QED BY <3>1
  <2> QED BY <2>1, <2>2
<1>5. ASSUME NEW n \in T PROVE n + 1 \in T
  <2>1. PICK h \in [SUBSET S -> Int] : UpTo(h, n)
    BY <1>5
  <2> DEFINE g == Next(h)
  <2>2. g \in [SUBSET S -> Int]
    BY <1>3
  <2>3. UpTo(g, n + 1)
    <3> SUFFICES ASSUME NEW s \in SUBSET S, Cardinality(s) <= n + 1 PROVE g[s] = Next(g)[s]
      OBVIOUS
    <3>1. CASE s = {}
      BY <3>1
    <3>2. CASE s # {}
      <4> DEFINE r == s \ {Pick(s)}
      <4>1. r \in SUBSET S /\ Cardinality(r) <= n
        BY <3>2, <1>1, <1>2
      <4>2. h[r] = Next(h)[r]
        BY <4>1, <2>1
      <4>3. g[s] = f[Pick(s)] + h[r] /\ Next(g)[s] = f[Pick(s)] + g[r]
        BY <3>2
      <4> HIDE DEF r
      <4> QED BY <4>2, <4>3
    <3> QED BY <3>1, <3>2
  <2> HIDE DEF UpTo, g
  <2>4. n + 1 \in Nat
    OBVIOUS
  <2> QED BY <2>2, <2>3, <2>4
<1>6. Cardinality(S) \in T
  <2>1. Cardinality(S) \in Nat
    BY FS_CardinalityType
  <2> HIDE DEF T
  <2>2. T \in SUBSET Nat
    BY DEF T
  <2> QED BY <1>4, <1>5, <2>1, <2>2, SetInduction
<1>7. PICK h \in [SUBSET S -> Int] : UpTo(h, Cardinality(S))
  BY <1>6
<1>8. \A s \in SUBSET S : h[s] = Next(h)[s]
  BY <1>7, FS_Subset
<1>9. h = Next(h)
  BY <1>7, <1>8, <1>3
<1> QED BY <1>9, <1>7 DEF IsSum

\* Sums agree where the functions do, whatever sets they are restrictions from.
LEMMA SumUnique ==
    ASSUME NEW S, NEW R, IsFiniteSet(S), NEW f, NEW g, NEW h, NEW k,
           IsSum(h, f, S), IsSum(k, g, R),
           S \subseteq R, \A x \in S : f[x] = g[x]
    PROVE  h[S] = k[S]
<1> DEFINE T == {n \in Nat : \A s \in SUBSET S : Cardinality(s) = n => h[s] = k[s]}
<1>1. \A s \in SUBSET S : IsFiniteSet(s) /\ (Cardinality(s) = 0 <=> s = {})
  BY FS_Subset, FS_EmptySet
<1>2. 0 \in T
  <2>1. h[{}] = 0 /\ k[{}] = 0
    BY DEF IsSum
  <2> QED BY <2>1, <1>1
<1>3. ASSUME NEW n \in T PROVE n + 1 \in T
  <2> SUFFICES ASSUME NEW s \in SUBSET S, Cardinality(s) = n + 1 PROVE h[s] = k[s]
    OBVIOUS
  <2>1. s # {} /\ Pick(s) \in s
    BY <1>1, PickIn
  <2> DEFINE r == s \ {Pick(s)}
  <2>2. r \in SUBSET S /\ Cardinality(r) = n
    <3>1. Cardinality(r) = Cardinality(s) - 1
      BY <2>1, <1>1, FS_RemoveElement
    <3>2. n \in Nat
      OBVIOUS
    <3> QED BY <3>1, <3>2
  <2>3. h[r] = k[r]
    BY <2>2, <1>3
  <2>4. h[s] = f[Pick(s)] + h[r] /\ k[s] = g[Pick(s)] + k[r]
    BY <2>1 DEF IsSum
  <2> QED BY <2>1, <2>3, <2>4
<1>4. Cardinality(S) \in T
  <2>1. Cardinality(S) \in Nat
    BY FS_CardinalityType
  <2> HIDE DEF T
  <2>2. T \in SUBSET Nat
    BY DEF T
  <2> QED BY <1>2, <1>3, <2>1, <2>2, SetInduction
<1> QED BY <1>4

\* A sum is an integer, 0 over the empty set, and takes Pick's element first.
LEMMA SumStep ==
    ASSUME NEW S, IsFiniteSet(S), NEW f, \A x \in S : f[x] \in Int
    PROVE  /\ SumFunctionOnSet(f, S) \in Int
           /\ S = {} => SumFunctionOnSet(f, S) = 0
           /\ S # {} => /\ Pick(S) \in S
                        /\ SumFunctionOnSet(f, S) =
                             f[Pick(S)] + SumFunctionOnSet(f, S \ {Pick(S)})
<1>1. PICK h \in [SUBSET S -> Int] : IsSum(h, f, S)
  BY SumExists
<1> DEFINE R == S \ {Pick(S)}
<1>2. IsFiniteSet(R) /\ R \subseteq S
  BY FS_RemoveElement
<1>3. ASSUME NEW Q, Q \subseteq S PROVE SumFunctionOnSet(f, Q) = h[Q]
  <2>1. IsFiniteSet(Q)
    BY <1>3, FS_Subset
  <2>2. PICK k \in [SUBSET Q -> Int] : IsSum(k, f, Q)
    BY <1>3, <2>1, SumExists
  <2> DEFINE c == CHOOSE j : IsSum(j, f, Q)
  <2>3. IsSum(c, f, Q)
    BY <2>2
  <2> HIDE DEF c
  <2>4. c[Q] = h[Q]
    BY <1>1, <1>3, <2>1, <2>3, SumUnique
  <2> QED BY <2>4, SumUnfold DEF c
<1>4. SumFunctionOnSet(f, S) = h[S] /\ SumFunctionOnSet(f, R) = h[R]
  BY <1>2, <1>3
<1>5. S = {} => h[S] = 0
  BY <1>1 DEF IsSum
<1>6. S # {} => Pick(S) \in S /\ h[S] = f[Pick(S)] + h[R]
  BY <1>1, PickIn DEF IsSum
<1> QED BY <1>1, <1>4, <1>5, <1>6

\* Functions that agree on a set have the same sum over it.
LEMMA SumAgree ==
    ASSUME NEW S, IsFiniteSet(S), NEW f, NEW g, \A x \in S : f[x] \in Int /\ g[x] = f[x]
    PROVE  SumFunctionOnSet(g, S) = SumFunctionOnSet(f, S)
<1> DEFINE a == CHOOSE j : IsSum(j, f, S)
           b == CHOOSE j : IsSum(j, g, S)
<1>1. IsSum(a, f, S) /\ IsSum(b, g, S)
  BY SumExists
<1> HIDE DEF a, b
<1>2. a[S] = b[S]
  BY <1>1, SumUnique
<1> QED BY <1>2, SumUnfold DEF a, b

\* A sum takes any of its elements first.
LEMMA SumRemove ==
    ASSUME NEW S, IsFiniteSet(S), NEW f, \A x \in S : f[x] \in Int, NEW y \in S
    PROVE  SumFunctionOnSet(f, S) = f[y] + SumFunctionOnSet(f, S \ {y})
<1> DEFINE Sum(s) == SumFunctionOnSet(f, s)
           T == {n \in Nat : \A s \in SUBSET S : Cardinality(s) = n =>
                                \A x \in s : Sum(s) = f[x] + Sum(s \ {x})}
<1>1. ASSUME NEW s \in SUBSET S
      PROVE  /\ IsFiniteSet(s) /\ (Cardinality(s) = 0 <=> s = {})
             /\ Sum(s) \in Int
             /\ s # {} => Pick(s) \in s /\ Sum(s) = f[Pick(s)] + Sum(s \ {Pick(s)})
             /\ \A x \in s : Cardinality(s \ {x}) = Cardinality(s) - 1
  <2>1. IsFiniteSet(s) /\ \A x \in s : f[x] \in Int
    BY FS_Subset
  <2> QED BY <2>1, FS_EmptySet, SumStep, FS_RemoveElement
<1> HIDE DEF Sum
<1>2. 0 \in T
  BY <1>1
<1>3. ASSUME NEW n \in T PROVE n + 1 \in T
  <2> SUFFICES ASSUME NEW s \in SUBSET S, Cardinality(s) = n + 1, NEW x \in s
               PROVE  Sum(s) = f[x] + Sum(s \ {x})
    OBVIOUS
  <2> DEFINE c == Pick(s)
  <2>1. c \in s /\ Sum(s) = f[c] + Sum(s \ {c})
    BY <1>1
  <2>2. n \in Nat /\ Cardinality(s \ {c}) = n /\ Cardinality(s \ {x}) = n
    BY <1>1, <2>1
  <2> HIDE DEF c
  <2>3. CASE x = c
    BY <2>1, <2>3
  <2>4. CASE x # c
    <3>1. Sum(s \ {c}) = f[x] + Sum((s \ {c}) \ {x})
      BY <2>1, <2>2, <2>4, <1>3
    <3>2. Sum(s \ {x}) = f[c] + Sum((s \ {x}) \ {c})
      BY <2>1, <2>2, <2>4, <1>3
    <3>3. Sum((s \ {c}) \ {x}) = Sum((s \ {x}) \ {c})
      <4>1. (s \ {c}) \ {x} = (s \ {x}) \ {c}
        OBVIOUS
      <4> QED BY <4>1
    <3>4. f[x] \in Int /\ f[c] \in Int /\ Sum((s \ {x}) \ {c}) \in Int
      BY <1>1, <2>1
    <3> QED BY <2>1, <3>1, <3>2, <3>3, <3>4
  <2> QED BY <2>3, <2>4
<1>4. Cardinality(S) \in T
  <2>1. Cardinality(S) \in Nat
    BY FS_CardinalityType
  <2> HIDE DEF T
  <2>2. T \in SUBSET Nat
    BY DEF T
  <2> QED BY <1>2, <1>3, <2>1, <2>2, SetInduction
<1>5. Sum(S) = f[y] + Sum(S \ {y})
  BY <1>4
<1> QED BY <1>5 DEF Sum

\* What the lemmas below ask of ledgers, as predicates that need not be expanded
\* where the lemmas are cited: entries are amounts, two ledgers differ at y only,
\* a ledger is bounded by others entry by entry.
NatOn(f, S) == \A x \in S : f[x] \in Nat
Differ(f, g, S, y) == \A x \in S : f[x] \in Int /\ g[x] \in Int /\ (x # y => g[x] = f[x])
Bounded(h, a, f, g, S) ==
    \A x \in S : f[x] \in Int /\ g[x] \in Int /\ h[x] \in Int /\ h[x] <= a * f[x] + g[x]

\* Changing one term changes the sum by as much.
LEMMA SumChange ==
    ASSUME NEW S, IsFiniteSet(S), NEW f, NEW g, NEW y \in S, Differ(f, g, S, y)
    PROVE  /\ SumFunctionOnSet(f, S) \in Int
           /\ SumFunctionOnSet(g, S) = SumFunctionOnSet(f, S) - f[y] + g[y]
<1>0. \A x \in S : f[x] \in Int /\ g[x] \in Int /\ (x # y => g[x] = f[x])
  BY DEF Differ
<1> DEFINE R == S \ {y}
<1>1. IsFiniteSet(R) /\ \A x \in R : f[x] \in Int /\ g[x] = f[x]
  BY <1>0, FS_RemoveElement
<1>2. /\ SumFunctionOnSet(f, S) = f[y] + SumFunctionOnSet(f, R)
      /\ SumFunctionOnSet(g, S) = g[y] + SumFunctionOnSet(g, R)
  BY <1>0, SumRemove
<1> HIDE DEF R
<1>3. SumFunctionOnSet(g, R) = SumFunctionOnSet(f, R) /\ SumFunctionOnSet(f, R) \in Int
  BY <1>1, SumAgree, SumStep
<1> QED BY <1>0, <1>2, <1>3

\* A bound on every term that is linear in the terms of two other sums bounds
\* the sum.
LEMMA SumOrder ==
    ASSUME NEW S, IsFiniteSet(S), NEW a \in Int, NEW f, NEW g, NEW h, Bounded(h, a, f, g, S)
    PROVE  SumFunctionOnSet(h, S) <= a * SumFunctionOnSet(f, S) + SumFunctionOnSet(g, S)
<1>0. \A x \in S : f[x] \in Int /\ g[x] \in Int /\ h[x] \in Int /\ h[x] <= a * f[x] + g[x]
  BY DEF Bounded
<1> DEFINE F(s) == SumFunctionOnSet(f, s)
           G(s) == SumFunctionOnSet(g, s)
           H(s) == SumFunctionOnSet(h, s)
           T == {n \in Nat : \A s \in SUBSET S :
                                Cardinality(s) = n => H(s) <= a * F(s) + G(s)}
<1>1. ASSUME NEW s \in SUBSET S
      PROVE  /\ IsFiniteSet(s) /\ (Cardinality(s) = 0 <=> s = {})
             /\ F(s) \in Int /\ G(s) \in Int /\ H(s) \in Int
             /\ s = {} => F(s) = 0 /\ G(s) = 0 /\ H(s) = 0
             /\ s # {} => LET c == Pick(s)
                          IN  /\ c \in s /\ Cardinality(s \ {c}) = Cardinality(s) - 1
                              /\ F(s) = f[c] + F(s \ {c})
                              /\ G(s) = g[c] + G(s \ {c})
                              /\ H(s) = h[c] + H(s \ {c})
  <2>1. IsFiniteSet(s) /\ \A x \in s : f[x] \in Int /\ g[x] \in Int /\ h[x] \in Int
    BY <1>0, FS_Subset
  <2> QED BY <2>1, FS_EmptySet, SumStep, FS_RemoveElement
<1> HIDE DEF F, G, H
<1>2. 0 \in T
  <2> SUFFICES ASSUME NEW s \in SUBSET S, Cardinality(s) = 0 PROVE H(s) <= a * F(s) + G(s)
    OBVIOUS
  <2>1. s = {}
    BY <1>1
  <2>2. F(s) = 0 /\ G(s) = 0 /\ H(s) = 0
    BY <2>1, <1>1
  <2> QED BY <2>2
<1>3. ASSUME NEW n \in T PROVE n + 1 \in T
  <2> SUFFICES ASSUME NEW s \in SUBSET S, Cardinality(s) = n + 1
               PROVE  H(s) <= a * F(s) + G(s)
    OBVIOUS
  <2> DEFINE c == Pick(s)
             r == s \ {c}
  <2>1. s # {} /\ n \in Nat
    <3>1. n \in Nat /\ Cardinality(s) # 0
      OBVIOUS
    <3> QED BY <1>1, <3>1
  <2>2. /\ c \in s /\ Cardinality(r) = Cardinality(s) - 1
        /\ F(s) = f[c] + F(r) /\ G(s) = g[c] + G(r) /\ H(s) = h[c] + H(r)
    BY <1>1, <2>1
  <2> HIDE DEF c
  <2>3. r \in SUBSET S /\ Cardinality(r) = n
    BY <2>1, <2>2
  <2>4. H(r) <= a * F(r) + G(r) /\ F(r) \in Int /\ G(r) \in Int /\ H(r) \in Int
    BY <2>3, <1>3, <1>1
  <2>5. f[c] \in Int /\ g[c] \in Int /\ h[c] \in Int /\ h[c] <= a * f[c] + g[c]
    BY <1>0, <2>2
  <2> HIDE DEF r
  <2>6. a * F(s) = a * f[c] + a * F(r)
    BY <2>2, <2>4, <2>5
  <2>7. a * f[c] \in Int /\ a * F(r) \in Int
    BY <2>4, <2>5
  <2> QED BY <2>2, <2>4, <2>5, <2>6, <2>7
<1>4. Cardinality(S) \in T
  <2>1. Cardinality(S) \in Nat
    BY FS_CardinalityType
  <2> HIDE DEF T
  <2>2. T \in SUBSET Nat
    BY DEF T
  <2> QED BY <1>2, <1>3, <2>1, <2>2, SetInduction
<1>5. H(S) <= a * F(S) + G(S)
  BY <1>4
<1> QED BY <1>5 DEF F, G, H

\* A sum of naturals is at least each of its terms.
LEMMA SumOfNats ==
    ASSUME NEW S, IsFiniteSet(S), NEW f, NatOn(f, S)
    PROVE  /\ SumFunctionOnSet(f, S) \in Nat
           /\ \A x \in S : f[x] <= SumFunctionOnSet(f, S)
<1>0. \A x \in S : f[x] \in Nat
  BY DEF NatOn
<1> DEFINE z == [x \in S |-> 0]
<1>1. ASSUME NEW R \in SUBSET S PROVE SumFunctionOnSet(f, R) \in Nat
  <2>1. /\ IsFiniteSet(R) /\ Bounded(z, 1, f, z, R)
        /\ \A x \in R : f[x] \in Int
        /\ \A x \in R : z[x] \in Int
    BY <1>0, FS_Subset DEF Bounded
  <2>2. SumFunctionOnSet(f, R) \in Int /\ SumFunctionOnSet(z, R) \in Int
    BY <2>1, SumStep
  <2> HIDE DEF z
  <2>3. SumFunctionOnSet(z, R) <= 1 * SumFunctionOnSet(f, R) + SumFunctionOnSet(z, R)
    BY <2>1, SumOrder
  <2> QED BY <2>2, <2>3
<1>2. ASSUME NEW x \in S PROVE f[x] <= SumFunctionOnSet(f, S)
  <2>1. SumFunctionOnSet(f, S) = f[x] + SumFunctionOnSet(f, S \ {x})
    BY <1>0, SumRemove
  <2>2. SumFunctionOnSet(f, S \ {x}) \in Nat /\ f[x] \in Nat
    BY <1>0, <1>1
  <2> QED BY <2>1, <2>2
<1> QED BY <1>1, <1>2

\* A sum of zeros is zero.
LEMMA SumOfZeros ==
    ASSUME NEW S, IsFiniteSet(S), NEW f, \A x \in S : f[x] = 0
    PROVE  SumFunctionOnSet(f, S) = 0
<1>1. NatOn(f, S) /\ Bounded(f, -2, f, f, S)
  BY DEF NatOn, Bounded
<1>2. SumFunctionOnSet(f, S) \in Nat
  BY <1>1, SumOfNats
<1>3. SumFunctionOnSet(f, S) <= (-2) * SumFunctionOnSet(f, S) + SumFunctionOnSet(f, S)
  BY <1>1, SumOrder
<1> QED BY <1>2, <1>3

\* Sums are ordered as their terms are, one of them multiplied.
ScaledBelow(c, f, g, S) == \A x \in S : f[x] \in Int /\ g[x] \in Int /\ c * f[x] <= g[x]

\* A factor on the smaller terms carries over to their sum.
LEMMA SumScaled ==
    ASSUME NEW S, IsFiniteSet(S), NEW c \in Int, NEW f, NEW g, ScaledBelow(c, f, g, S)
    PROVE  /\ c * SumFunctionOnSet(f, S) <= SumFunctionOnSet(g, S)
           /\ SumFunctionOnSet(f, S) \in Int /\ SumFunctionOnSet(g, S) \in Int
<1> DEFINE z == [x \in S |-> 0]
           m == 0 - c
<1>1. ASSUME NEW x \in S
      PROVE  f[x] \in Int /\ g[x] \in Int /\ z[x] = 0 /\ 0 <= m * f[x] + g[x]
  <2>1. f[x] \in Int /\ g[x] \in Int /\ c * f[x] <= g[x]
    BY DEF ScaledBelow
  <2>2. m * f[x] = 0 - c * f[x] /\ c * f[x] \in Int
    BY <2>1
  <2> QED BY <2>1, <2>2
<1>2. Bounded(z, m, f, g, S)
  BY <1>1 DEF Bounded
<1>3. /\ \A x \in S : f[x] \in Int
      /\ \A x \in S : g[x] \in Int
      /\ \A x \in S : z[x] = 0
  BY <1>1
<1>4. m \in Int
  OBVIOUS
<1> HIDE DEF z, m
<1>5. SumFunctionOnSet(f, S) \in Int /\ SumFunctionOnSet(g, S) \in Int
  BY <1>3, SumStep
<1>6. SumFunctionOnSet(z, S) <= m * SumFunctionOnSet(f, S) + SumFunctionOnSet(g, S)
  BY <1>2, <1>4, SumOrder
<1>7. SumFunctionOnSet(z, S) = 0
  BY <1>3, SumOfZeros
<1> DEFINE F == SumFunctionOnSet(f, S)
<1>8. m * F = 0 - c * F /\ c * F \in Int
  <2>1. F \in Int
    BY <1>5
  <2> HIDE DEF F
  <2> QED BY <2>1 DEF m
<1> QED BY <1>5, <1>6, <1>7, <1>8

\* The sum over one element is its term.
LEMMA SumOfOne ==
    ASSUME NEW x, NEW f, f[x] \in Int
    PROVE  SumFunctionOnSet(f, {x}) = f[x]
<1>1. IsFiniteSet({x}) /\ IsFiniteSet({})
  BY FS_Singleton, FS_EmptySet
<1>2. \A y \in {x} : f[y] \in Int
  OBVIOUS
<1>3. SumFunctionOnSet(f, {x}) = f[x] + SumFunctionOnSet(f, {x} \ {x})
  BY <1>1, <1>2, SumRemove
<1>4. {x} \ {x} = {}
  OBVIOUS
<1>5. SumFunctionOnSet(f, {}) = 0
  BY <1>1, SumOfZeros
<1> QED BY <1>3, <1>4, <1>5

\* Zeros may be left out of a sum.
LEMMA SumExtend ==
    ASSUME NEW T, IsFiniteSet(T), NEW S, S \subseteq T, NEW f, NEW g,
           \A x \in S : f[x] \in Int /\ g[x] = f[x], \A x \in T : x \notin S => g[x] = 0
    PROVE  SumFunctionOnSet(g, T) = SumFunctionOnSet(f, S)
<1> DEFINE G(r) == SumFunctionOnSet(g, r)
           N == {n \in Nat : \A r \in SUBSET T : S \subseteq r /\ Cardinality(r \ S) = n
                                => G(r) = G(S)}
<1>1. \A x \in T : g[x] \in Int
  OBVIOUS
<1>2. ASSUME NEW r \in SUBSET T
      PROVE  /\ IsFiniteSet(r) /\ IsFiniteSet(r \ S) /\ G(r) \in Int
             /\ (Cardinality(r \ S) = 0 <=> r \ S = {})
             /\ \A x \in r : G(r) = g[x] + G(r \ {x})
  <2>1. IsFiniteSet(r) /\ IsFiniteSet(r \ S) /\ \A x \in r : g[x] \in Int
    BY <1>1, FS_Subset
  <2> QED BY <2>1, FS_EmptySet, SumStep, SumRemove
<1> HIDE DEF G
<1>3. 0 \in N
  <2> SUFFICES ASSUME NEW r \in SUBSET T, S \subseteq r, Cardinality(r \ S) = 0
               PROVE  G(r) = G(S)
    OBVIOUS
  <2>1. r \ S = {}
    BY <1>2
  <2>2. r = S
    BY <2>1
  <2> QED BY <2>2
<1>4. ASSUME NEW n \in N PROVE n + 1 \in N
  <2> SUFFICES ASSUME NEW r \in SUBSET T, S \subseteq r, Cardinality(r \ S) = n + 1
               PROVE  G(r) = G(S)
    OBVIOUS
  <2>1. n \in Nat
    OBVIOUS
  <2>2. r \ S # {}
    <3>1. Cardinality(r \ S) # 0
      BY <2>1
    <3> QED BY <1>2, <3>1
  <2>3. PICK x \in r : x \notin S
    BY <2>2
  <2> DEFINE q == r \ {x}
  <2>4. q \in SUBSET T /\ S \subseteq q /\ q \ S = (r \ S) \ {x}
    BY <2>3
  <2>5. Cardinality((r \ S) \ {x}) = Cardinality(r \ S) - 1
    BY <1>2, <2>3, FS_RemoveElement
  <2>6. G(q) = G(S)
    BY <2>1, <2>4, <2>5, <1>4
  <2>7. G(r) = g[x] + G(q) /\ g[x] = 0
    BY <1>2, <2>3
  <2>8. G(S) \in Int
    BY <1>2
  <2> QED BY <2>6, <2>7, <2>8
<1>5. Cardinality(T \ S) \in N
  <2>1. Cardinality(T \ S) \in Nat
    BY <1>2, FS_CardinalityType
  <2> HIDE DEF N
  <2>2. N \in SUBSET Nat
    BY DEF N
  <2> QED BY <1>3, <1>4, <2>1, <2>2, SetInduction
<1>6. G(T) = G(S)
  BY <1>5
<1>7. IsFiniteSet(S)
  BY FS_Subset
<1>8. G(S) = SumFunctionOnSet(f, S)
  BY <1>7, SumAgree DEF G
<1> QED BY <1>6, <1>8 DEF G

\* Updating a ledger at one place changes its sum by as much.
LEMMA SumUpdate ==
    ASSUME NEW n \in Nat, NEW t \in Nat, NEW f \in [1..n -> Nat],
           NEW k \in 1..n, NEW v \in Nat, SumsTo(f, n, t)
    PROVE  /\ f[k] <= t
           /\ SumsTo([f EXCEPT ![k] = v], n, t - f[k] + v)
<1> DEFINE S == 1..n
           g == [f EXCEPT ![k] = v]
<1>1. IsFiniteSet(S) /\ k \in S
  BY FS_Interval
<1>2. NatOn(f, S) /\ Differ(f, g, S, k) /\ g[k] = v
  BY DEF NatOn, Differ
<1>3. SumFunctionOnSet(f, S) = t
  BY DEF SumsTo
<1> HIDE DEF g, S
<1>4. f[k] <= t
  BY <1>1, <1>2, <1>3, SumOfNats
<1>5. SumFunctionOnSet(g, S) = SumFunctionOnSet(f, S) - f[k] + g[k]
  BY <1>1, <1>2, SumChange
<1> QED BY <1>2, <1>3, <1>4, <1>5 DEF SumsTo, g, S

\* A ledger of zeros sums to zero.
LEMMA SumsToZero ==
    ASSUME NEW n \in Nat, NEW f, \A i \in 1..n : f[i] = 0
    PROVE  SumsTo(f, n, 0)
<1> DEFINE S == 1..n
<1>1. IsFiniteSet(S)
  BY FS_Interval
<1>2. \A x \in S : f[x] = 0
  OBVIOUS
<1> HIDE DEF S
<1>3. SumFunctionOnSet(f, S) = 0
  BY <1>1, <1>2, SumOfZeros
<1> QED BY <1>3 DEF SumsTo, S
=============================================================================
