---------------------------- MODULE SeriesProofs ----------------------------
(***************************************************************************)
(* Facts about the features of a series, for series of any length: what    *)
(* the recursive sums of Classification come to, and what follows for      *)
(* variance, roots, percentiles and slopes.                                *)
(***************************************************************************)
EXTENDS Classification, DecisionProofs

-----------------------------------------------------------------------------
(* Induction, as a statement about sets of naturals. *)

LEMMA InductionOnSet ==
    ASSUME NEW T \in SUBSET Nat, 0 \in T, \A n \in Nat : n \in T => n + 1 \in T
    PROVE  Nat \subseteq T
<1> SUFFICES ASSUME Nat \ T # {} PROVE FALSE
  OBVIOUS
<1>1. PICK m \in Nat \ T : \A t \in Nat \ T : m <= t
  BY LeastNatural
<1>2. m # 0 /\ m - 1 \in Nat
  BY <1>1
<1>3. m - 1 \in T
  BY <1>1, <1>2
<1> QED
  BY <1>1, <1>2, <1>3

-----------------------------------------------------------------------------
(* Sums. *)

\* f holds the sums of the beginnings of s.
IsSums(f, s) ==
    /\ f \in [0 .. Len(s) -> Int]
    /\ f[0] = 0
    /\ \A i \in 1 .. Len(s) : f[i] = f[i - 1] + s[i]

LEMMA SumsExist ==
    ASSUME NEW s \in Seq(Int)
    PROVE  \E f : IsSums(f, s)
<1> DEFINE upTo(f, n) == /\ f \in [0 .. n -> Int]
                         /\ f[0] = 0
                         /\ \A i \in 1 .. n : f[i] = f[i - 1] + s[i]
           T == {n \in Nat : n <= Len(s) => \E f : upTo(f, n)}
<1>1. 0 \in T
  <2>1. upTo([i \in 0 .. 0 |-> 0], 0)
    OBVIOUS
  <2> QED
    BY <2>1
<1>2. ASSUME NEW n \in Nat, n \in T PROVE n + 1 \in T
  <2> HIDE DEF upTo
  <2> SUFFICES ASSUME n + 1 <= Len(s) PROVE \E f : upTo(f, n + 1)
    OBVIOUS
  <2>1. PICK f : upTo(f, n)
    BY <1>2
  <2> USE DEF upTo
  <2> DEFINE g == [i \in 0 .. n + 1 |-> IF i = n + 1 THEN f[n] + s[n + 1] ELSE f[i]]
  <2>2. s[n + 1] \in Int /\ f[n] \in Int
    BY <2>1
  <2>3. g \in [0 .. n + 1 -> Int] /\ g[0] = 0
    BY <2>1, <2>2
  <2>4. \A i \in 1 .. n + 1 : g[i] = g[i - 1] + s[i]
    BY <2>1
  <2> QED
    BY <2>3, <2>4
<1>3. Len(s) \in T
  <2> HIDE DEF T
  <2>1. T \in SUBSET Nat
    BY DEF T
  <2>2. Nat \subseteq T
    BY <1>1, <1>2, <2>1, InductionOnSet
  <2> QED
    BY <2>2
<1> QED
  BY <1>3 DEF IsSums

LEMMA SeriesSumDef ==
    ASSUME NEW s \in Seq(Int)
    PROVE  \E f : IsSums(f, s) /\ SeriesSum(s) = f[Len(s)]
<1> DEFINE Unfolds(f) == f = [i \in 0 .. Len(s) |-> IF i = 0 THEN 0 ELSE f[i - 1] + s[i]]
           g == CHOOSE f : Unfolds(f)
<1>1. \E f : Unfolds(f)
  <2>1. PICK f : IsSums(f, s)
    BY SumsExist
  <2>2. Unfolds(f)
    BY <2>1 DEF IsSums
  <2> QED
    BY <2>2
<1>2. Unfolds(g)
  BY <1>1, Zenon
<1>3. SeriesSum(s) = g[Len(s)]
  BY DEF SeriesSum
<1> HIDE DEF g
<1>4. /\ \A i \in 0 .. Len(s) : g[i] = IF i = 0 THEN 0 ELSE g[i - 1] + s[i]
      /\ DOMAIN g = 0 .. Len(s)
  BY <1>2
<1> DEFINE T == {n \in Nat : n <= Len(s) => g[n] \in Int}
<1>5. 0 \in T
  BY <1>4
<1>6. ASSUME NEW n \in Nat, n \in T PROVE n + 1 \in T
  <2> SUFFICES ASSUME n + 1 <= Len(s) PROVE g[n + 1] \in Int
    OBVIOUS
  <2>1. g[n] \in Int /\ s[n + 1] \in Int
    BY <1>6
  <2>2. g[n + 1] = g[n] + s[n + 1]
    BY <1>4
  <2> QED
    BY <2>1, <2>2
<1>7. Nat \subseteq T
  <2>1. T \in SUBSET Nat
    OBVIOUS
  <2> HIDE DEF T
  <2> QED
    BY <1>5, <1>6, <2>1, InductionOnSet
<1>8. IsSums(g, s)
  <2>1. \A i \in 0 .. Len(s) : g[i] \in Int
    BY <1>7
  <2>2. g \in [0 .. Len(s) -> Int]
    BY <1>2, <2>1
  <2> QED
    BY <1>4, <2>2 DEF IsSums
<1> QED
  BY <1>3, <1>8

\* c s = a t + b u, item by item.
IsCombination(s, t, u, a, b, c) ==
    /\ s \in Seq(Int) /\ t \in Seq(Int) /\ u \in Seq(Int)
    /\ Len(t) = Len(s) /\ Len(u) = Len(s)
    /\ a \in Int /\ b \in Int /\ c \in Int
    /\ \A i \in 1 .. Len(s) : c * s[i] = a * t[i] + b * u[i]

\* What holds item by item holds of the sums.
LEMMA SumIsLinear ==
    ASSUME NEW s, NEW t, NEW u, NEW a, NEW b, NEW c, IsCombination(s, t, u, a, b, c)
    PROVE  /\ SeriesSum(s) \in Int /\ SeriesSum(t) \in Int /\ SeriesSum(u) \in Int
           /\ c * SeriesSum(s) = a * SeriesSum(t) + b * SeriesSum(u)
<1> USE DEF IsCombination
<1>1. PICK f : IsSums(f, s) /\ SeriesSum(s) = f[Len(s)]
  BY SeriesSumDef
<1>2. PICK g : IsSums(g, t) /\ SeriesSum(t) = g[Len(s)]
  BY SeriesSumDef
<1>3. PICK h : IsSums(h, u) /\ SeriesSum(u) = h[Len(s)]
  BY SeriesSumDef
<1>4. \A i \in 0 .. Len(s) : f[i] \in Int /\ g[i] \in Int /\ h[i] \in Int
  BY <1>1, <1>2, <1>3 DEF IsSums
<1> DEFINE T == {n \in Nat : n <= Len(s) => c * f[n] = a * g[n] + b * h[n]}
<1>5. 0 \in T
  BY <1>1, <1>2, <1>3 DEF IsSums
<1>6. ASSUME NEW n \in Nat, n \in T PROVE n + 1 \in T
  <2> SUFFICES ASSUME n + 1 <= Len(s)
               PROVE  c * f[n + 1] = a * g[n + 1] + b * h[n + 1]
    OBVIOUS
  <2>1. n \in 0 .. Len(s) /\ n + 1 \in 1 .. Len(s) /\ (n + 1) - 1 = n
    OBVIOUS
  <2>2. f[n + 1] = f[n] + s[n + 1]
    BY <1>1, <2>1 DEF IsSums
  <2>3. g[n + 1] = g[n] + t[n + 1]
    BY <1>2, <2>1 DEF IsSums
  <2>4. h[n + 1] = h[n] + u[n + 1]
    BY <1>3, <2>1 DEF IsSums
  <2>5. f[n] \in Int /\ g[n] \in Int /\ h[n] \in Int
    BY <1>4, <2>1
  <2>6. s[n + 1] \in Int /\ t[n + 1] \in Int /\ u[n + 1] \in Int
    <3>1. n + 1 \in 1 .. Len(t) /\ n + 1 \in 1 .. Len(u)
      BY <2>1
    <3> QED
      BY <2>1, <3>1
  <2>7. c * s[n + 1] = a * t[n + 1] + b * u[n + 1]
    BY <2>1
  <2>8. c * f[n] = a * g[n] + b * h[n]
    BY <1>6
  <2> DEFINE p == f[n]
             q == g[n]
             r == h[n]
             x == s[n + 1]
             y == t[n + 1]
             z == u[n + 1]
  <2>9. c * (p + x) = a * (q + y) + b * (r + z)
    <3>1. /\ p \in Int /\ q \in Int /\ r \in Int /\ x \in Int /\ y \in Int /\ z \in Int
          /\ c * p = a * q + b * r /\ c * x = a * y + b * z
      BY <2>5, <2>6, <2>7, <2>8
    <3> HIDE DEF p, q, r, x, y, z
    <3>2. c * (p + x) = c * p + c * x
      BY <3>1, SMT
    <3>3. a * (q + y) = a * q + a * y
      BY <3>1, SMT
    <3>4. b * (r + z) = b * r + b * z
      BY <3>1, SMT
    <3> QED
      BY <3>1, <3>2, <3>3, <3>4
  <2> QED
    BY <2>2, <2>3, <2>4, <2>9
<1>7. Nat \subseteq T
  <2>1. T \in SUBSET Nat
    OBVIOUS
  <2> HIDE DEF T
  <2> QED
    BY <1>5, <1>6, <2>1, InductionOnSet
<1> QED
  BY <1>1, <1>2, <1>3, <1>4, <1>7

\* A sum of naturals is a natural, and no less than its first item.
LEMMA SumOfNaturals ==
    ASSUME NEW s \in Seq(Nat)
    PROVE  /\ SeriesSum(s) \in Nat
           /\ Len(s) > 0 => SeriesSum(s) >= s[1]
<1>0. s \in Seq(Int)
  OBVIOUS
<1>1. PICK f : IsSums(f, s) /\ SeriesSum(s) = f[Len(s)]
  BY <1>0, SeriesSumDef
<1> DEFINE T == {n \in Nat : n <= Len(s) => /\ f[n] \in Nat
                                            /\ n > 0 => f[n] >= s[1]}
<1>2. 0 \in T
  BY <1>1 DEF IsSums
<1>3. ASSUME NEW n \in Nat, n \in T PROVE n + 1 \in T
  <2> SUFFICES ASSUME n + 1 <= Len(s)
               PROVE  f[n + 1] \in Nat /\ f[n + 1] >= s[1]
    OBVIOUS
  <2>1. f[n + 1] = f[n] + s[n + 1] /\ f[0] = 0
    BY <1>1 DEF IsSums
  <2>2. s[n + 1] \in Nat /\ s[1] \in Nat
    OBVIOUS
  <2>3. f[n] \in Nat /\ (n > 0 => f[n] >= s[1])
    BY <1>3
  <2> QED
    BY <2>1, <2>2, <2>3
<1>4. Nat \subseteq T
  <2>1. T \in SUBSET Nat
    OBVIOUS
  <2> HIDE DEF T
  <2> QED
    BY <1>2, <1>3, <2>1, InductionOnSet
<1> QED
  BY <1>1, <1>4

\* The sum of a constant, and of positions around the middle of the series.
LEMMA SumOfConstant ==
    ASSUME NEW n \in Nat, NEW c \in Int
    PROVE  SeriesSum([i \in 1 .. n |-> c]) = c * n
<1> DEFINE s == [i \in 1 .. n |-> c]
<1>0. s \in Seq(Int) /\ Len(s) = n
  OBVIOUS
<1>1. PICK f : IsSums(f, s) /\ SeriesSum(s) = f[n]
  <2> HIDE DEF s
  <2> QED  BY <1>0, SeriesSumDef
<1> DEFINE T == {k \in Nat : k <= n => f[k] = c * k}
<1>2. 0 \in T
  BY <1>1 DEF IsSums
<1>3. ASSUME NEW k \in Nat, k \in T PROVE k + 1 \in T
  <2> SUFFICES ASSUME k + 1 <= n PROVE f[k + 1] = c * (k + 1)
    OBVIOUS
  <2>1. f[k + 1] = f[k] + c
    BY <1>0, <1>1 DEF IsSums
  <2>2. f[k] = c * k
    BY <1>3
  <2> QED
    BY <2>1, <2>2
<1>4. Nat \subseteq T
  <2>1. T \in SUBSET Nat
    OBVIOUS
  <2> HIDE DEF T
  <2> QED
    BY <1>2, <1>3, <2>1, InductionOnSet
<1> QED
  BY <1>1, <1>4

LEMMA SumOfPositions ==
    ASSUME NEW n \in Nat
    PROVE  SeriesSum([i \in 1 .. n |-> 2 * i - n - 1]) = 0
<1> DEFINE s == [i \in 1 .. n |-> 2 * i - n - 1]
<1>0. s \in Seq(Int) /\ Len(s) = n
  OBVIOUS
<1>1. PICK f : IsSums(f, s) /\ SeriesSum(s) = f[n]
  <2> HIDE DEF s
  <2> QED  BY <1>0, SeriesSumDef
<1> DEFINE T == {k \in Nat : k <= n => f[k] = k * (k - n)}
<1>2. 0 \in T
  BY <1>1 DEF IsSums
<1>3. ASSUME NEW k \in Nat, k \in T PROVE k + 1 \in T
  <2> SUFFICES ASSUME k + 1 <= n PROVE f[k + 1] = (k + 1) * (k + 1 - n)
    OBVIOUS
  <2>1. f[k + 1] = f[k] + (2 * (k + 1) - n - 1)
    BY <1>0, <1>1 DEF IsSums
  <2>2. f[k] = k * (k - n)
    BY <1>3
  <2>3. k * (k - n) + (2 * (k + 1) - n - 1) = (k + 1) * (k + 1 - n)
    BY SMT
  <2> QED
    BY <2>1, <2>2, <2>3
<1>4. Nat \subseteq T
  <2>1. T \in SUBSET Nat
    OBVIOUS
  <2> HIDE DEF T
  <2> QED
    BY <1>2, <1>3, <2>1, InductionOnSet
<1>5. f[n] = n * (n - n)
  BY <1>4
<1> QED
  BY <1>1, <1>5

-----------------------------------------------------------------------------
(* Variance, roots, percentiles. *)

LEMMA SquareIsNatural ==
    ASSUME NEW x \in Int
    PROVE  x * x \in Nat
<1>1. CASE x >= 0
  BY <1>1, SMT
<1>2. CASE x < 0
  BY <1>2, SMT
<1> QED
  BY <1>1, <1>2

LEMMA QuotientNatural ==
    ASSUME NEW a \in Nat, NEW b \in Nat \ {0}
    PROVE  a \div b \in Nat
  BY SMT

LEMMA TimesNatural ==
    ASSUME NEW a \in Nat, NEW b \in Nat
    PROVE  a * b \in Nat
  BY SMT

\* One more item keeps j * sum of squares above the square of the sum.
LEMMA SpreadStep ==
    ASSUME NEW j \in Nat, NEW q \in Int, NEW f \in Int, NEW x \in Int,
           j * q - f * f >= 0, j = 0 => q = 0 /\ f = 0
    PROVE  (j + 1) * (q + x * x) - (f + x) * (f + x) >= 0
<1> DEFINE rest == q + j * (x * x) - 2 * (f * x)
           d == f - j * x
<1>1. rest \in Int /\ d \in Int
  BY SMT
<1>2. (j + 1) * (q + x * x) - (f + x) * (f + x) = (j * q - f * f) + rest
  BY SMT
<1>3. rest >= 0
  <2>1. CASE j = 0
    BY <2>1
  <2>2. CASE j > 0
    <3>1. d * d >= 0
      <4> HIDE DEF d
      <4> QED  BY <1>1, SquareIsNatural
    <3>2. j * rest = (j * q - f * f) + d * d
      BY SMT
    <3>3. j * rest >= 0
      <4>1. d * d \in Int /\ j * q - f * f \in Int
        BY SMT
      <4> HIDE DEF d, rest
      <4> QED  BY <3>1, <3>2, <4>1
    <3> HIDE DEF rest
    <3> QED  BY <1>1, <2>2, <3>3, SMT
  <2> QED
    BY <2>1, <2>2
<1>4. j * q - f * f \in Int
  BY SMT
<1> HIDE DEF rest
<1> QED
  BY <1>1, <1>2, <1>3, <1>4

\* The variance of a series is not negative.
LEMMA SpreadNatural ==
    ASSUME NEW s \in Seq(Int)
    PROVE  Spread(s) \in Nat
<1> DEFINE n == Len(s)
           t == [i \in 1 .. n |-> s[i] * s[i]]
<1>0. n \in Nat /\ \A i \in 1 .. n : s[i] \in Int
  OBVIOUS
<1>1. t \in Seq(Int) /\ Len(t) = n /\ \A i \in 1 .. n : t[i] = s[i] * s[i]
  <2>1. \A i \in 1 .. n : s[i] * s[i] \in Int
    BY <1>0, SMT
  <2> QED
    BY <1>0, <2>1
<1> HIDE DEF t, n
<1>2. PICK f : IsSums(f, s) /\ SeriesSum(s) = f[n]
  BY SeriesSumDef DEF n
<1>3. PICK q : IsSums(q, t) /\ SeriesSum(t) = q[n]
  BY <1>1, SeriesSumDef
<1>4. \A i \in 0 .. n : f[i] \in Int /\ q[i] \in Int
  BY <1>1, <1>2, <1>3 DEF IsSums, n
<1>5. f[0] = 0 /\ q[0] = 0
  BY <1>2, <1>3 DEF IsSums
<1> DEFINE T == {j \in Nat : j <= n => j * q[j] - f[j] * f[j] >= 0}
<1>6. 0 \in T
  BY <1>5
<1>7. ASSUME NEW j \in Nat, j \in T PROVE j + 1 \in T
  <2> SUFFICES ASSUME j + 1 <= n
               PROVE  (j + 1) * q[j + 1] - f[j + 1] * f[j + 1] >= 0
    OBVIOUS
  <2>1. j \in 0 .. n /\ j + 1 \in 1 .. n /\ (j + 1) - 1 = j
    BY <1>0
  <2> DEFINE F == f[j]
             Q == q[j]
             x == s[j + 1]
  <2>2. F \in Int /\ Q \in Int /\ x \in Int /\ j * Q - F * F >= 0
    BY <1>0, <1>4, <1>7, <2>1
  <2>3. j = 0 => F = 0 /\ Q = 0
    BY <1>5
  <2>4. f[j + 1] = F + x
    BY <1>2, <2>1 DEF IsSums, n
  <2>5. q[j + 1] = Q + x * x
    BY <1>1, <1>3, <2>1 DEF IsSums
  <2> HIDE DEF F, Q, x
  <2>6. (j + 1) * (Q + x * x) - (F + x) * (F + x) >= 0
    BY <2>2, <2>3, SpreadStep
  <2> QED
    BY <2>4, <2>5, <2>6
<1>8. Nat \subseteq T
  <2>1. T \in SUBSET Nat
    OBVIOUS
  <2> HIDE DEF T
  <2> QED
    BY <1>6, <1>7, <2>1, InductionOnSet
<1>9. n * q[n] - f[n] * f[n] >= 0 /\ f[n] \in Int /\ q[n] \in Int
  BY <1>0, <1>4, <1>8
<1>10. Spread(s) = n * q[n] - f[n] * f[n]
  BY <1>2, <1>3 DEF Spread, SquareSum, t, n
<1> DEFINE F == f[n]
           Q == q[n]
<1>11. n * Q - F * F \in Nat
  <2>1. n * Q - F * F >= 0 /\ F \in Int /\ Q \in Int
    BY <1>9
  <2> HIDE DEF F, Q
  <2> QED
    BY <1>0, <2>1, SMT
<1> QED
  BY <1>10, <1>11

\* The largest of a bounded set of naturals.
LEMMA RootInRange ==
    ASSUME NEW x \in Nat, NEW most \in Nat
    PROVE  RootUpTo(x, most) \in 0 .. most
<1> DEFINE S == {p \in 0 .. most : p * p <= x}
           T == {most - p : p \in S}
<1>1. 0 \in S
  OBVIOUS
<1>2. T \in SUBSET Nat /\ T # {}
  BY <1>1
<1>3. PICK m \in T : \A t \in T : m <= t
  <2> HIDE DEF T
  <2> QED  BY <1>2, LeastNatural
<1> HIDE DEF S
<1>4. PICK p \in S : m = most - p
  BY <1>3
<1>5. S \subseteq 0 .. most
  BY DEF S
<1>6. \A y \in S : p >= y
  <2> TAKE y \in S
  <2>1. most - p <= most - y
    BY <1>3, <1>4
  <2> QED
    BY <1>5, <2>1
<1>7. Max(S) \in S
  BY <1>6, Zenon DEF Max
<1> QED
  BY <1>5, <1>7 DEF RootUpTo, S

LEMMA SumTyped ==
    ASSUME NEW s \in Seq(Int)
    PROVE  SeriesSum(s) \in Int
  BY SeriesSumDef DEF IsSums

\* cv: the root is bounded, the guard keeps the divisor from being zero.
LEMMA CVNatural ==
    ASSUME NEW s \in Seq(Nat), Len(s) >= 1, NEW guard \in Nat \ {0}
    PROVE  CV(s, guard) \in Nat
<1> DEFINE sum == SeriesSum(s)
           n == Len(s)
           spread == Spread(s)
<1>1. n \in Nat /\ n >= 1 /\ sum \in Nat /\ spread \in Nat
  <2>1. s \in Seq(Int)
    OBVIOUS
  <2> QED
    BY <2>1, SumOfNaturals, SpreadNatural
<1> HIDE DEF sum, n, spread
<1>2. guard * n >= 1 /\ guard * n \in Nat
  BY <1>1, SMT
<1>3. CASE sum < guard * n
  BY <1>3 DEF CV, sum, n
<1>4. CASE ~(sum < guard * n)
  <2>1. sum \in Nat \ {0}
    BY <1>1, <1>2, <1>4
  <2> DEFINE perSum == (100 * spread) \div sum
  <2>2. perSum \in Nat
    <3>1. 100 * spread \in Nat
      BY <1>1
    <3> QED  BY <2>1, <3>1, QuotientNatural
  <2> HIDE DEF perSum
  <2> DEFINE square == (100 * perSum) \div sum
  <2>3. square \in Nat
    <3>1. 100 * perSum \in Nat
      BY <2>2
    <3> QED  BY <2>1, <3>1, QuotientNatural
  <2> HIDE DEF square
  <2>4. 100 * n \in Nat
    BY <1>1
  <2>5. RootUpTo(square, 100 * n) \in 0 .. 100 * n
    BY <2>3, <2>4, RootInRange, Zenon
  <2>6. CV(s, guard) = RootUpTo(square, 100 * n)
    BY <1>4 DEF CV, sum, n, spread, perSum, square
  <2> QED
    BY <2>4, <2>5, <2>6
<1> QED
  BY <1>3, <1>4

\* percentile: the rank exists.
LEMMA PercentileNatural ==
    ASSUME NEW s \in Seq(Nat), Len(s) >= 1, NEW p \in 1 .. 100
    PROVE  /\ Percentile(s, p) \in Nat
           /\ Percentile(s, p) \in {s[i] : i \in 1 .. Len(s)}
<1> DEFINE n == Len(s)
           m == p * n
<1>1. n \in Nat /\ n >= 1
  OBVIOUS
<1>2. m \in Nat /\ 1 <= m /\ m <= 100 * n
  <2> HIDE DEF n
  <2>1. p * n >= 1 * n
    BY <1>1, SMT
  <2>2. p * n <= 100 * n
    BY <1>1, SMT
  <2>3. p * n \in Int
    BY <1>1, SMT
  <2> QED
    BY <1>1, <2>1, <2>2, <2>3
<1> DEFINE k == CeilDiv(m, 100)
<1>3. k \in 1 .. n
  <2> HIDE DEF m, n
  <2> QED  BY <1>1, <1>2 DEF CeilDiv
<1> HIDE DEF k
<1>4. Ranked(s, k) \in Nat /\ Ranked(s, k) \in {s[i] : i \in 1 .. Len(s)}
  BY <1>3, RankedType DEF n
<1> QED
  BY <1>4 DEF Percentile, k

LEMMA PeakToTroughNatural ==
    ASSUME NEW s \in Seq(Nat), Len(s) >= 1, NEW guard \in Nat \ {0}
    PROVE  PeakToTrough(s, guard) \in Nat
<1> DEFINE n == Len(s)
           sum == SeriesSum(s)
           p99 == Percentile(s, 99)
<1>1. n \in Nat /\ n >= 1 /\ sum \in Nat /\ p99 \in Nat
  BY SumOfNaturals, PercentileNatural
<1> HIDE DEF n, sum, p99
<1>2. guard * n >= 1 /\ guard * n \in Nat
  BY <1>1, SMT
<1>3. Larger(sum, guard * n) \in Nat \ {0}
  BY <1>1, <1>2 DEF Larger
<1>4. 100 * p99 * n \in Nat
  BY <1>1, SMT
<1>5. (100 * p99 * n) \div Larger(sum, guard * n) \in Nat
  BY <1>3, <1>4, QuotientNatural
<1> QED
  BY <1>5 DEF PeakToTrough, n, sum, p99

LEMMA HundredfoldNatural ==
    ASSUME NEW a \in Nat, NEW b \in Nat \ {0}
    PROVE  Hundredfold(a, b) \in Nat
<1>1. a \div b \in Nat /\ a % b \in Nat
  BY SMT
<1>2. 100 * (a % b) \in Nat
  BY <1>1
<1>3. (100 * (a % b)) \div b \in Nat
  BY <1>2, QuotientNatural
<1> QED
  BY <1>1, <1>3 DEF Hundredfold

-----------------------------------------------------------------------------
(* Slopes. *)

\* Where a series has its items, in half samples from the middle.
Places(n) == [i \in 1 .. n |-> 2 * i - n - 1]
PlaceSquares(n) == SeriesSum([i \in 1 .. n |-> Places(n)[i] * Places(n)[i]])
Moment(s) == SeriesSum([i \in 1 .. Len(s) |-> Places(Len(s))[i] * s[i]])

LEMMA PlacesTyped ==
    ASSUME NEW n \in Nat
    PROVE  /\ Places(n) \in Seq(Int) /\ Len(Places(n)) = n
           /\ \A i \in 1 .. n : Places(n)[i] = 2 * i - n - 1 /\ Places(n)[i] \in Int
  BY DEF Places

LEMMA PlaceSquaresPositive ==
    ASSUME NEW n \in Nat, n >= 2
    PROVE  PlaceSquares(n) \in Nat \ {0}
<1> DEFINE p == Places(n)
           t == [i \in 1 .. n |-> p[i] * p[i]]
<1>1. \A i \in 1 .. n : p[i] \in Int /\ p[i] = 2 * i - n - 1
  BY PlacesTyped
<1> HIDE DEF p
<1>2. \A i \in 1 .. n : p[i] * p[i] \in Nat
  BY <1>1, SquareIsNatural
<1>3. t \in Seq(Nat) /\ Len(t) = n /\ t[1] = p[1] * p[1]
  BY <1>2
<1>4. p[1] = 1 - n
  BY <1>1
<1>5. (1 - n) * (1 - n) >= 1
  BY SMT
<1> HIDE DEF t
<1>6. SeriesSum(t) \in Nat /\ SeriesSum(t) >= t[1]
  BY <1>3, SumOfNaturals
<1>7. SeriesSum(t) # 0
  BY <1>3, <1>4, <1>5, <1>6
<1> QED
  BY <1>6, <1>7 DEF PlaceSquares, t, p

LEMMA MomentTyped ==
    ASSUME NEW s \in Seq(Int)
    PROVE  Moment(s) \in Int
<1> DEFINE n == Len(s)
           p == Places(n)
           t == [i \in 1 .. n |-> p[i] * s[i]]
<1>1. n \in Nat /\ \A i \in 1 .. n : s[i] \in Int
  OBVIOUS
<1> HIDE DEF n
<1>2. \A i \in 1 .. n : p[i] \in Int
  BY <1>1, PlacesTyped
<1> HIDE DEF p
<1>3. \A i \in 1 .. n : p[i] * s[i] \in Int
  BY <1>1, <1>2, SMT
<1>4. t \in Seq(Int)
  BY <1>1, <1>3
<1> QED
  BY <1>4, SumTyped DEF Moment, t, p, n

LEMMA TrendSlopeDef ==
    ASSUME NEW s \in Seq(Int), Len(s) >= 2
    PROVE  TrendSlope(s) =
             LET hourly == Hundredfold(120 * Abs(Moment(s)), PlaceSquares(Len(s)))
             IN  IF Moment(s) < 0 THEN -hourly ELSE hourly
<1> DEFINE n == Len(s)
<1>1. n \in Nat
  OBVIOUS
<1>2. [i \in 1 .. n |-> Places(n)[i] * s[i]] = [i \in 1 .. n |-> (2 * i - n - 1) * s[i]]
  BY DEF Places
<1>3. [i \in 1 .. n |-> Places(n)[i] * Places(n)[i]]
        = [i \in 1 .. n |-> (2 * i - n - 1) * (2 * i - n - 1)]
  BY DEF Places
<1>4. ~(n < 2)
  BY <1>1
<1> QED
  BY <1>2, <1>3, <1>4, Zenon DEF TrendSlope, Moment, PlaceSquares

\* trendSlope never divides by zero.
LEMMA TrendSlopeTyped ==
    ASSUME NEW s \in Seq(Int)
    PROVE  TrendSlope(s) \in Int
<1>1. CASE Len(s) < 2
  BY <1>1 DEF TrendSlope
<1>2. CASE Len(s) >= 2
  <2> DEFINE a == 120 * Abs(Moment(s))
             b == PlaceSquares(Len(s))
  <2>1. Moment(s) \in Int
    BY MomentTyped
  <2>2. a \in Nat
    BY <2>1 DEF Abs
  <2>3. b \in Nat \ {0}
    BY <1>2, PlaceSquaresPositive
  <2> HIDE DEF a, b
  <2>4. Hundredfold(a, b) \in Nat
    BY <2>2, <2>3, HundredfoldNatural
  <2>5. TrendSlope(s) = IF Moment(s) < 0 THEN -Hundredfold(a, b) ELSE Hundredfold(a, b)
    BY <1>2, TrendSlopeDef DEF a, b
  <2> QED
    BY <2>4, <2>5
<1> QED
  BY <1>1, <1>2

LEMMA ExactQuotient ==
    ASSUME NEW a \in Int, NEW b \in Nat \ {0}
    PROVE  (a * b) \div b = a /\ (a * b) % b = 0
  BY SMT

LEMMA HundredfoldExact ==
    ASSUME NEW k \in Nat, NEW b \in Nat \ {0}
    PROVE  Hundredfold(k * b, b) = 100 * k
<1>1. (k * b) \div b = k /\ (k * b) % b = 0
  BY ExactQuotient
<1>2. 0 \div b = 0
  BY SMT
<1> QED
  BY <1>1, <1>2 DEF Hundredfold

\* A series that climbs by m from item to item.
IsLine(s, c, m) == \A i \in 1 .. Len(s) : s[i] = c + m * i

LEMMA LineSums ==
    ASSUME NEW s \in Seq(Int), NEW c \in Int, NEW m \in Nat, IsLine(s, c, m)
    PROVE  /\ SeriesSum(s) \in Int /\ Moment(s) \in Int
           /\ 2 * SeriesSum(s) = (2 * c + m * (Len(s) + 1)) * Len(s)
           /\ 2 * Moment(s) = m * PlaceSquares(Len(s))
           /\ PlaceSquares(Len(s)) \in Int
<1> DEFINE n == Len(s)
           p == Places(n)
           k == 2 * c + m * (n + 1)
           ones == [i \in 1 .. n |-> 1]
           squares == [i \in 1 .. n |-> p[i] * p[i]]
           moments == [i \in 1 .. n |-> p[i] * s[i]]
<1>1. n \in Nat /\ \A i \in 1 .. n : s[i] \in Int /\ s[i] = c + m * i
  BY DEF IsLine
<1>2. s \in Seq(Int) /\ Len(s) = n
  OBVIOUS
<1> HIDE DEF n
<1>3. /\ p \in Seq(Int) /\ Len(p) = n
      /\ \A i \in 1 .. n : p[i] \in Int /\ p[i] = 2 * i - n - 1
  BY <1>1, PlacesTyped
<1>4. SeriesSum(p) = 0
  BY <1>1, SumOfPositions DEF Places
<1> HIDE DEF p
<1>5. SeriesSum(ones) = 1 * n
  <2>1. 1 \in Int
    OBVIOUS
  <2> QED
    BY <1>1, <2>1, SumOfConstant, Zenon
<1>6. ones \in Seq(Int) /\ Len(ones) = n /\ \A i \in 1 .. n : ones[i] = 1
  BY <1>1
<1>7. \A i \in 1 .. n : p[i] * p[i] \in Int /\ p[i] * s[i] \in Int
  BY <1>1, <1>3, SMT
<1>8. /\ squares \in Seq(Int) /\ Len(squares) = n
      /\ \A i \in 1 .. n : squares[i] = p[i] * p[i]
  BY <1>1, <1>7
<1>9. /\ moments \in Seq(Int) /\ Len(moments) = n
      /\ \A i \in 1 .. n : moments[i] = p[i] * s[i]
  BY <1>1, <1>7
<1>10. k \in Int
  BY <1>1, SMT
<1> HIDE DEF ones, squares, moments
<1>11. \A i \in 1 .. n : 2 * s[i] = m * p[i] + k * ones[i]
  <2> TAKE i \in 1 .. n
  <2>1. 2 * (c + m * i) = m * (2 * i - n - 1) + (2 * c + m * (n + 1)) * 1
    BY <1>1, SMT
  <2>2. s[i] = c + m * i /\ p[i] = 2 * i - n - 1 /\ ones[i] = 1
    BY <1>1, <1>3, <1>6
  <2> QED
    BY <2>1, <2>2
<1>12. \A i \in 1 .. n : 2 * moments[i] = m * squares[i] + k * p[i]
  <2> TAKE i \in 1 .. n
  <2>1. \A x \in Int : x = 2 * i - n - 1 =>
          2 * (x * (c + m * i)) = m * (x * x) + (2 * c + m * (n + 1)) * x
    BY <1>1, SMT
  <2>2. /\ s[i] = c + m * i /\ p[i] = 2 * i - n - 1 /\ p[i] \in Int
        /\ moments[i] = p[i] * s[i] /\ squares[i] = p[i] * p[i]
    BY <1>1, <1>3, <1>8, <1>9
  <2>3. 2 * (p[i] * (c + m * i)) = m * (p[i] * p[i]) + (2 * c + m * (n + 1)) * p[i]
    BY <2>1, <2>2
  <2> QED
    BY <2>2, <2>3
<1> HIDE DEF k
<1>13. SeriesSum(s) \in Int /\ 2 * SeriesSum(s) = m * SeriesSum(p) + k * SeriesSum(ones)
  <2>1. IsCombination(s, p, ones, m, k, 2)
    BY <1>2, <1>3, <1>6, <1>10, <1>11 DEF IsCombination
  <2> QED
    BY <2>1, SumIsLinear
<1>14. /\ SeriesSum(moments) \in Int /\ SeriesSum(squares) \in Int
       /\ 2 * SeriesSum(moments) = m * SeriesSum(squares) + k * SeriesSum(p)
  <2>1. IsCombination(moments, squares, p, m, k, 2)
    BY <1>3, <1>8, <1>9, <1>10, <1>12 DEF IsCombination
  <2> QED
    BY <2>1, SumIsLinear
<1>15. m * 0 = 0 /\ k * 0 = 0 /\ k * (1 * n) = k * n /\ k * n \in Int
  BY <1>1, <1>10, SMT
<1>16. SeriesSum(s) \in Int /\ 2 * SeriesSum(s) = k * n
  BY <1>4, <1>5, <1>13, <1>15
<1>17. m * SeriesSum(squares) \in Int
  BY <1>14, SMT
<1>18. 2 * SeriesSum(moments) = m * SeriesSum(squares)
  BY <1>4, <1>14, <1>15, <1>17
<1>19. Moment(s) = SeriesSum(moments) /\ PlaceSquares(n) = SeriesSum(squares)
  BY DEF Moment, PlaceSquares, moments, squares, p, n
<1> QED
  BY <1>14, <1>16, <1>18, <1>19 DEF n, k

\* trendSlope of a line is its slope, per hour and in hundredths, exactly.
LEMMA SlopeOfLine ==
    ASSUME NEW s \in Seq(Int), NEW c \in Int, NEW m \in Nat, IsLine(s, c, m),
           Len(s) >= 2
    PROVE  TrendSlope(s) = 6000 * m
<1> DEFINE b == PlaceSquares(Len(s))
           total == Moment(s)
<1>1. b \in Nat \ {0}
  BY PlaceSquaresPositive
<1>2. total \in Int /\ 2 * total = m * b
  BY LineSums
<1> HIDE DEF b, total
<1>3. m * b \in Nat
  BY <1>1, TimesNatural
<1>4. total >= 0 /\ 120 * Abs(total) = 60 * (m * b)
  BY <1>2, <1>3 DEF Abs
<1>5. 60 * (m * b) = (60 * m) * b
  BY <1>1, SMT
<1>6. Hundredfold((60 * m) * b, b) = 100 * (60 * m)
  <2> DEFINE k == 60 * m
  <2>1. k \in Nat
    OBVIOUS
  <2> HIDE DEF k
  <2>2. Hundredfold(k * b, b) = 100 * k
    BY <1>1, <2>1, HundredfoldExact
  <2> QED
    BY <2>2 DEF k
<1>7. TrendSlope(s) = IF total < 0 THEN -Hundredfold(120 * Abs(total), b)
                      ELSE Hundredfold(120 * Abs(total), b)
  BY TrendSlopeDef DEF total, b
<1>8. TrendSlope(s) = 100 * (60 * m)
  BY <1>2, <1>4, <1>5, <1>6, <1>7
<1> QED
  BY <1>8

LEMMA DivToZeroTyped ==
    ASSUME NEW a \in Int, NEW b \in Nat \ {0}
    PROVE  DivToZero(a, b) \in Int
<1>1. CASE a >= 0
  BY <1>1, QuotientNatural DEF DivToZero
<1>2. CASE a < 0
  <2>1. -a \in Nat
    BY <1>2
  <2>2. (-a) \div b \in Nat
    BY <2>1, QuotientNatural
  <2> QED
    BY <1>2, <2>2 DEF DivToZero
<1> QED
  BY <1>1, <1>2

LEMMA DivToZeroExact ==
    ASSUME NEW a \in Int, NEW b \in Nat \ {0}
    PROVE  DivToZero(a * b, b) = a
<1>1. (a * b) \div b = a
  BY ExactQuotient
<1>2. CASE a * b >= 0
  BY <1>1, <1>2 DEF DivToZero
<1>3. CASE ~(a * b >= 0)
  <2>1. -(a * b) = (-a) * b
    BY SMT
  <2>2. ((-a) * b) \div b = -a
    <3> DEFINE c == -a
    <3>1. c \in Int
      OBVIOUS
    <3> HIDE DEF c
    <3>2. (c * b) \div b = c
      BY <3>1, ExactQuotient
    <3> QED
      BY <3>2 DEF c
  <2> QED
    BY <1>3, <2>1, <2>2 DEF DivToZero
<1> QED
  BY <1>2, <1>3

LEMMA SlopePerMinTyped ==
    ASSUME NEW s \in Seq(Int), NEW r \in Int
    PROVE  TrendSlopeRpsPerMin(s, r) \in Int
<1>1. TrendSlope(s) \in Int
  BY TrendSlopeTyped
<1>2. CASE r <= 0
  BY <1>1, <1>2 DEF TrendSlopeRpsPerMin
<1>3. CASE r > 0
  BY <1>1, <1>3, DivToZeroTyped DEF TrendSlopeRpsPerMin
<1> QED
  BY <1>2, <1>3

-----------------------------------------------------------------------------
(* The features together. *)

Features == [ cv : Nat, peakToTrough : Nat, hourlyAutocorr : -100 .. 100,
              trendSlope : Int ]

\* The feature extraction is total: whatever the rates, and for every length
\* from one sample on, no divisor is zero, no root is taken of a negative
\* number and every percentile names a sample.
THEOREM FeaturesWellDefined ==
    ASSUME NEW s \in Seq(Nat), Len(s) >= 1,
           NEW w, w.cvGuardMeanRPS \in Int, w.resolutionMin \in Int
    PROVE  ExtractFeatures(s) \in Features /\ ExtractFeaturesV2(s, w) \in Features
<1>0. s \in Seq(Int)
  OBVIOUS
<1>1. ExtractFeatures(s) \in Features
  <2>1. CVGuardMeanRPS \in Nat \ {0}
    BY DEF CVGuardMeanRPS
  <2>2. CV(s, CVGuardMeanRPS) \in Nat /\ PeakToTrough(s, CVGuardMeanRPS) \in Nat
    BY <2>1, CVNatural, PeakToTroughNatural
  <2>3. TrendSlope(s) \in Int
    BY <1>0, TrendSlopeTyped
  <2> QED
    BY <2>2, <2>3 DEF ExtractFeatures, Features
<1>2. ExtractFeaturesV2(s, w) \in Features
  <2> DEFINE guard == IF w.cvGuardMeanRPS <= 0 THEN CVGuardMeanRPS ELSE w.cvGuardMeanRPS
             r == AtLeastOne(w.resolutionMin)
  <2>1. guard \in Nat \ {0}
    BY DEF CVGuardMeanRPS
  <2>2. r \in Int
    BY DEF AtLeastOne
  <2> HIDE DEF guard, r
  <2>3. CV(s, guard) \in Nat /\ PeakToTrough(s, guard) \in Nat
    BY <2>1, CVNatural, PeakToTroughNatural
  <2>4. TrendSlopeRpsPerMin(s, r) \in Int
    BY <1>0, <2>2, SlopePerMinTyped
  <2> QED
    BY <2>3, <2>4 DEF ExtractFeaturesV2, Features, guard, r
<1> QED
  BY <1>1, <1>2
=============================================================================
