--------------------------- MODULE DecisionProofs ---------------------------
(***************************************************************************)
(* Facts about the operators of Decision, for every value of the constants.*)
(***************************************************************************)
EXTENDS Decision, TLAPS, FiniteSetTheorems, WellFoundedInduction

LEMMA IndexSetsFinite ==
    ASSUME NEW buf \in Seq(Nat), NEW v
    PROVE  /\ IsFiniteSet(AtMost(buf, v)) /\ IsFiniteSet(Below(buf, v))
           /\ Cardinality(AtMost(buf, v)) \in 0 .. Len(buf)
           /\ Cardinality(Below(buf, v)) \in 0 .. Len(buf)
<1>0. Len(buf) \in Nat
  OBVIOUS
<1>1. IsFiniteSet(1 .. Len(buf)) /\ Cardinality(1 .. Len(buf)) = Len(buf)
  <2> DEFINE n == Len(buf)
  <2>1. n \in Int /\ n >= 0 /\ 1 \in Int
    BY <1>0
  <2> HIDE DEF n
  <2>2. IsFiniteSet(1 .. n) /\ Cardinality(1 .. n) = IF 1 > n THEN 0 ELSE n - 1 + 1
    BY <2>1, FS_Interval
  <2>3. IsFiniteSet(1 .. n) /\ Cardinality(1 .. n) = n
    BY <2>1, <2>2
  <2> QED  BY <2>3 DEF n
<1>2. AtMost(buf, v) \subseteq 1 .. Len(buf) /\ Below(buf, v) \subseteq 1 .. Len(buf)
  BY DEF AtMost, Below
<1> QED  BY <1>1, <1>2, FS_Subset, FS_CardinalityType

\* A non-empty set of natural numbers has a least element.
LEMMA LeastNatural ==
    ASSUME NEW T \in SUBSET Nat, T # {}
    PROVE  \E m \in T : \A t \in T : m <= t
<1>1. \E m \in T : \A t \in T : ~(<<t, m>> \in OpToRel(<, Nat))
  BY NatLessThanWellFounded, WFMin, Zenon
<1>2. PICK m \in T : \A t \in T : ~(<<t, m>> \in OpToRel(<, Nat))
  BY <1>1
<1>3. ASSUME NEW t \in T, t < m  PROVE FALSE
  <2>1. <<t, m>> \in Nat \X Nat /\ <<t, m>>[1] < <<t, m>>[2]
    BY <1>3
  <2>2. <<t, m>> \in OpToRel(<, Nat)
    BY <2>1, Zenon DEF OpToRel
  <2> QED  BY <1>2, <2>2, Zenon
<1> QED  BY <1>3

\* Every rank of a buffer is taken by one of its entries, so the sorted
\* positions that Median reads exist.
LEMMA RankedExists ==
    ASSUME NEW buf \in Seq(Nat), NEW k \in 1 .. Len(buf)
    PROVE  \E v \in {buf[i] : i \in 1 .. Len(buf)} : v \in Nat /\ IsRanked(buf, k, v)
<1> DEFINE n == Len(buf)
           C(v) == Cardinality(AtMost(buf, v))
           B(v) == Cardinality(Below(buf, v))
<1>n. n \in Nat /\ k \in Nat /\ 1 <= k /\ k <= n
  OBVIOUS
<1>e. \A i \in 1 .. n : buf[i] \in Nat
  OBVIOUS
<1>c. \A v : C(v) \in 0 .. n /\ B(v) \in 0 .. n
  BY IndexSetsFinite
<1>f. \A v : IsFiniteSet(AtMost(buf, v)) /\ IsFiniteSet(Below(buf, v))
  BY IndexSetsFinite
\* An entry whose value covers the most entries covers all of them.
<1>1. \E j \in 1 .. n : \A i \in 1 .. n : C(buf[i]) <= C(buf[j])
  <2> DEFINE W == {n - C(buf[i]) : i \in 1 .. n}
  <2>1. W \in SUBSET Nat /\ W # {}
    <3>1. \A i \in 1 .. n : n - C(buf[i]) \in Nat
      BY <1>n, <1>c
    <3>2. 1 \in 1 .. n
      BY <1>n
    <3> HIDE DEF C, n
    <3> QED  BY <3>1, <3>2
  <2>2. PICK w \in W : \A t \in W : w <= t
    <3> HIDE DEF W
    <3> QED  BY <2>1, LeastNatural
  <2>3. PICK j \in 1 .. n : w = n - C(buf[j])
    BY <2>2
  <2>4. \A i \in 1 .. n : n - C(buf[j]) <= n - C(buf[i])
    BY <2>2, <2>3
  <2>5. \A i \in 1 .. n : C(buf[i]) \in Int
    BY <1>c
  <2>6. ASSUME NEW i \in 1 .. n  PROVE C(buf[i]) <= C(buf[j])
    <3> DEFINE x == C(buf[i])
               y == C(buf[j])
    <3>1. x \in Int /\ y \in Int /\ n - y <= n - x
      BY <2>4, <2>5
    <3> HIDE DEF x, y, n
    <3>2. x <= y
      BY <3>1, <1>n
    <3> QED  BY <3>2 DEF x, y
  <2> QED  BY <2>6
<1>2. PICK j \in 1 .. n : \A i \in 1 .. n : C(buf[i]) <= C(buf[j])
  BY <1>1
<1>3. \A i \in 1 .. n : buf[i] <= buf[j]
  <2> SUFFICES ASSUME NEW i \in 1 .. n, ~(buf[i] <= buf[j])
               PROVE  FALSE
    OBVIOUS
  <2>1. AtMost(buf, buf[j]) \subseteq AtMost(buf, buf[i])
    BY <1>e DEF AtMost
  <2>2. i \in AtMost(buf, buf[i]) /\ i \notin AtMost(buf, buf[j])
    BY <1>e DEF AtMost
  <2>3. C(buf[j]) <= C(buf[i]) /\ C(buf[j]) # C(buf[i])
    BY <1>f, <2>1, <2>2, FS_Subset
  <2>4. C(buf[i]) <= C(buf[j]) /\ C(buf[i]) \in Int /\ C(buf[j]) \in Int
    BY <1>2, <1>c
  <2> HIDE DEF C
  <2> QED  BY <2>3, <2>4
<1>4. C(buf[j]) = n
  <2>1. AtMost(buf, buf[j]) = 1 .. n
    BY <1>3 DEF AtMost
  <2>2. IsFiniteSet(1 .. n) /\ Cardinality(1 .. n) = n
    <3>1. n \in Int /\ 1 \in Int
      BY <1>n
    <3> HIDE DEF n
    <3>2. IsFiniteSet(1 .. n) /\ Cardinality(1 .. n) = IF 1 > n THEN 0 ELSE n - 1 + 1
      BY <3>1, FS_Interval
    <3> QED  BY <3>2, <1>n
  <2> QED  BY <2>1, <2>2
\* The least value that covers k entries has rank k.
<1> DEFINE T == {v \in Nat : C(v) >= k}
<1>5. T \in SUBSET Nat /\ T # {}
  BY <1>4, <1>n, <1>e
<1>6. PICK m \in T : \A t \in T : m <= t
  <2> HIDE DEF T
  <2> QED  BY <1>5, LeastNatural
<1>7. m \in Nat /\ C(m) >= k
  BY <1>6
<1>8. B(m) < k
  <2>1. CASE m = 0
    <3>1. Below(buf, m) = {}
      BY <2>1, <1>e DEF Below
    <3> QED  BY <3>1, FS_EmptySet, <1>n
  <2>2. CASE m # 0
    <3>1. m - 1 \in Nat /\ ~(m <= m - 1)
      BY <1>7, <2>2
    <3>2. m - 1 \notin T
      BY <1>6, <3>1
    <3>3. AtMost(buf, m - 1) = Below(buf, m)
      BY <1>e, <1>7 DEF AtMost, Below
    <3>4. ~(C(m - 1) >= k)
      BY <3>1, <3>2
    <3>5. ~(B(m) >= k) /\ B(m) \in Int
      BY <3>3, <3>4, <1>c
    <3> HIDE DEF B
    <3> QED  BY <3>5, <1>n
  <2> QED  BY <2>1, <2>2
<1>9. \E i \in 1 .. n : buf[i] = m
  <2>1. Below(buf, m) # AtMost(buf, m)
    BY <1>7, <1>8, <1>c, <1>n
  <2>2. PICK i \in 1 .. n : (buf[i] <= m) # (buf[i] < m)
    BY <2>1 DEF Below, AtMost
  <2>3. buf[i] = m
    BY <2>2, <1>e, <1>7
  <2> QED  BY <2>3
<1>10. IsRanked(buf, k, m)
  <2>1. k <= C(m)
    BY <1>7, <1>n, <1>c
  <2> QED  BY <1>8, <2>1 DEF IsRanked
<1> QED  BY <1>7, <1>9, <1>10

LEMMA RankedType ==
    ASSUME NEW buf \in Seq(Nat), NEW k \in 1 .. Len(buf)
    PROVE  /\ Ranked(buf, k) \in Nat
           /\ Ranked(buf, k) \in {buf[i] : i \in 1 .. Len(buf)}
           /\ IsRanked(buf, k, Ranked(buf, k))
<1> DEFINE S == {buf[i] : i \in 1 .. Len(buf)}
<1>1. \E v \in S : IsRanked(buf, k, v)
  BY RankedExists
<1>2. Ranked(buf, k) = CHOOSE v \in S : IsRanked(buf, k, v)
  BY DEF Ranked
<1>3. Ranked(buf, k) \in S /\ IsRanked(buf, k, Ranked(buf, k))
  <2> HIDE DEF S
  <2> QED  BY <1>1, <1>2, Zenon
<1>4. S \subseteq Nat
  OBVIOUS
<1> QED  BY <1>3, <1>4

\* RingBuffer.Median of non-negative observations is a rate, and a median of
\* at least one observation is no lower than the least and no higher than
\* the greatest of them: the estimate never leaves the observed range.
THEOREM MedianInRange ==
    ASSUME NEW buf \in Seq(Nat)
    PROVE  /\ Median(buf) \in Nat
           /\ Len(buf) > 0 => \E i, j \in 1 .. Len(buf) :
                                buf[i] <= Median(buf) /\ Median(buf) <= buf[j]
<1> DEFINE n == Len(buf)
<1>n. n \in Nat
  OBVIOUS
<1>1. CASE n = 0
  BY <1>1 DEF Median
<1>2. CASE n # 0 /\ n % 2 = 1
  <2> DEFINE k == (n \div 2) + 1
  <2>1. k \in 1 .. n
    BY <1>n, <1>2
  <2>2. Median(buf) = Ranked(buf, k)
    BY <1>2 DEF Median
  <2> HIDE DEF k
  <2>3. PICK i \in 1 .. n : Ranked(buf, k) = buf[i]
    BY <2>1, RankedType
  <2>4. Ranked(buf, k) \in Nat
    BY <2>1, RankedType
  <2> QED  BY <2>2, <2>3, <2>4
<1>3. CASE n # 0 /\ n % 2 # 1
  <2> DEFINE k == n \div 2
             a == Ranked(buf, k)
             b == Ranked(buf, k + 1)
  <2>1. k \in 1 .. n /\ k + 1 \in 1 .. n
    BY <1>n, <1>3
  <2>2. Median(buf) = (a + b) \div 2
    BY <1>3 DEF Median
  <2> HIDE DEF k
  <2>3. a \in Nat /\ b \in Nat
    BY <2>1, RankedType
  <2>4. PICK i \in 1 .. n : a = buf[i]
    BY <2>1, RankedType
  <2>5. PICK j \in 1 .. n : b = buf[j]
    BY <2>1, RankedType
  <2> HIDE DEF a, b
  <2>6. (a + b) \div 2 \in Nat
    BY <2>3
  <2>7. \/ a <= (a + b) \div 2 /\ (a + b) \div 2 <= b
        \/ b <= (a + b) \div 2 /\ (a + b) \div 2 <= a
    BY <2>3
  <2> QED  BY <2>2, <2>4, <2>5, <2>6, <2>7
<1> QED  BY <1>1, <1>2, <1>3

LEMMA Wrap32Type ==
    ASSUME NEW x \in Int, -2 * MaxInt32 - 1 <= x, x <= 2 * MaxInt32
    PROVE  /\ Wrap32(x) \in Int32
           /\ x \in Int32 => Wrap32(x) = x
BY NumbersAssumption DEF Wrap32, Int32, MinInt32

LEMMA CeilDivType ==
    ASSUME NEW a \in Nat, NEW b \in Nat \ {0}
    PROVE  CeilDiv(a, b) \in Nat
<1>1. a + b - 1 \in Nat
  OBVIOUS
<1> QED  BY <1>1 DEF CeilDiv

LEMMA UnboundedType ==
    ASSUME NEW predicted \in Nat, NEW rpp \in Int
    PROVE  ComputeUnboundedRecommended(predicted, rpp) \in Int32
<1>1. CASE rpp <= 0
  BY <1>1, NumbersAssumption DEF ComputeUnboundedRecommended, Int32, MinInt32
<1>2. CASE rpp > 0
  <2>1. CeilDiv(predicted, rpp) \in Nat
    BY <1>2, CeilDivType
  <2> QED  BY <1>2, <2>1, NumbersAssumption
           DEF ComputeUnboundedRecommended, ToInt32, Int32, MinInt32
<1> QED  BY <1>1, <1>2

LEMMA ClampRecommendedType ==
    ASSUME NEW u \in Int32, NEW lo \in Int32, NEW hi \in Int32
    PROVE  /\ ClampRecommended(u, lo, hi).replicas \in Int32
           /\ lo <= hi => /\ lo <= ClampRecommended(u, lo, hi).replicas
                          /\ ClampRecommended(u, lo, hi).replicas <= hi
BY NumbersAssumption DEF ClampRecommended, Int32, MinInt32

\* What ApplyCapAndCooldown is given.
CapInput(in) ==
    /\ in.recommended \in Int32 /\ in.current \in Int32
    /\ in.maxStep \in 1 .. MaxInt32

LEMMA CapType ==
    ASSUME NEW in, CapInput(in)
    PROVE  ApplyCapAndCooldown(in).target \in Int32
<1>1. /\ in.current + in.maxStep \in Int
      /\ in.current + in.maxStep <= 2 * MaxInt32
      /\ -2 * MaxInt32 - 1 <= in.current + in.maxStep
      /\ in.current - in.maxStep \in Int
      /\ in.current - in.maxStep <= 2 * MaxInt32
      /\ -2 * MaxInt32 - 1 <= in.current - in.maxStep
  BY NumbersAssumption DEF CapInput, Int32, MinInt32
<1>2. /\ Wrap32(in.current + in.maxStep) \in Int32
      /\ Wrap32(in.current - in.maxStep) \in Int32
  BY <1>1, Wrap32Type
<1> QED  BY <1>2 DEF CapInput, ApplyCapAndCooldown, MoveUp, MoveDown

\* ApplyCapAndCooldown moves towards the recommendation without passing it
\* and by at most maxStep, provided current + maxStep is representable; in
\* a cooldown it does not move.
THEOREM StepIsBounded ==
    ASSUME NEW in, CapInput(in),
           in.current + in.maxStep \in Int32, in.current - in.maxStep \in Int32
    PROVE  LET t == ApplyCapAndCooldown(in).target
           IN  /\ \/ in.current <= t /\ t <= in.recommended
                  \/ in.recommended <= t /\ t <= in.current
               /\ t - in.current <= in.maxStep
               /\ in.current - t <= in.maxStep
               /\ t > in.current =>
                    Elapsed(in.now, in.lastScaleUp, in.cooldownUp * TicksPerSecond)
               /\ t < in.current =>
                    Elapsed(in.now, in.lastScaleDown, in.cooldownDown * TicksPerSecond)
<1> DEFINE up == Wrap32(in.current + in.maxStep)
           down == Wrap32(in.current - in.maxStep)
           EUp == Elapsed(in.now, in.lastScaleUp, in.cooldownUp * TicksPerSecond)
           EDown == Elapsed(in.now, in.lastScaleDown, in.cooldownDown * TicksPerSecond)
<1>1. up = in.current + in.maxStep /\ down = in.current - in.maxStep
  BY NumbersAssumption DEF CapInput, Wrap32, Int32, MinInt32
<1>2. /\ in.current \in Int /\ in.recommended \in Int /\ in.maxStep \in Int
      /\ in.maxStep >= 1
  BY DEF CapInput, Int32, MinInt32
<1>3. CASE in.recommended > in.current
  <2>1. ApplyCapAndCooldown(in).target =
          IF ~EUp THEN in.current
          ELSE IF in.recommended > up THEN up ELSE in.recommended
    BY <1>3 DEF ApplyCapAndCooldown, MoveUp
  <2> HIDE DEF EUp, EDown, up, down
  <2>2. CASE EUp
    BY <1>1, <1>2, <1>3, <2>1, <2>2 DEF EUp
  <2>3. CASE ~EUp
    BY <1>1, <1>2, <1>3, <2>1, <2>3
  <2> QED  BY <2>2, <2>3
<1>4. CASE in.recommended < in.current
  <2>1. ApplyCapAndCooldown(in).target =
          IF ~EDown THEN in.current
          ELSE IF in.recommended < down THEN down ELSE in.recommended
    BY <1>4, <1>2 DEF ApplyCapAndCooldown, MoveDown
  <2> HIDE DEF EUp, EDown, up, down
  <2>2. CASE EDown
    BY <1>1, <1>2, <1>4, <2>1, <2>2 DEF EDown
  <2>3. CASE ~EDown
    BY <1>1, <1>2, <1>4, <2>1, <2>3
  <2> QED  BY <2>2, <2>3
<1>5. CASE in.recommended = in.current
  BY <1>2, <1>5 DEF ApplyCapAndCooldown
<1> QED  BY <1>2, <1>3, <1>4, <1>5

=============================================================================
