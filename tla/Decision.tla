------------------------------ MODULE Decision ------------------------------
(***************************************************************************)
(* The pure scaling policy of internal/decision: parameter precedence, the *)
(* replica recommendation, step cap and cooldowns, and the rps-per-pod     *)
(* estimator with its ring buffer.                                         *)
(*                                                                         *)
(* Data.  A rate (requests per second) is a whole number of 1/Scale rps,   *)
(* so int32(rate) is rate \div Scale and float64(n) is n * Scale; a        *)
(* quotient that is not a whole number of units is rounded down.  A time   *)
(* is a number of clock ticks, TicksPerSecond to the second.  None stands  *)
(* for a nil pointer and for Go's zero time.Time.  int32 arithmetic wraps  *)
(* at MaxInt32, which a model may take smaller than 2^31 - 1.              *)
(***************************************************************************)
EXTENDS Integers, Sequences, FiniteSets

CONSTANTS
    None,            \* nil, or the zero time.Time
    MaxInt32,        \* math.MaxInt32
    FloatOverflow,   \* what int32(f) yields for an f above MaxInt32
    Scale,           \* units in one request per second
    TicksPerSecond,  \* resolution of the controller's clock
    RingCapacity,    \* ringBufferCapacity (10)
    RestartSeedCopies \* decision.RestartSeedCopies (5)

MinInt32 == -MaxInt32 - 1
Int32 == MinInt32 .. MaxInt32

\* FloatOverflow is left to the build: Go converts an out-of-range float64
\* to MinInt32 on amd64 and to MaxInt32 on arm64.
ASSUME NumbersAssumption ==
    /\ MaxInt32 \in Nat \ {0}
    /\ FloatOverflow \in {MinInt32, MaxInt32}
    /\ Scale \in Nat \ {0}
    /\ TicksPerSecond \in Nat \ {0}
    /\ RingCapacity \in Nat \ {0}
    /\ RestartSeedCopies \in Nat

ASSUME NoneAssumption == None \notin Int

Optional(S) == S \cup {None}
Time == Nat

\* Two's-complement result of an int32 addition or subtraction.
Wrap32(x) ==
    IF x > MaxInt32 THEN x - 2 * (MaxInt32 + 1)
    ELSE IF x < MinInt32 THEN x + 2 * (MaxInt32 + 1)
    ELSE x

-----------------------------------------------------------------------------
(* Parameter resolution: spec, then classifier, then environment default. *)

\* derefOr
Deref(p, def) == IF p = None THEN def ELSE p

Coalesce32(spec, classified, def) ==
    IF spec # None THEN spec
    ELSE IF classified # None THEN classified
    ELSE def

\* A field of status.classifiedParams, nil while the classifier has not run.
ClassifiedField(c, field) == IF c = None THEN None ELSE c[field]

\* An empty string counts as absent at either level.
CoalesceStr(spec, classified, def) ==
    IF spec \notin {None, ""} THEN spec
    ELSE IF classified \notin {None, ""} THEN classified
    ELSE def

ResolveEffectiveParams(spec, classified, defaults) ==
    [ cooldownUp   |-> Coalesce32(spec.scaleUpCooldown,
                           ClassifiedField(classified, "scaleUpCooldown"),
                           defaults.scaleUpCooldown),
      cooldownDown |-> Coalesce32(spec.scaleDownCooldown,
                           ClassifiedField(classified, "scaleDownCooldown"),
                           defaults.scaleDownCooldown),
      maxStep      |-> Coalesce32(spec.maxStepSize,
                           ClassifiedField(classified, "maxStepSize"),
                           defaults.maxStepSize),
      forecaster   |-> CoalesceStr(spec.preferredForecaster,
                           ClassifiedField(classified, "preferredForecaster"),
                           "auto") ]

-----------------------------------------------------------------------------
(* The recommendation. *)

\* int32(f) of a number f that is not negative.
ToInt32(n) == IF n > MaxInt32 THEN FloatOverflow ELSE n

CeilDiv(a, b) == (a + b - 1) \div b

ComputeUnboundedRecommended(predicted, rpsPerPod) ==
    IF rpsPerPod <= 0 THEN MaxInt32
    ELSE ToInt32(CeilDiv(predicted, rpsPerPod))

ClampRecommended(unbounded, minReplicas, maxReplicas) ==
    IF unbounded > maxReplicas
    THEN [replicas |-> maxReplicas, reason |-> "max_replicas_binding"]
    ELSE IF unbounded < minReplicas
    THEN [replicas |-> minReplicas, reason |-> "min_replicas_binding"]
    ELSE [replicas |-> unbounded, reason |-> ""]

-----------------------------------------------------------------------------
(* Step cap, cooldown, hysteresis. *)

\* now.Sub(last) >= d, where Sub saturates for the zero time.
Elapsed(now, last, d) == last = None \/ now - last >= d

\* laterOf
LaterOf(a, b) == IF a # None /\ (b = None \/ a > b) THEN a ELSE b

\* Mutant: the capped step is one replica short.
MoveUpShort(in) ==
    LET limit == Wrap32(in.current + in.maxStep)
    IN  IF ~Elapsed(in.now, in.lastScaleUp, in.cooldownUp * TicksPerSecond)
        THEN [target |-> in.current, reason |-> "cooldown_holding_up"]
        ELSE IF in.recommended > limit
        THEN [target |-> limit - 1, reason |-> "step_capped_up"]
        ELSE [target |-> in.recommended, reason |-> "scale_up"]

MoveUp(in) ==
    LET limit == Wrap32(in.current + in.maxStep)
    IN  IF ~Elapsed(in.now, in.lastScaleUp, in.cooldownUp * TicksPerSecond)
        THEN [target |-> in.current, reason |-> "cooldown_holding_up"]
        ELSE IF in.recommended > limit
        THEN [target |-> limit, reason |-> "step_capped_up"]
        ELSE [target |-> in.recommended, reason |-> "scale_up"]

MoveDown(in) ==
    LET limit == Wrap32(in.current - in.maxStep)
    IN  IF ~Elapsed(in.now, in.lastScaleDown, in.cooldownDown * TicksPerSecond)
        THEN [target |-> in.current, reason |-> "cooldown_holding_down"]
        ELSE IF in.recommended < limit
        THEN [target |-> limit, reason |-> "step_capped_down"]
        ELSE [target |-> in.recommended, reason |-> "scale_down"]

\* The code's ShouldPatch is target # current.
ApplyCapAndCooldown(in) ==
    IF in.recommended > in.current THEN MoveUp(in)
    ELSE IF in.recommended < in.current THEN MoveDown(in)
    ELSE [ target |-> in.current,
           reason |-> IF in.bindingReason = "" THEN "no_change"
                      ELSE in.bindingReason ]

-----------------------------------------------------------------------------
(* The rps-per-pod estimator. *)

\* RingBuffer.Push: append, evicting the oldest entry of a full buffer.
Push(buf, v) ==
    Append(IF Len(buf) = RingCapacity THEN Tail(buf) ELSE buf, v)

\* RingBuffer.SeedN: n copies of v, at most the buffer's capacity.
SeedN(v, n) ==
    [i \in 1 .. (IF n > RingCapacity THEN RingCapacity ELSE n) |-> v]

\* The k-th smallest entry, sorted[k-1] of the code.
AtMost(buf, v) == {i \in 1 .. Len(buf) : buf[i] <= v}
Below(buf, v) == {i \in 1 .. Len(buf) : buf[i] < v}
IsRanked(buf, k, v) ==
    Cardinality(Below(buf, v)) < k /\ k <= Cardinality(AtMost(buf, v))
Ranked(buf, k) ==
    CHOOSE v \in {buf[i] : i \in 1 .. Len(buf)} : IsRanked(buf, k, v)

\* RingBuffer.Median: the middle entry, or the mean of the middle two.
Median(buf) ==
    LET n == Len(buf)
    IN  IF n = 0 THEN 0
        ELSE IF n % 2 = 1 THEN Ranked(buf, (n \div 2) + 1)
        ELSE (Ranked(buf, n \div 2) + Ranked(buf, (n \div 2) + 1)) \div 2

\* Mutant: the gate waits for one interval instead of two.
ShouldUpdateAfterOneInterval(rps, replicas, lastScale, now, interval, floor) ==
    /\ rps > 0
    /\ replicas >= 1
    /\ rps >= floor
    /\ Elapsed(now, lastScale, interval)

\* The steady-state gate on new observations; interval is in ticks.
ShouldUpdateRpsPerPodWithFloor(rps, replicas, lastScale, now, interval, floor) ==
    /\ rps > 0
    /\ replicas >= 1
    /\ rps >= floor
    /\ Elapsed(now, lastScale, 2 * interval)

\* Mutant: the upper bound is forgotten.
ClampRpsPerPodBelowOnly(v, lo, hi) == IF v < lo * Scale THEN lo * Scale ELSE v

ClampRpsPerPod(v, lo, hi) ==
    IF v < lo * Scale THEN lo * Scale
    ELSE IF v > hi * Scale THEN hi * Scale
    ELSE v

-----------------------------------------------------------------------------
(* PerCRState, and its recovery from the persisted status. *)

\* A state-store entry just created, or absent.
FreshState ==
    [ initialized |-> FALSE, observations |-> <<>>, rpsPerPod |-> 0,
      lastScaleUp |-> None, lastScaleDown |-> None ]

\* buildStatusSeed: rpsPerPodCurrent is whole rps, min and max are int32.
StatusSeed(rpsPerPodCurrent, lastScaleTime, lo, hi) ==
    [ rpsPerPodCurrent |-> rpsPerPodCurrent * Scale,
      inBounds |-> rpsPerPodCurrent >= lo /\ rpsPerPodCurrent <= hi,
      midpoint |-> (Wrap32(lo + hi) * Scale) \div 2,
      lastScaleTime |-> lastScaleTime ]

\* Mutant: recovery seeds the estimator and leaves the clocks unset.
InitializeWithoutClocks(state, seed) ==
    LET usable == seed.inBounds /\ seed.rpsPerPodCurrent > 0
    IN  [ state EXCEPT
          !.initialized  = TRUE,
          !.observations = IF usable
                           THEN SeedN(seed.rpsPerPodCurrent, RestartSeedCopies)
                           ELSE @,
          !.rpsPerPod    = IF usable THEN seed.rpsPerPodCurrent ELSE seed.midpoint ]

InitializeFromStatus(state, seed) ==
    LET usable == seed.inBounds /\ seed.rpsPerPodCurrent > 0
        seeded == seed.lastScaleTime # None
    IN  [ initialized   |-> TRUE,
          observations  |-> IF usable
                            THEN SeedN(seed.rpsPerPodCurrent, RestartSeedCopies)
                            ELSE state.observations,
          rpsPerPod     |-> IF usable THEN seed.rpsPerPodCurrent
                            ELSE seed.midpoint,
          lastScaleUp   |-> IF seeded THEN seed.lastScaleTime
                            ELSE state.lastScaleUp,
          lastScaleDown |-> IF seeded THEN seed.lastScaleTime
                            ELSE state.lastScaleDown ]

\* The gated update of one reconcile (step 5): push, then take the median.
Observe(state, rps, replicas, now, interval, floor) ==
    IF ShouldUpdateRpsPerPodWithFloor(rps, replicas,
            LaterOf(state.lastScaleUp, state.lastScaleDown), now, interval, floor)
    THEN LET obs == Push(state.observations, rps \div replicas)
         IN  [state EXCEPT !.observations = obs, !.rpsPerPod = Median(obs)]
    ELSE state

\* Mutant: a full second is taken off instead of the fraction.
TruncateTooFar(t) == t - TicksPerSecond

\* metav1.Time serialises whole seconds.
TruncateToSecond(t) == t - (t % TicksPerSecond)
=============================================================================
