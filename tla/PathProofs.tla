----------------------------- MODULE PathProofs -----------------------------
(***************************************************************************)
(* Proofs about the forecast path: what the settings guarantee, what a     *)
(* classification may say, which requests can be sent, which forecaster    *)
(* may answer and what it predicts, and the counters.                      *)
(***************************************************************************)
EXTENDS ForecastPath, SeriesProofs, SequenceTheorems

USE DEF Optional

-----------------------------------------------------------------------------
(* Pure facts. *)

LEMMA CeilLog2Nat ==
    ASSUME NEW ratio \in Int
    PROVE  CeilLog2(ratio) \in Nat
  <1>0. 0 \in Int /\ MaxLog \in Int
    BY DEF MaxLog
  <1>1. IsFiniteSet(0 .. MaxLog)
    BY <1>0, FS_Interval
  <1>2. IsFiniteSet({k \in 0 .. MaxLog : 100 * 2 ^ k < ratio})
    BY <1>1, FS_Subset
  <1> QED
    BY <1>2, FS_CardinalityType DEF CeilLog2

LEMMA ForecasterIsModel ==
    ASSUME NEW pattern
    PROVE  ForecasterForPattern(pattern) \in Models
  BY DEF ForecasterForPattern, Models

\* Whatever the features of a series are, ComputeParams stays inside the hard
\* limits of params.go, and one step of the classified size does not reach
\* past the replica range.
THEOREM ParamsLimited ==
    ASSUME NEW f \in Features, NEW pattern,
           NEW minReplicas \in Pos32, NEW maxReplicas \in Pos32
    PROVE  LET p == ComputeParams(f, pattern, minReplicas, maxReplicas) IN
           /\ p.scaleUpCooldown \in 30 .. 180
           /\ p.scaleDownCooldown \in 60 .. 600
           /\ p.maxStepSize \in 1 .. Larger(1, maxReplicas - minReplicas)
           /\ p.preferredForecaster \in Models
  <1> USE DEF Features
  <1> DEFINE up == RoundDiv(6000, 50 + f.cv)
             factor == 200 + Larger(0, f.hourlyAutocorr)
             down == RoundDiv(36000 + 540 * f.cv, factor)
             range == AtLeastOne(maxReplicas - minReplicas)
  <1>1. minReplicas \in Int /\ maxReplicas \in Int
    BY NumbersAssumption DEF Pos32, Int32, MinInt32
  <1>2. up \in Int
    BY QuotientNatural DEF RoundDiv
  <1>3. factor \in Nat \ {0}
    BY DEF Larger
  <1>4. 36000 + 540 * f.cv \in Nat
    BY TimesNatural
  <1>5. down \in Int
    <2> HIDE DEF factor
    <2> QED BY <1>3, <1>4, QuotientNatural DEF RoundDiv
  <1>6. range \in Int /\ 1 <= range /\ range = Larger(1, maxReplicas - minReplicas)
    BY <1>1 DEF AtLeastOne, Larger
  <1>7. Clamp(up, 30, 180) \in 30 .. 180
    <2> HIDE DEF up
    <2> QED BY <1>2 DEF Clamp
  <1>8. Clamp(down, 60, 600) \in 60 .. 600
    <2> HIDE DEF down
    <2> QED BY <1>5 DEF Clamp
  <1>9. MaxStep(f.peakToTrough, minReplicas, maxReplicas) \in 1 .. range
    <2>1. CeilLog2(f.peakToTrough) \in Int
      BY CeilLog2Nat
    <2>2. Clamp(CeilLog2(f.peakToTrough), 1, range) \in 1 .. range
      <3> HIDE DEF range
      <3> QED BY <1>6, <2>1 DEF Clamp
    <2> QED BY <2>2 DEF MaxStep
  <1> QED
    BY <1>6, <1>7, <1>8, <1>9, ForecasterIsModel DEF ComputeParams

LEMMA PatternInSchema ==
    ASSUME NEW f, NEW sum, NEW count
    PROVE  ClassifyWithMean(f, sum, count)
             \in {"flat", "periodic", "spiky", "gradual_ramp", "default"}
  BY DEF ClassifyWithMean

LEMMA AutocorrInRange ==
    ASSUME NEW s, NEW lag, NEW corr \in HourlyAutocorr(s, lag)
    PROVE  corr \in -100 .. 100
  BY CorrelationsAssumption DEF HourlyAutocorr

\* A WorkerConfig as either wiring fills it in.
IsWorkerConfig(w) ==
    /\ w.minPoints \in Int /\ w.minPoints >= 10 /\ w.highConfPoints \in Int
    /\ w.resolutionMin \in Int /\ w.cvGuardMeanRPS \in Int

\* Every result of a classification comes from a series that is long enough,
\* fits the schema and, with a context block, tells the series' slope.
LEMMA ClassificationInLimits ==
    ASSUME NEW s \in Seq(Nat), NEW w, IsWorkerConfig(w), NEW hour,
           NEW result \in Classifications(s, w, MinReplicas, MaxReplicas, hour),
           result # None
    PROVE  /\ Len(s) >= 10
           /\ result.params.scaleUpCooldown \in 30 .. 180
           /\ result.params.scaleDownCooldown \in 60 .. 600
           /\ result.params.maxStepSize \in 1 .. Larger(1, MaxReplicas - MinReplicas)
           /\ result.params.preferredForecaster \in Models
           /\ result.pattern \in {"flat", "periodic", "spiky", "gradual_ramp", "default"}
           /\ result.confidence \in {"high", "medium"}
           /\ result.context # None =>
                /\ IsV2(w)
                /\ DOMAIN result.context.hourlyProfile = 0 .. HoursPerDay - 1
                /\ result.context.peakP95RPS = Percentile(s, 95)
                /\ result.context.trend24hSlope =
                     TrendSlopeRpsPerMin(s, AtLeastOne(w.resolutionMin))
  <1> DEFINE extracted == IF IsV2(w) THEN ExtractFeaturesV2(s, w) ELSE ExtractFeatures(s)
             features(corr) == [extracted EXCEPT !.hourlyAutocorr = corr]
             contextV2 == ContextOf(s, AtLeastOne(w.resolutionMin), hour,
                                    w.hourlyProfileMinHours)
  <1>1. PICK corr \in HourlyAutocorr(s, LagOf(w)) :
           result = IF IsV2(w)
                    THEN RunPipelineV2(s, features(corr), w, MinReplicas, MaxReplicas, hour)
                    ELSE RunPipeline(s, features(corr), w, MinReplicas, MaxReplicas)
    BY DEF Classifications
  <1> DEFINE f == features(corr)
  <1>2. ~(Len(s) < w.minPoints)
    BY <1>1 DEF RunPipeline, RunPipelineV2
  <1>3. Len(s) \in Nat /\ Len(s) >= 10 /\ Len(s) >= w.minPoints
    BY <1>2 DEF IsWorkerConfig
  <1>4. f \in Features
    <2>1. extracted \in Features
      BY <1>3, FeaturesWellDefined DEF IsWorkerConfig
    <2>2. corr \in -100 .. 100
      BY AutocorrInRange
    <2> HIDE DEF extracted
    <2> QED
      BY <2>1, <2>2 DEF Features
  <1> HIDE DEF f, extracted
  <1>5. PICK pattern, context :
           /\ result = Outcome(s, f, pattern, w, MinReplicas, MaxReplicas, context)
           /\ pattern \in {"flat", "periodic", "spiky", "gradual_ramp", "default"}
           /\ context = IF IsV2(w) THEN contextV2 ELSE None
    <2>1. CASE IsV2(w)
      <3>1. result = Outcome(s, f, ClassifyWithMean(f, SeriesSum(s), Len(s)), w,
                             MinReplicas, MaxReplicas, contextV2)
        BY <1>1, <1>2, <2>1 DEF RunPipelineV2, f
      <3> HIDE DEF contextV2
      <3> QED
        BY <2>1, <3>1, PatternInSchema
    <2>2. CASE ~IsV2(w)
      <3>1. result = Outcome(s, f, ClassifyWithMean(f, 1, 1), w,
                             MinReplicas, MaxReplicas, None)
        BY <1>1, <1>2, <2>2 DEF RunPipeline, ClassifyPattern, f
      <3> QED
        BY <2>2, <3>1, PatternInSchema
    <2> QED
      BY <2>1, <2>2
  <1>6. /\ result.pattern = pattern /\ result.context = context
        /\ result.confidence = Confidence(Len(s), w.highConfPoints, w.minPoints)
        /\ result.params = ComputeParams(f, pattern, MinReplicas, MaxReplicas)
    BY <1>5 DEF Outcome
  <1>7. result.confidence \in {"high", "medium"}
    BY <1>3, <1>6 DEF Confidence
  <1>8. /\ result.params.scaleUpCooldown \in 30 .. 180
        /\ result.params.scaleDownCooldown \in 60 .. 600
        /\ result.params.maxStepSize \in 1 .. Larger(1, MaxReplicas - MinReplicas)
        /\ result.params.preferredForecaster \in Models
    <2>1. MinReplicas \in Pos32 /\ MaxReplicas \in Pos32
      BY PathAssumption
    <2> QED
      BY <1>4, <1>6, <2>1, ParamsLimited
  <1>9. /\ DOMAIN contextV2.hourlyProfile = 0 .. HoursPerDay - 1
        /\ contextV2.peakP95RPS = Percentile(s, 95)
        /\ contextV2.trend24hSlope = TrendSlopeRpsPerMin(s, AtLeastOne(w.resolutionMin))
    BY DEF ContextOf, ComputeHourlyProfile
  <1> HIDE DEF contextV2
  <1> QED
    BY <1>3, <1>5, <1>6, <1>7, <1>8, <1>9

\* LoadFromEnv hands out only settings that validate accepts.
LEMMA LoadedIsValid ==
    ASSUME NEW e \in Environment, LoadFromEnv(e, Required) # None
    PROVE  /\ LoadFromEnv(e, Required) \in [Settings -> Int]
           /\ Validate(LoadFromEnv(e, Required))
  <1> DEFINE c == [v \in Settings |-> EnvOrDefault(e, v)]
  <1>1. LoadFromEnv(e, Required) = c /\ Validate(c)
    BY DEF LoadFromEnv
  <1>2. \A v \in Settings : Default[v] \in Int
    BY DEF Settings, Default
  <1>3. \A v \in Settings : EnvOrDefault(e, v) \in Int
    BY <1>2, NumbersAssumption
       DEF EnvOrDefault, Unparseable, Environment, Int32, MinInt32
  <1> QED
    BY <1>1, <1>3

-----------------------------------------------------------------------------
(* Requests. *)

LEMMA RatesAreNatural ==
    ASSUME NEW t \in Nat, t >= Birth, workload \in Workloads
    PROVE  RateAt(t) \in Nat
  <1>1. /\ workload.base \in Nat /\ workload.slope \in Nat
        /\ workload.peak \in Nat /\ Birth \in Nat
    BY PathAssumption
  <1>2. t - Birth \in Nat
    BY <1>1
  <1>3. workload.slope * (t - Birth) \in Nat
    BY <1>1, <1>2, TimesNatural
  <1> QED
    BY <1>1, <1>3 DEF RateAt

LEMMA CeilDivCovers ==
    ASSUME NEW a \in Nat, NEW b \in Nat \ {0}
    PROVE  CeilDiv(a, b) * b >= a /\ CeilDiv(a, b) * b \in Nat
  <1> DEFINE m == a + b - 1
             q == m \div b
  <1>1. m \in Nat
    OBVIOUS
  <1> HIDE DEF m
  <1>2. q \in Nat /\ m = q * b + (m % b) /\ m % b \in 0 .. b - 1
    BY <1>1, SMT
  <1> HIDE DEF q
  <1>3. q * b \in Nat
    BY <1>2, TimesNatural
  <1>4. q * b >= a
    BY <1>1, <1>2, <1>3 DEF m
  <1> QED
    BY <1>3, <1>4 DEF CeilDiv, q, m

LEMMA FirstPointAfterBirth ==
    ASSUME NEW start \in Int, NEW step \in Nat \ {0}
    PROVE  FirstPoint(start, step) \in Nat /\ FirstPoint(start, step) >= Birth
  <1>0. Birth \in Nat
    BY PathAssumption
  <1>1. CASE start >= Birth
    BY <1>0, <1>1 DEF FirstPoint
  <1>2. CASE ~(start >= Birth)
    <2> DEFINE gap == Birth - start
               jump == CeilDiv(gap, step) * step
    <2>1. gap \in Nat
      BY <1>0, <1>2
    <2>2. jump >= gap /\ jump \in Nat
      <3> HIDE DEF gap
      <3> QED  BY <2>1, CeilDivCovers
    <2>3. FirstPoint(start, step) = start + jump
      BY <1>2 DEF FirstPoint
    <2> HIDE DEF jump
    <2> QED
      BY <1>0, <2>1, <2>2, <2>3
  <1> QED
    BY <1>1, <1>2

\* A range query yields the rates at the points of its grid, none of them
\* negative; at one point per minute these are the minutes up to now.
LEMMA QueryTyped ==
    ASSUME NEW start \in Int, NEW step \in Nat \ {0}, clock \in Nat,
           workload \in Workloads
    PROVE  LET s == RangeQuery(start, step) IN
           /\ s \in Seq(Nat)
           /\ \A i \in 1 .. Len(s) :
                s[i] = RateAt(FirstPoint(start, step) + (i - 1) * step)
           /\ step = 1 => \A i \in 1 .. Len(s) : s[i] = RateAt(clock - Len(s) + i)
  <1> DEFINE first == FirstPoint(start, step)
             n == IF first > clock THEN 0 ELSE (clock - first) \div step + 1
             s == RangeQuery(start, step)
  <1>1. first \in Nat /\ first >= Birth /\ Birth \in Nat
    BY FirstPointAfterBirth, PathAssumption
  <1> HIDE DEF first
  <1>2. n \in Nat
    <2>1. CASE first > clock
      BY <2>1
    <2>2. CASE ~(first > clock)
      <3>1. clock - first \in Nat
        BY <1>1, <2>2
      <3>2. (clock - first) \div step \in Nat
        BY <3>1, QuotientNatural
      <3> QED
        BY <2>2, <3>2
    <2> QED
      BY <2>1, <2>2
  <1>3. step = 1 /\ n > 0 => first = clock - n + 1
    BY <1>1
  <1>4. s = [i \in 1 .. n |-> RateAt(first + (i - 1) * step)]
    BY DEF RangeQuery, first
  <1> HIDE DEF n, s
  <1>5. \A i \in 1 .. n : RateAt(first + (i - 1) * step) \in Nat
    <2> TAKE i \in 1 .. n
    <2>1. (i - 1) * step \in Nat
      <3>1. i - 1 \in Nat
        BY <1>2
      <3> QED
        BY <3>1, TimesNatural
    <2>2. first + (i - 1) * step \in Nat /\ first + (i - 1) * step >= Birth
      BY <1>1, <2>1
    <2> QED
      BY <2>2, RatesAreNatural
  <1>6. s \in Seq(Nat) /\ Len(s) = n
    BY <1>2, <1>4, <1>5
  <1>7. \A i \in 1 .. n : s[i] = RateAt(first + (i - 1) * step)
    BY <1>4
  <1>8. step = 1 => \A i \in 1 .. n : first + (i - 1) * step = clock - n + i
    BY <1>1, <1>2, <1>3
  <1> QED
    BY <1>6, <1>7, <1>8 DEF s, first

\* Traffic without peaks is a line, before Birth too.
LEMMA RateOfLine ==
    ASSUME NEW t \in Int, workload \in Workloads, workload.peak = 0
    PROVE  RateAt(t) = workload.base + workload.slope * (t - Birth)
  <1>1. workload.base \in Nat /\ workload.slope \in Nat /\ Birth \in Nat
    BY PathAssumption
  <1>2. workload.slope * (t - Birth) \in Int
    BY <1>1, SMT
  <1> QED
    BY <1>1, <1>2 DEF RateAt

\* Sampled at any step, a line is a line, and its slope per hour is found
\* again by the division by the step.
LEMMA QueriedSlope ==
    ASSUME NEW start \in Int, NEW step \in Nat \ {0}, clock \in Nat,
           workload \in Workloads, workload.peak = 0,
           Len(RangeQuery(start, step)) >= 2
    PROVE  TrendSlopeRpsPerMin(RangeQuery(start, step), step) = 6000 * workload.slope
  <1> DEFINE s == RangeQuery(start, step)
             first == FirstPoint(start, step)
             b == workload.base
             v == workload.slope
             c == b + v * (first - step - Birth)
             m == v * step
  <1>1. b \in Nat /\ v \in Nat /\ Birth \in Nat /\ first \in Nat
    BY PathAssumption, FirstPointAfterBirth
  <1>2. /\ s \in Seq(Nat)
        /\ \A i \in 1 .. Len(s) : s[i] = RateAt(first + (i - 1) * step)
    BY QueryTyped, Zenon
  <1> HIDE DEF s, first, b, v
  <1>3. \A i \in 1 .. Len(s) : s[i] = b + v * ((first + (i - 1) * step) - Birth)
    <2> TAKE i \in 1 .. Len(s)
    <2> DEFINE at == first + (i - 1) * step
    <2>1. at \in Int
      BY <1>1, <1>2, SMT
    <2>2. s[i] = RateAt(at)
      BY <1>2
    <2> HIDE DEF at
    <2>3. RateAt(at) = b + v * (at - Birth)
      BY <2>1, RateOfLine DEF b, v
    <2>4. s[i] = b + v * (at - Birth)
      BY <2>2, <2>3
    <2> QED
      BY <2>4 DEF at
  <1>4. \A i \in 1 .. Len(s) : s[i] = c + m * i
    <2> TAKE i \in 1 .. Len(s)
    <2>1. i \in Int
      BY <1>2
    <2>2. b + v * ((first + (i - 1) * step) - Birth)
            = b + v * (first - step - Birth) + (v * step) * i
      BY <1>1, <2>1, SMT
    <2> QED
      BY <1>3, <2>2
  <1>5. c \in Int /\ m \in Nat
    BY <1>1, SMT, TimesNatural
  <1> HIDE DEF c, m
  <1>6. s \in Seq(Int) /\ IsLine(s, c, m) /\ Len(s) >= 2
    BY <1>2, <1>4 DEF IsLine, s
  <1>7. TrendSlope(s) = 6000 * m
    BY <1>5, <1>6, SlopeOfLine
  <1>8. 6000 * m = (6000 * v) * step
    BY <1>1, SMT DEF m
  <1>9. DivToZero((6000 * v) * step, step) = 6000 * v
    <2> DEFINE a == 6000 * v
    <2>1. a \in Int
      BY <1>1
    <2> HIDE DEF a
    <2>2. DivToZero(a * step, step) = a
      BY <2>1, DivToZeroExact
    <2> QED
      BY <2>2 DEF a
  <1>10. ~(step <= 0)
    OBVIOUS
  <1> QED
    BY <1>7, <1>8, <1>9, <1>10 DEF TrendSlopeRpsPerMin, s, v

\* A history that can be marshalled is the one Prometheus has, without NaN.
LEMMA MarshalledIsNatural ==
    ASSUME NEW s \in Seq(Nat), NEW history \in WithOrWithoutNaN(s), Marshals(history)
    PROVE  history = s
  <1>1. SUFFICES ASSUME NEW i \in 1 .. Len(s), history = [s EXCEPT ![i] = NotANumber]
                 PROVE  FALSE
    BY DEF WithOrWithoutNaN
  <1>2. history[i] = NotANumber /\ i \in 1 .. Len(history)
    BY <1>1
  <1> QED
    BY <1>2, LearnedAssumption DEF Marshals

\* Validated settings give a WorkerConfig that the classification can use.
LEMMA WorkerConfigTyped ==
    ASSUME SettingsInv, cfg # None
    PROVE  IsWorkerConfig(WorkerConfig) /\ StepMinutes(WorkerConfig) \in Nat \ {0}
  <1>1. /\ cfg.CLASSIFIER_MIN_POINTS \in Int
        /\ cfg.CLASSIFIER_HIGH_CONFIDENCE_POINTS \in Int
        /\ cfg.CONTEXT_DOWNSAMPLE_RESOLUTION_MIN \in Int
        /\ cfg.CV_GUARD_MEAN_RPS \in Int
    BY DEF SettingsInv, Settings, Default
  <1>2. cfg.CLASSIFIER_MIN_POINTS >= 10
    <2> DEFINE r == cfg.CONTEXT_DOWNSAMPLE_RESOLUTION_MIN
    <2>1. r \in Nat \ {0} /\ cfg.CLASSIFIER_MIN_POINTS >= (60 \div r) + 10
      BY <1>1 DEF SettingsInv, Validate, PointsFloor
    <2> HIDE DEF r
    <2>2. 60 \div r \in Nat
      BY <2>1, QuotientNatural
    <2> QED
      BY <1>1, <2>1, <2>2
  <1>3. IsWorkerConfig(WorkerConfig)
    BY <1>1, <1>2 DEF WorkerConfig, MainWorkerConfig, FullWorkerConfig, IsWorkerConfig
  <1> QED
    BY <1>3 DEF IsWorkerConfig, StepMinutes, IsV2

\* Every classification leaves parameters inside the limits, and a context
\* block that tells the slope of the traffic.
LEMMA ClassificationKeeps ==
    ASSUME PathInv, RunClassification
    PROVE  ClassifiedInv' /\ ParamsInLimits'
  <1> DEFINE w == WorkerConfig
             step == StepMinutes(w)
             start == ColdStart
             s == RangeQuery(start, step)
  <1>0. /\ SettingsInv /\ cfg # None /\ clock \in Nat /\ workload \in Workloads
        /\ workload' = workload
    BY DEF PathInv, WorldInv, RunClassification, worldVars
  <1>1. IsWorkerConfig(w) /\ step \in Nat \ {0}
    BY <1>0, WorkerConfigTyped
  <1>2. start \in Int
    BY <1>0 DEF SettingsInv, ColdStart, Settings, Default, MinutesPerHour
  <1>3. PICK result \in Classifications(s, w, MinReplicas, MaxReplicas, HourOf(start)) :
          result # None /\ classified' = result
    BY DEF RunClassification
  <1>4. s \in Seq(Nat)
    <2> HIDE DEF start, step
    <2> QED  BY <1>0, <1>1, <1>2, QueryTyped
  <1> HIDE DEF w, start
  <1>5. PICK series : series = s
    OBVIOUS
  <1>6. /\ Len(series) >= 10
        /\ result.params.scaleUpCooldown \in 30 .. 180
        /\ result.params.scaleDownCooldown \in 60 .. 600
        /\ result.params.maxStepSize \in 1 .. Larger(1, MaxReplicas - MinReplicas)
        /\ result.params.preferredForecaster \in Models
        /\ result.pattern \in {"flat", "periodic", "spiky", "gradual_ramp", "default"}
        /\ result.confidence \in {"high", "medium"}
        /\ result.context # None =>
             /\ IsV2(w)
             /\ DOMAIN result.context.hourlyProfile = 0 .. HoursPerDay - 1
             /\ result.context.peakP95RPS = Percentile(series, 95)
             /\ result.context.trend24hSlope =
                  TrendSlopeRpsPerMin(series, AtLeastOne(w.resolutionMin))
    <2> DEFINE hour == HourOf(start)
    <2>1. /\ result \in Classifications(series, w, MinReplicas, MaxReplicas, hour)
          /\ series \in Seq(Nat) /\ result # None
      BY <1>3, <1>4, <1>5
    <2> HIDE DEF hour
    <2> QED
      BY <1>1, <2>1, ClassificationInLimits
  <1>7. ParamsInLimits'
    BY <1>3, <1>6 DEF ParamsInLimits
  <1>8. ASSUME result.context # None PROVE SlopeTold(result.context)
    <2>1. AtLeastOne(w.resolutionMin) = step
      BY <1>1, <1>6, <1>8 DEF IsV2, AtLeastOne, StepMinutes, IsWorkerConfig
    <2> HIDE DEF step
    <2>2. result.context.peakP95RPS \in Nat
      <3>1. 95 \in 1 .. 100 /\ Len(series) >= 1 /\ series \in Seq(Nat)
        BY <1>4, <1>5, <1>6
      <3>2. Percentile(series, 95) \in Nat
        BY <3>1, PercentileNatural
      <3> QED
        BY <1>6, <1>8, <3>2
    <2>3. result.context.trend24hSlope \in Int
      <3>1. series \in Seq(Int) /\ step \in Int
        BY <1>1, <1>4, <1>5
      <3> QED
        BY <1>6, <1>8, <2>1, <3>1, SlopePerMinTyped
    <2>4. workload.peak = 0 => result.context.trend24hSlope = 6000 * workload.slope
      <3>1. Len(RangeQuery(start, step)) >= 2
        BY <1>4, <1>5, <1>6
      <3> QED
        BY <1>0, <1>1, <1>2, <1>5, <1>6, <1>8, <2>1, <3>1, QueriedSlope
    <2> QED
      BY <2>2, <2>3, <2>4 DEF SlopeTold
  <1>9. ClassifiedInv'
    <2>1. result.context # None => SlopeTold(result.context)'
      BY <1>0, <1>8 DEF SlopeTold
    <2> QED
      BY <1>3, <1>6, <2>1 DEF ClassifiedInv
  <1> QED
    BY <1>7, <1>9

\* What BuildRequest puts on the wire passes the service's validation, holds
\* the latest minutes and hands on what the classification says.
LEMMA BuiltIsValid ==
    ASSUME PathInv, BuildRequest
    PROVE  ValidRequest(call'.request) /\ call'.stage = "sent"
           /\ (call'.pin \in Models => call'.request.preferredModel = call'.pin)
           /\ HistorySent'
  <1> DEFINE start == clock - cfg.HOT_PATH_HISTORY_MINUTES
             query == RangeQuery(start, 1)
             chosen == CoalesceStr(object.pin,
                           IF classified = None THEN None
                           ELSE classified.params.preferredForecaster, "auto")
             context == BuildForecastContext(object.skipContext, classified, clock)
  <1>1. PICK history \in WithOrWithoutNaN(query) :
          /\ Len(history) >= cfg.HOT_PATH_MIN_POINTS
          /\ Marshals(history)
          /\ call' = [ stage |-> "sent", at |-> clock, pin |-> object.pin,
                       request |-> [ rpsHistory |-> history,
                                     preferredModel |-> WireModel(chosen),
                                     context |-> context ] ]
    BY DEF BuildRequest
  <1>2. /\ cfg.HOT_PATH_HISTORY_MINUTES \in Int /\ cfg.HOT_PATH_MIN_POINTS \in Int
        /\ cfg.HOT_PATH_MIN_POINTS >= 1 /\ clock \in Nat /\ workload \in Workloads
    BY DEF PathInv, SettingsInv, WorldInv, BuildRequest, Validate, Settings, Default
  <1>3. /\ query \in Seq(Nat)
        /\ \A i \in 1 .. Len(query) : query[i] = RateAt(clock - Len(query) + i)
    <2>1. start \in Int /\ 1 \in Nat \ {0}
      BY <1>2
    <2> HIDE DEF start
    <2> QED
      BY <1>2, <2>1, QueryTyped, Zenon
  <1>4. history = query
    BY <1>1, <1>3, MarshalledIsNatural
  <1>5. Len(history) >= 1 /\ \A i \in 1 .. Len(history) : history[i] >= 0
    BY <1>1, <1>2, <1>3, <1>4
  <1>6. /\ chosen \in Forecasters
        /\ object.pin \in Models => chosen = object.pin
    BY PathAssumption DEF PathInv, WorldInv, ParamsInLimits, CoalesceStr, Forecasters, Models
  <1>7. /\ WireModel(chosen) \in Optional(Forecasters)
        /\ object.pin \in Models => WireModel(chosen) = object.pin
    BY <1>6 DEF WireModel, Models
  <1>8. context # None =>
          /\ DOMAIN context.hourlyProfile = 0 .. 23
          /\ context.currentHourUTC \in 0 .. 23
          /\ context.currentMinuteUTC \in 0 .. 59
          /\ SlopeTold(context)
    BY <1>2 DEF PathInv, ClassifiedInv, BuildForecastContext, HoursPerDay,
       MinutesPerHour, SlopeTold
  <1>9. Cardinality(0 .. 23) = 24
    <2>1. 0 \in Int /\ 23 \in Int
      OBVIOUS
    <2>2. Cardinality(0 .. 23) = IF 0 > 23 THEN 0 ELSE 23 - 0 + 1
      BY <2>1, FS_Interval, Zenon
    <2> QED
      BY <2>2
  <1>10. HistorySent'
    <2>1. workload' = workload
      BY DEF BuildRequest, worldVars
    <2>2. PICK now, told : now = clock /\ told = context
      OBVIOUS
    <2>3. \A t : RateAt(t)' = RateAt(t)
      BY <2>1 DEF RateAt
    <2>4. told # None => SlopeTold(told)'
      <3> HIDE DEF context
      <3> QED  BY <1>8, <2>1, <2>2 DEF SlopeTold
    <2>5. \A i \in 1 .. Len(history) : history[i] = RateAt(now - Len(history) + i)'
      <3> HIDE DEF query
      <3> QED  BY <1>3, <1>4, <2>2, <2>3
    <2>6. /\ call'.at = now /\ now \in Nat /\ call'.request.rpsHistory = history
          /\ history \in Seq(Nat) /\ call'.request.context = told
      <3> HIDE DEF context, query
      <3> QED  BY <1>1, <1>2, <1>3, <1>4, <2>2
    <2> QED
      BY <2>4, <2>5, <2>6 DEF HistorySent
  <1> QED
    BY <1>1, <1>5, <1>7, <1>8, <1>9, <1>10 DEF ValidRequest

-----------------------------------------------------------------------------
(* Answers. *)

\* recommend answers with the pinned forecaster or linear_extrap; a Prophet
\* failure is an answer of linear_extrap.
LEMMA RecommendResolves ==
    ASSUME NEW req, NEW e, NEW learned
    PROVE  LET r == Recommend(req, e, learned) IN
           /\ r.modelUsed \in Models
           /\ req.preferredModel \in Models =>
                r.modelUsed \in {req.preferredModel, "linear_extrap"}
           /\ r.modelUsed = "gbdt_quantile" => req.preferredModel = "gbdt_quantile"
           /\ r.prophetFailed => r.modelUsed = "linear_extrap"
           /\ r.prophetFailed \in BOOLEAN
  BY DEF Recommend, FirstChoice, ShouldUseProphet, Models

\* The window of a line is the end of it.
LEMMA WindowOfLine ==
    ASSUME NEW history \in Seq(Nat), Len(history) >= 2, NEW most \in Nat, most >= 2,
           NEW c \in Int, NEW m \in Nat, IsLine(history, c, m)
    PROVE  LET s == LastOf(history, most) IN
           /\ s \in Seq(Nat) /\ Len(s) >= 2
           /\ IsLine(s, c + m * (Len(history) - Len(s)), m)
  <1> DEFINE len == Len(history)
             from == Larger(1, len - most + 1)
             n == len - from + 1
             s == LastOf(history, most)
  <1>1. /\ len \in Nat /\ from \in Nat /\ n \in Nat
        /\ from >= 1 /\ from <= len /\ n >= 2 /\ from - 1 = len - n
    BY DEF Larger
  <1>2. /\ \A i \in 1 .. len : history[i] \in Nat /\ history[i] = c + m * i
    BY DEF IsLine
  <1>3. s = SubSeq(history, from, len)
    BY DEF LastOf
  <1> HIDE DEF from
  <1>4. s \in Seq(Nat) /\ Len(s) = n /\ \A i \in 1 .. n : s[i] = history[from + i - 1]
    <2>1. from \in Int /\ len \in Int /\ \A i \in from .. len : history[i] \in Nat
      BY <1>1, <1>2
    <2> HIDE DEF len
    <2>2. /\ SubSeq(history, from, len) \in Seq(Nat)
          /\ Len(SubSeq(history, from, len)) = IF from <= len THEN len - from + 1 ELSE 0
          /\ \A i \in 1 .. len - from + 1 :
               SubSeq(history, from, len)[i] = history[from + i - 1]
      BY <2>1, SubSeqProperties
    <2> HIDE DEF s
    <2> QED
      BY <1>1, <1>3, <2>2
  <1> HIDE DEF len, n, s
  <1>5. \A i \in 1 .. n : s[i] = (c + m * (len - n)) + m * i
    <2> TAKE i \in 1 .. n
    <2>1. i \in Int /\ from + i - 1 \in 1 .. len /\ from + i - 1 = (len - n) + i
      BY <1>1 DEF n
    <2>2. s[i] = c + m * ((len - n) + i)
      BY <1>2, <1>4, <2>1
    <2>3. c + m * ((len - n) + i) = (c + m * (len - n)) + m * i
      BY <1>1, <2>1, SMT
    <2> QED
      BY <2>2, <2>3
  <1> QED
    BY <1>1, <1>4, <1>5 DEF IsLine, len, s

\* The line through the centroid, read off at the horizon, in the units of
\* ForecastLinearExtrap.
LEMMA ReadAhead ==
    ASSUME NEW n \in Nat, NEW c \in Int, NEW m \in Nat, NEW h \in Int, NEW sum \in Int,
           2 * sum = (2 * c + m * (n + 1)) * n
    PROVE  12000 * sum + n * (6000 * m) * (n + 2 * h - 1)
             = (100 * (c + m * (n + h))) * (120 * n)
  <1>1. 12000 * sum = 6000 * ((2 * c + m * (n + 1)) * n)
    <2> DEFINE x == (2 * c + m * (n + 1)) * n
    <2>1. x \in Int /\ 2 * sum = x
      BY SMT
    <2> HIDE DEF x
    <2>2. 12000 * sum = 6000 * x
      BY <2>1
    <2> QED
      BY <2>2 DEF x
  <1>2. 6000 * ((2 * c + m * (n + 1)) * n) + n * (6000 * m) * (n + 2 * h - 1)
          = (100 * (c + m * (n + h))) * (120 * n)
    BY SMT
  <1> QED
    BY <1>1, <1>2

LEMMA BlendOfEqualSlopes ==
    ASSUME NEW w \in 0 .. 10, NEW slope \in Int
    PROVE  DivToZero(w * slope + (10 - w) * slope, 10) = slope
  <1>1. w * slope + (10 - w) * slope = slope * 10
    BY SMT
  <1>2. DivToZero(slope * 10, 10) = slope
    BY DivToZeroExact
  <1> QED
    BY <1>1, <1>2

\* Clipping below at zero and above at a positive cap commute.
LEMMA ClipsCommute ==
    ASSUME NEW x \in Int, NEW cap \in Nat
    PROVE  AtLeastZero(CappedAt(x, cap)) = CappedAt(AtLeastZero(x), cap)
  BY LearnedAssumption DEF AtLeastZero, CappedAt, Larger

\* linear_extrap continues a line exactly, for every window of two samples or
\* more, every weight of the blend and every horizon, as long as the context
\* tells the same slope.
THEOREM LinearExtrapExact ==
    ASSUME NEW history \in Seq(Nat), Len(history) >= 2,
           NEW c \in Int, NEW m \in Nat, IsLine(history, c, m),
           NEW e, WindowMinutes(e) \in Nat, WindowMinutes(e) >= 2,
           RecentWeight(e) \in 0 .. 10, Horizon(e) \in Int,
           NEW context,
           context # None => /\ context.peakP95RPS \in Nat
                             /\ context.trend24hSlope = 6000 * m
    PROVE  LET line == AtLeastZero(100 * (c + m * (Len(history) + Horizon(e))))
           IN  ForecastLinearExtrap(history, e, context) =
                 IF context # None /\ context.peakP95RPS > 0
                 THEN CappedAt(line, 150 * context.peakP95RPS) ELSE line
  <1> DEFINE most == WindowMinutes(e)
             s == LastOf(history, most)
             n == Len(s)
             len == Len(history)
             h == Horizon(e)
             w == RecentWeight(e)
             d == c + m * (len - n)
             slope == IF context = None THEN TrendSlope(s)
                      ELSE DivToZero(w * TrendSlope(s) + (10 - w) * context.trend24hSlope, 10)
             line == DivToZero(12000 * SeriesSum(s) + n * slope * (n + 2 * h - 1), 120 * n)
             exact == 100 * (c + m * (len + h))
  <1>1. s \in Seq(Nat) /\ n >= 2 /\ IsLine(s, d, m)
    <2>1. most \in Nat /\ most >= 2
      OBVIOUS
    <2> HIDE DEF most
    <2> QED
      BY <2>1, WindowOfLine
  <1>2. len \in Nat /\ n \in Nat /\ h \in Int /\ s \in Seq(Int)
    BY <1>1
  <1>3. ForecastLinearExtrap(history, e, context) =
          IF n = 1 THEN 100 * s[1]
          ELSE IF context # None /\ context.peakP95RPS > 0
          THEN AtLeastZero(CappedAt(line, 150 * context.peakP95RPS))
          ELSE AtLeastZero(line)
    BY DEF ForecastLinearExtrap
  <1> HIDE DEF s, n, len, h, w
  <1>4. d \in Int
    BY <1>2, SMT
  <1> HIDE DEF d
  <1>5. TrendSlope(s) = 6000 * m
    BY <1>1, <1>2, <1>4, SlopeOfLine DEF n
  <1>6. slope = 6000 * m
    <2>1. w \in 0 .. 10 /\ 6000 * m \in Int
      BY DEF w
    <2>2. DivToZero(w * (6000 * m) + (10 - w) * (6000 * m), 10) = 6000 * m
      BY <2>1, BlendOfEqualSlopes
    <2> QED
      BY <1>5, <2>2
  <1>7. SeriesSum(s) \in Int /\ 2 * SeriesSum(s) = (2 * d + m * (n + 1)) * n
    BY <1>1, <1>2, <1>4, LineSums DEF n
  <1>8. 12000 * SeriesSum(s) + n * (6000 * m) * (n + 2 * h - 1)
          = (100 * (d + m * (n + h))) * (120 * n)
    BY <1>2, <1>4, <1>7, ReadAhead
  <1>9. 100 * (d + m * (n + h)) = exact /\ exact \in Int
    BY <1>2, SMT DEF d
  <1>10. line = exact
    <2> DEFINE k == 120 * n
    <2>1. k \in Nat \ {0}
      BY <1>1, <1>2
    <2> HIDE DEF exact, slope
    <2>2. line = DivToZero(exact * k, k)
      BY <1>6, <1>8, <1>9
    <2> HIDE DEF k, line
    <2> QED
      BY <1>9, <2>1, <2>2, DivToZeroExact
  <1>11. context # None =>
           AtLeastZero(CappedAt(exact, 150 * context.peakP95RPS))
             = CappedAt(AtLeastZero(exact), 150 * context.peakP95RPS)
    <2> SUFFICES ASSUME context # None
                 PROVE  AtLeastZero(CappedAt(exact, 150 * context.peakP95RPS))
                          = CappedAt(AtLeastZero(exact), 150 * context.peakP95RPS)
      OBVIOUS
    <2>1. 150 * context.peakP95RPS \in Nat
      OBVIOUS
    <2> HIDE DEF exact
    <2> QED
      BY <1>9, <2>1, ClipsCommute
  <1>12. n # 1
    BY <1>1, <1>2
  <1> HIDE DEF line, exact
  <1>13. ForecastLinearExtrap(history, e, context) =
           IF context # None /\ context.peakP95RPS > 0
           THEN CappedAt(AtLeastZero(exact), 150 * context.peakP95RPS)
           ELSE AtLeastZero(exact)
    BY <1>3, <1>10, <1>11, <1>12
  <1> QED
    BY <1>13 DEF exact, len, h

LEMMA ServiceSettings ==
    ASSUME NEW e \in ServiceEnvs, Starts(e)
    PROVE  /\ WindowMinutes(e) \in Nat /\ RecentWeight(e) \in 0 .. 10
           /\ Horizon(e) \in Int
  <1>1. \A v \in DOMAIN ServiceDefault : SettingOf(e, v) \in Int
    <2> TAKE v \in DOMAIN ServiceDefault
    <2>1. e[v] \in Int \cup {None, Malformed} /\ e[v] # Malformed
      BY PathAssumption DEF Starts
    <2>2. ServiceDefault[v] \in Int
      BY DEF ServiceDefault
    <2> QED
      BY <2>1, <2>2 DEF SettingOf
  <1> QED
    BY <1>1 DEF WindowMinutes, RecentWeight, Horizon, Sensible, ServiceDefault

LEMMA LinearAnswers ==
    ASSUME NEW req, NEW e, NEW learned,
           Recommend(req, e, learned).modelUsed = "linear_extrap"
    PROVE  Recommend(req, e, learned).predicted =
             ForecastLinearExtrap(req.rpsHistory, e, req.context)
  BY DEF Recommend, FirstChoice, Try

\* The history of a request over traffic without peaks is a line, and that
\* line meets the traffic again at every later minute.
LEMMA SentLine ==
    ASSUME HistorySent, call.stage = "sent", workload \in Workloads, workload.peak = 0,
           NEW h \in Int
    PROVE  \E c \in Int :
             /\ IsLine(call.request.rpsHistory, c, workload.slope)
             /\ c + workload.slope * (Len(call.request.rpsHistory) + h)
                  = RateAt(call.at + h)
  <1> DEFINE s == call.request.rpsHistory
             n == Len(s)
             at == call.at
             b == workload.base
             v == workload.slope
             c == b + v * ((at - n) - Birth)
  <1>1. b \in Nat /\ v \in Nat /\ Birth \in Nat
    BY PathAssumption
  <1>2. /\ at \in Nat /\ s \in Seq(Nat) /\ n \in Nat
        /\ \A i \in 1 .. n : s[i] = RateAt(at - n + i)
    BY DEF HistorySent
  <1>3. \A t \in Int : RateAt(t) = b + v * (t - Birth)
    BY RateOfLine
  <1> HIDE DEF s, n, at, b, v
  <1>4. c \in Int
    BY <1>1, <1>2, SMT
  <1>5. \A i \in 1 .. n : s[i] = c + v * i
    <2> TAKE i \in 1 .. n
    <2>1. i \in Int /\ at - n + i \in Int
      BY <1>2
    <2>2. s[i] = b + v * ((at - n + i) - Birth)
      BY <1>2, <1>3, <2>1
    <2>3. b + v * ((at - n + i) - Birth) = (b + v * ((at - n) - Birth)) + v * i
      BY <1>1, <1>2, <2>1, SMT
    <2> QED
      BY <2>2, <2>3
  <1>6. c + v * (n + h) = RateAt(at + h)
    <2>1. at + h \in Int
      BY <1>2
    <2>2. RateAt(at + h) = b + v * ((at + h) - Birth)
      BY <1>3, <2>1
    <2>3. (b + v * ((at - n) - Birth)) + v * (n + h) = b + v * ((at + h) - Birth)
      BY <1>1, <1>2, SMT
    <2> QED
      BY <2>2, <2>3
  <1> HIDE DEF c
  <1> QED
    BY <1>4, <1>5, <1>6 DEF IsLine, s, n, at, v

\* An answer of linear_extrap to a request over traffic without peaks.
LEMMA LineAnswered ==
    ASSUME PathInv, serving, call.stage = "sent", workload.peak = 0, NEW learned,
           Recommend(call.request, senv, learned).modelUsed = "linear_extrap",
           Len(call.request.rpsHistory) >= 2, WindowMinutes(senv) >= 2
    PROVE  LET line == AtLeastZero(100 * RateAt(call.at + Horizon(senv)))
               context == call.request.context
           IN  Recommend(call.request, senv, learned).predicted =
                 IF context # None /\ context.peakP95RPS > 0
                 THEN CappedAt(line, 150 * context.peakP95RPS) ELSE line
  <1> DEFINE s == call.request.rpsHistory
             context == call.request.context
             m == workload.slope
             h == Horizon(senv)
  <1>1. /\ WindowMinutes(senv) \in Nat /\ RecentWeight(senv) \in 0 .. 10
        /\ h \in Int
    BY ServiceSettings DEF PathInv, ServiceInv
  <1>2. workload \in Workloads /\ m \in Nat
    BY PathAssumption DEF PathInv, WorldInv
  <1>3. s \in Seq(Nat)
    BY DEF PathInv, HistorySent
  <1>4. context # None => context.peakP95RPS \in Nat /\ context.trend24hSlope = 6000 * m
    BY DEF PathInv, HistorySent, SlopeTold
  <1>5. PICK c \in Int : /\ IsLine(s, c, m)
                         /\ c + m * (Len(s) + h) = RateAt(call.at + h)
    <2> HIDE DEF h
    <2> QED  BY <1>1, <1>2, SentLine DEF PathInv
  <1>6. Recommend(call.request, senv, learned).predicted =
          ForecastLinearExtrap(s, senv, context)
    BY LinearAnswers
  <1> HIDE DEF s, context, m, h
  <1>7. Len(s) >= 2
    BY DEF s
  <1>8. LET line == AtLeastZero(100 * (c + m * (Len(s) + Horizon(senv))))
        IN  ForecastLinearExtrap(s, senv, context) =
              IF context # None /\ context.peakP95RPS > 0
              THEN CappedAt(line, 150 * context.peakP95RPS) ELSE line
    BY <1>1, <1>2, <1>3, <1>4, <1>5, <1>7, LinearExtrapExact DEF h
  <1> QED
    BY <1>5, <1>6, <1>8 DEF s, context, h

LEMMA ServeKeeps ==
    ASSUME PathInv, Serve
    PROVE  /\ CountInv' /\ PinHonoured' /\ FallbacksCounted' /\ LineContinued'
           /\ call'.stage # "sent"
  <1>1. CASE ~ValidRequest(call.request)
    BY <1>1 DEF PathInv, RequestsValid, Serve
  <1>2. CASE ValidRequest(call.request)
    <2>1. PICK learned \in Learned :
            LET result == Recommend(call.request, senv, learned) IN
            /\ dispatched' = [dispatched EXCEPT ![result.modelUsed] = @ + 1]
            /\ prophetFailures' = prophetFailures + (IF result.prophetFailed THEN 1 ELSE 0)
            /\ call' = IF Encodes(result)
                       THEN [ stage |-> "answered", at |-> call.at, pin |-> call.pin,
                              request |-> call.request, result |-> result ]
                       ELSE NoCall
      BY <1>2 DEF Serve
    <2> DEFINE result == Recommend(call.request, senv, learned)
    <2>2. /\ result.modelUsed \in Models
          /\ call.request.preferredModel \in Models =>
               result.modelUsed \in {call.request.preferredModel, "linear_extrap"}
          /\ result.modelUsed = "gbdt_quantile" =>
               call.request.preferredModel = "gbdt_quantile"
          /\ result.prophetFailed => result.modelUsed = "linear_extrap"
      BY RecommendResolves
    <2>3. call.pin \in Models => call.request.preferredModel = call.pin
      BY DEF PathInv, PinSent, Serve
    <2> HIDE DEF result
    <2>4. PinHonoured' /\ call'.stage # "sent"
      BY <2>1, <2>2, <2>3 DEF PinHonoured, NoCall, result
    <2>5. CountInv'
      BY <2>1, <2>2 DEF PathInv, CountInv, result
    <2>6. FallbacksCounted'
      BY <2>1, <2>2 DEF PathInv, CountInv, FallbacksCounted, Models, result
    <2>7. LineContinued'
      <3>0. /\ workload' = workload /\ senv' = senv /\ serving /\ call.stage = "sent"
        BY DEF Serve, worldVars
      <3>1. PICK was, e : was = call /\ e = senv
        OBVIOUS
      <3>2. \A t : RateAt(t)' = RateAt(t)
        BY <3>0 DEF RateAt
      <3> SUFFICES ASSUME call'.stage = "answered", workload'.peak = 0,
                          call'.result.modelUsed = "linear_extrap",
                          Len(call'.request.rpsHistory) >= 2, WindowMinutes(senv') >= 2
                   PROVE  LET line == AtLeastZero(100 * RateAt(was.at + Horizon(e))')
                              context == was.request.context
                          IN  call'.result.predicted =
                                IF context # None /\ context.peakP95RPS > 0
                                THEN CappedAt(line, 150 * context.peakP95RPS) ELSE line
        BY <2>1, <3>0, <3>1 DEF LineContinued, NoCall
      <3>3. call'.result = result /\ call'.request = call.request
        BY <2>1 DEF NoCall, result
      <3>4. /\ result.modelUsed = "linear_extrap" /\ workload.peak = 0
            /\ Len(call.request.rpsHistory) >= 2 /\ WindowMinutes(senv) >= 2
        BY <3>0, <3>3
      <3>5. LET line == AtLeastZero(100 * RateAt(call.at + Horizon(senv)))
                context == call.request.context
            IN  result.predicted =
                  IF context # None /\ context.peakP95RPS > 0
                  THEN CappedAt(line, 150 * context.peakP95RPS) ELSE line
        BY <3>0, <3>4, LineAnswered DEF result
      <3> QED
        BY <3>1, <3>2, <3>3, <3>5
    <2> QED
      BY <2>4, <2>5, <2>6, <2>7
  <1> QED
    BY <1>1, <1>2

-----------------------------------------------------------------------------
(* The invariant and the theorems. *)

LEMMA PathInvInit == Init => PathInv
  <1> SUFFICES ASSUME Init PROVE PathInv
    OBVIOUS
  <1> USE DEF Init, NoCall, NoCounts
  <1>1. SettingsInv /\ ClassifiedInv /\ ParamsInLimits
    BY DEF SettingsInv, ClassifiedInv, ParamsInLimits
  <1>2. WorldInv /\ ServiceInv
    BY PathAssumption DEF WorldInv, ServiceInv
  <1>3. CountInv /\ FallbacksCounted
    BY DEF CountInv, FallbacksCounted, Models
  <1>4. RequestsValid /\ PinSent /\ HistorySent /\ PinHonoured /\ LineContinued
    BY DEF RequestsValid, PinSent, HistorySent, PinHonoured, LineContinued
  <1> QED
    BY <1>1, <1>2, <1>3, <1>4 DEF PathInv

\* The parts about the call, while it stays as it is or ends.
CallInv ==
    RequestsValid /\ PinSent /\ HistorySent /\ PinHonoured /\ LineContinued

LEMMA NoCallQuiet ==
    ASSUME call' = NoCall
    PROVE  CallInv'
  BY DEF CallInv, NoCall, RequestsValid, PinSent, HistorySent, PinHonoured, LineContinued

LEMMA SameCall ==
    ASSUME PathInv, call' = call, workload' = workload, senv' = senv
    PROVE  CallInv'
  <1>1. RequestsValid' /\ PinSent' /\ PinHonoured'
    BY DEF PathInv, RequestsValid, PinSent, PinHonoured
  <1>2. HistorySent'
    BY DEF PathInv, HistorySent, SlopeTold, RateAt
  <1>3. LineContinued'
    BY DEF PathInv, LineContinued, RateAt
  <1> QED
    BY <1>1, <1>2, <1>3 DEF CallInv

\* The other parts, from the variables they read.
LEMMA SameCounts ==
    ASSUME PathInv, dispatched' = dispatched, prophetFailures' = prophetFailures
    PROVE  CountInv' /\ FallbacksCounted'
  BY DEF PathInv, CountInv, FallbacksCounted

LEMMA SameClassified ==
    ASSUME PathInv, classified' = classified, workload' = workload
    PROVE  ClassifiedInv' /\ ParamsInLimits'
  BY DEF PathInv, ClassifiedInv, ParamsInLimits, SlopeTold

LEMMA SameSettings ==
    ASSUME PathInv, cfg' = cfg
    PROVE  SettingsInv'
  BY DEF PathInv, SettingsInv

LEMMA PathInvNext == PathInv /\ [Next]_vars => PathInv'
  <1> SUFFICES ASSUME PathInv, [Next]_vars PROVE PathInv'
    OBVIOUS
  <1> USE DEF settingVars, serviceVars, worldVars
  <1>0. /\ env \in Envs /\ clock \in Nat /\ workload \in Workloads
        /\ object.pin \in Pins /\ senv \in ServiceEnvs /\ (serving => Starts(senv))
    BY DEF PathInv, WorldInv, ServiceInv
  <1>1. WorldInv' /\ ServiceInv' /\ workload' = workload
    BY <1>0, PathAssumption DEF WorldInv, ServiceInv, Next, vars, StartController, SetEnv,
       RunClassification, BuildRequest, Receive, GiveUp, StartService, SetServiceEnv,
       Serve, EditObject, Tick
  <1>2. SettingsInv'
    <2>1. CASE StartController
      <3>1. env \in Environment
        BY <1>0, PathAssumption
      <3> QED
        BY <2>1, <3>1, LoadedIsValid DEF StartController, SettingsInv
    <2>2. CASE SetEnv
      BY <2>2 DEF SetEnv, SettingsInv
    <2>3. CASE cfg' = cfg
      BY <2>3, SameSettings
    <2> QED
      BY <2>1, <2>2, <2>3 DEF Next, vars, RunClassification, BuildRequest, Receive,
         GiveUp, StartService, SetServiceEnv, Serve, EditObject, Tick
  <1>3. ClassifiedInv' /\ ParamsInLimits'
    <2>1. CASE RunClassification
      BY <2>1, ClassificationKeeps
    <2>2. CASE classified' = classified
      BY <1>1, <2>2, SameClassified
    <2> QED
      BY <2>1, <2>2 DEF Next, vars, StartController, SetEnv, BuildRequest, Receive,
         GiveUp, StartService, SetServiceEnv, Serve, EditObject, Tick
  <1>4. CountInv' /\ FallbacksCounted'
    <2>1. CASE SetServiceEnv
      BY <2>1 DEF SetServiceEnv, NoCounts, CountInv, FallbacksCounted, Models
    <2>2. CASE Serve
      BY <2>2, ServeKeeps
    <2>3. CASE dispatched' = dispatched /\ prophetFailures' = prophetFailures
      BY <2>3, SameCounts
    <2> QED
      BY <2>1, <2>2, <2>3 DEF Next, vars, StartController, SetEnv, RunClassification,
         BuildRequest, Receive, GiveUp, StartService, EditObject, Tick
  <1>5. CallInv'
    <2>1. CASE BuildRequest
      BY <2>1, BuiltIsValid
         DEF CallInv, RequestsValid, PinSent, PinHonoured, LineContinued
    <2>2. CASE Serve
      BY <2>2, ServeKeeps DEF CallInv, RequestsValid, PinSent, HistorySent
    <2>3. CASE call' = NoCall
      BY <2>3, NoCallQuiet
    <2>4. CASE call' = call /\ senv' = senv
      BY <1>1, <2>4, SameCall
    <2> QED
      BY <2>1, <2>2, <2>3, <2>4 DEF Next, vars, StartController, SetEnv,
         RunClassification, Receive, GiveUp, StartService, SetServiceEnv, EditObject, Tick
  <1> QED
    BY <1>1, <1>2, <1>3, <1>4, <1>5 DEF PathInv, CallInv

LEMMA PathInvAlways == Spec => []PathInv
  BY PathInvInit, PathInvNext, PTL DEF Spec

\* However the controller is set up, whatever is pinned, classified or
\* annotated: no request of it is refused by the service's validation.
THEOREM RequestsAlwaysValid == Spec => []RequestsValid
  <1>1. PathInv => RequestsValid
    BY DEF PathInv
  <1> QED
    BY <1>1, PathInvAlways, PTL

\* A pinned forecaster answers, or linear_extrap in its place; gbdt_quantile
\* never without having been asked for.
THEOREM PinAlwaysHonoured == Spec => []PinHonoured
  <1>1. PathInv => PinHonoured
    BY DEF PathInv
  <1> QED
    BY <1>1, PathInvAlways, PTL

\* Every Prophet failure is covered by a dispatch of linear_extrap.
THEOREM FallbacksAlwaysCounted == Spec => []FallbacksCounted
  <1>1. PathInv => FallbacksCounted
    BY DEF PathInv
  <1> QED
    BY <1>1, PathInvAlways, PTL

\* Whatever the traffic has been, and whatever settings and wiring are in
\* force, only parameters inside the hard limits are ever classified.
THEOREM ParamsAlwaysInLimits == Spec => []ParamsInLimits
  <1>1. PathInv => ParamsInLimits
    BY DEF PathInv
  <1> QED
    BY <1>1, PathInvAlways, PTL

\* Traffic on a line is predicted exactly by linear_extrap, for every slope,
\* window, horizon, weight of the blend and resolution of the context.
THEOREM LineAlwaysContinued == Spec => []LineContinued
  <1>1. PathInv => LineContinued
    BY DEF PathInv
  <1> QED
    BY <1>1, PathInvAlways, PTL
=============================================================================
