--------------------------- MODULE Classification ---------------------------
(***************************************************************************)
(* The classification pipeline of internal/classifier: from a series of    *)
(* rates to a traffic pattern, the scaling parameters for it and the       *)
(* context block for the forecast service.                                 *)
(*                                                                         *)
(* Data.  A series is a non-empty sequence of whole rps; a feature is a    *)
(* whole number of hundredths, rounded towards zero; a slope is in         *)
(* hundredths of an rps per 60 samples, or per hour after the division by  *)
(* the resolution.  The code's floats differ from this only in rounding.   *)
(* The Pearson correlation of a series that is long enough is any member   *)
(* of Correlations: every other step is a function of its input.           *)
(***************************************************************************)
EXTENDS Admission, FiniteSetsExt

CONSTANT Correlations  \* values of the hourly autocorrelation, in hundredths

ASSUME CorrelationsAssumption == Correlations \subseteq -100 .. 100

MinutesPerHour == 60
HoursPerDay == 24

\* features.go: the lag at one sample per minute, the samples a correlation
\* must overlap in, and the mean below which variation counts as noise.
TodLag == 60
MinTodOverlap == 10
CVGuardMeanRPS == 1

AtLeastOne(x) == IF x < 1 THEN 1 ELSE x
Larger(x, y) == IF x > y THEN x ELSE y
Abs(x) == IF x < 0 THEN -x ELSE x
DivToZero(a, b) == IF a >= 0 THEN a \div b ELSE -((-a) \div b)

\* 100 * a / b, rounded down, in numbers that stay near a and b.
Hundredfold(a, b) == 100 * (a \div b) + (100 * (a % b)) \div b

\* math.Round of a quotient of naturals: halves go up.
RoundDiv(a, b) == (2 * a + b) \div (2 * b)

-----------------------------------------------------------------------------
(* Features. *)

SeriesSum(s) ==
    LET upTo[i \in 0 .. Len(s)] == IF i = 0 THEN 0 ELSE upTo[i - 1] + s[i]
    IN  upTo[Len(s)]

SquareSum(s) == SeriesSum([i \in 1 .. Len(s) |-> s[i] * s[i]])

\* n^2 times the variance.
Spread(s) == Len(s) * SquareSum(s) - SeriesSum(s) * SeriesSum(s)

\* The whole part of a square root that is at most most.
RootUpTo(x, most) == Max({p \in 0 .. most : p * p <= x})

\* stddev / mean, zero below the guard.
CV(s, guard) ==
    IF SeriesSum(s) < guard * Len(s) THEN 0
    ELSE LET perSum == (100 * Spread(s)) \div SeriesSum(s)
         IN  RootUpTo((100 * perSum) \div SeriesSum(s), 100 * Len(s))

\* percentile, for p in hundredths.
Percentile(s, p) == Ranked(s, CeilDiv(p * Len(s), 100))

\* p99 / max(mean, guard).
PeakToTrough(s, guard) ==
    (100 * Percentile(s, 99) * Len(s)) \div Larger(SeriesSum(s), guard * Len(s))

\* trendSlope.  Around the middle of the series, in half samples, index i is
\* at 2i - n - 1; the slope is the ratio of the two sums below, doubled.
TrendSlope(s) ==
    LET at(i) == 2 * i - Len(s) - 1
        total == SeriesSum([i \in 1 .. Len(s) |-> at(i) * s[i]])
        squares == SeriesSum([i \in 1 .. Len(s) |-> at(i) * at(i)])
        hourly == Hundredfold(120 * Abs(total), squares)
    IN  IF Len(s) < 2 THEN 0 ELSE IF total < 0 THEN -hourly ELSE hourly

\* Mutant: the slope stays per sample.
TrendSlopePerSample(s, resolutionMin) == TrendSlope(s)

TrendSlopeRpsPerMin(s, resolutionMin) ==
    IF resolutionMin <= 0 THEN TrendSlope(s)
    ELSE DivToZero(TrendSlope(s), resolutionMin)

HourlyAutocorrLag(resolutionMin) ==
    IF resolutionMin <= 0 THEN 0 ELSE MinutesPerHour \div resolutionMin

Constant(s) == \A i \in 1 .. Len(s) : s[i] = s[1]

\* What hourlyAutocorr may yield: nothing to correlate gives zero, and so
\* does a lack of variance; a series shifted by no lag equals itself.
HourlyAutocorr(s, lag) ==
    IF Len(s) < lag + MinTodOverlap \/ Constant(s) THEN {0}
    ELSE IF lag = 0 THEN {0, 100}
    ELSE Correlations

\* ExtractFeatures and ExtractFeaturesV2; the autocorrelation is filled in
\* by Classifications.
ExtractFeatures(s) ==
    [ cv |-> CV(s, CVGuardMeanRPS), peakToTrough |-> PeakToTrough(s, CVGuardMeanRPS),
      hourlyAutocorr |-> 0, trendSlope |-> TrendSlope(s) ]

ExtractFeaturesV2(s, w) ==
    LET guard == IF w.cvGuardMeanRPS <= 0 THEN CVGuardMeanRPS ELSE w.cvGuardMeanRPS
    IN  [ cv |-> CV(s, guard), peakToTrough |-> PeakToTrough(s, guard),
          hourlyAutocorr |-> 0,
          trendSlope |-> TrendSlopeRpsPerMin(s, AtLeastOne(w.resolutionMin)) ]

-----------------------------------------------------------------------------
(* Pattern, parameters, confidence. *)

\* The mean is given as a sum and a count.
ClassifyWithMean(f, sum, count) ==
    IF f.cv < 10 THEN "flat"
    ELSE IF f.hourlyAutocorr > 70 THEN "periodic"
    ELSE IF f.cv > 50 /\ f.peakToTrough > 500 THEN "spiky"
    ELSE IF HoursPerDay * Abs(f.trendSlope) * count > 20 * Larger(sum, count)
    THEN "gradual_ramp"
    ELSE "default"

\* Classify: a mean of one.
ClassifyPattern(f) == ClassifyWithMean(f, 1, 1)

\* clampInt32
Clamp(v, least, most) == IF v < least THEN least ELSE IF v > most THEN most ELSE v

ForecasterForPattern(pattern) ==
    CASE pattern = "periodic" -> "prophet"
      [] pattern = "spiky" -> "gbdt_quantile"
      [] OTHER -> "linear_extrap"

\* The smallest k with ratio <= 2^k; the code's ceil(log2(ratio)).
MaxLog == 20
CeilLog2(ratio) == Cardinality({k \in 0 .. MaxLog : 100 * 2 ^ k < ratio})

\* Mutant: the step may reach past the range.
MaxStepUnclamped(peakToTrough, minReplicas, maxReplicas) ==
    AtLeastOne(CeilLog2(peakToTrough))

\* At most the range, so that one step cannot cross it.
MaxStep(peakToTrough, minReplicas, maxReplicas) ==
    Clamp(CeilLog2(peakToTrough), 1, AtLeastOne(maxReplicas - minReplicas))

\* 120 / (1 + 2 cv), and 180 (1 + 1.5 cv) / (1 + 0.5 max(0, autocorr)).
ComputeParams(f, pattern, minReplicas, maxReplicas) ==
    [ scaleUpCooldown |-> Clamp(RoundDiv(6000, 50 + f.cv), 30, 180),
      scaleDownCooldown |->
          Clamp(RoundDiv(36000 + 540 * f.cv, 200 + Larger(0, f.hourlyAutocorr)), 60, 600),
      maxStepSize |-> MaxStep(f.peakToTrough, minReplicas, maxReplicas),
      preferredForecaster |-> ForecasterForPattern(pattern) ]

Confidence(points, high, least) ==
    IF points >= high THEN "high" ELSE IF points >= least THEN "medium" ELSE ""

-----------------------------------------------------------------------------
(* The context block. *)

\* math.Round of the median.
RoundedMedian(s) == (Median([i \in 1 .. Len(s) |-> 2 * s[i]]) + 1) \div 2

\* The bucket of sample i counts samples from startHour: it does not look at
\* their timestamps.
PointsPerHour(resolutionMin) ==
    IF resolutionMin < 1 THEN 1 ELSE AtLeastOne(MinutesPerHour \div resolutionMin)

BucketOf(i, resolutionMin, startHour) ==
    (startHour + (i - 1) \div PointsPerHour(resolutionMin)) % HoursPerDay

ComputeHourlyProfile(s, resolutionMin, startHour, minHours) ==
    LET in(h) == {i \in 1 .. Len(s) : BucketOf(i, resolutionMin, startHour) = h}
        entry(h, k) == s[CHOOSE i \in in(h) : Cardinality({j \in in(h) : j <= i}) = k]
        bucket(h) == [k \in 1 .. Cardinality(in(h)) |-> entry(h, k)]
    IN  [ hourlyProfile |-> [h \in 0 .. HoursPerDay - 1 |-> RoundedMedian(bucket(h))],
          hourlyProfileValid |->
              Cardinality({h \in 0 .. HoursPerDay - 1 : in(h) # {}}) >= minHours ]

ContextOf(s, resolutionMin, startHour, minHours) ==
    LET profile == ComputeHourlyProfile(s, resolutionMin, startHour, minHours)
    IN  [ baselineRPS |-> RoundedMedian(s),
          peakP95RPS |-> Percentile(s, 95),
          trend24hSlope |-> TrendSlopeRpsPerMin(s, resolutionMin),
          hourlyProfile |-> profile.hourlyProfile,
          hourlyProfileValid |-> profile.hourlyProfileValid ]

-----------------------------------------------------------------------------
(* The pipelines.  f is the features of s and w the WorkerConfig; None      *)
(* stands for ErrInsufficientPoints.                                       *)

Outcome(s, f, pattern, w, minReplicas, maxReplicas, context) ==
    [ pattern |-> pattern,
      confidence |-> Confidence(Len(s), w.highConfPoints, w.minPoints),
      params |-> ComputeParams(f, pattern, minReplicas, maxReplicas),
      historyPoints |-> Len(s),
      context |-> context ]

RunPipeline(s, f, w, minReplicas, maxReplicas) ==
    IF Len(s) < w.minPoints THEN None
    ELSE Outcome(s, f, ClassifyPattern(f), w, minReplicas, maxReplicas, None)

RunPipelineV2(s, f, w, minReplicas, maxReplicas, startHour) ==
    IF Len(s) < w.minPoints THEN None
    ELSE Outcome(s, f, ClassifyWithMean(f, SeriesSum(s), Len(s)), w,
                 minReplicas, maxReplicas,
                 ContextOf(s, AtLeastOne(w.resolutionMin), startHour,
                           w.hourlyProfileMinHours))

\* runClassification: which pipeline, at which lag, and how far apart its
\* samples are.
IsV2(w) == w.resolutionMin > 0

StepMinutes(w) == IF IsV2(w) THEN w.resolutionMin ELSE 1

LagOf(w) == IF IsV2(w) THEN HourlyAutocorrLag(w.resolutionMin) ELSE TodLag

\* Every result that a classification of s may have.
Classifications(s, w, minReplicas, maxReplicas, startHour) ==
    LET extracted == IF IsV2(w) THEN ExtractFeaturesV2(s, w) ELSE ExtractFeatures(s)
        features(corr) == [extracted EXCEPT !.hourlyAutocorr = corr]
    IN  { IF IsV2(w)
          THEN RunPipelineV2(s, features(corr), w, minReplicas, maxReplicas, startHour)
          ELSE RunPipeline(s, features(corr), w, minReplicas, maxReplicas) :
          corr \in HourlyAutocorr(s, LagOf(w)) }
=============================================================================
