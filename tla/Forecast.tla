------------------------------ MODULE Forecast ------------------------------
(***************************************************************************)
(* One forecast: the request the reconciler builds, the client that sends  *)
(* it and checks the answer, and the forecast service's dispatcher and     *)
(* forecasters.                                                            *)
(*                                                                         *)
(* Rates in requests are whole rps, predictions hundredths of an rps.      *)
(* What Prophet and LightGBM make of their training data is an input, one  *)
(* of Learned: a prediction, NotANumber, Infinite, or Raised, an exception *)
(***************************************************************************)
EXTENDS Classification, Config

CONSTANTS
    NotANumber, Infinite,   \* float values that are not numbers of rps
    Raised,                 \* the library raises an exception
    Learned                 \* what the learning forecasters may come up with

ASSUME LearnedAssumption ==
    /\ {NotANumber, Infinite, Raised} \cap Int = {}
    /\ Learned \subseteq Int \cup {NotANumber, Infinite, Raised}

-----------------------------------------------------------------------------
(* The service's settings. *)

ServiceDefault ==
    [ FORECAST_HORIZON_MINUTES     |-> 10,
      PROPHET_MIN_POINTS           |-> 30,
      LINEAR_EXTRAP_WINDOW_MINUTES |-> 10,
      LINEAR_EXTRAP_RECENT_WEIGHT  |-> 7,   \* in tenths
      GBDT_MIN_POINTS              |-> 30,
      GBDT_QUANTILE                |-> 90,  \* in hundredths
      HOURLY_PROFILE_MIN_HOURS     |-> 12 ]

\* app.py converts every variable when it is imported: one that does not
\* parse keeps the service from starting.
Starts(env) == \A v \in DOMAIN ServiceDefault : env[v] # Malformed

SettingOf(env, v) == IF env[v] = None THEN ServiceDefault[v] ELSE env[v]

\* _window_minutes, _recent_weight and _min_points fall back once more, from
\* values that parse and make no sense.
Sensible(env, v, S) ==
    IF SettingOf(env, v) \in S THEN SettingOf(env, v) ELSE ServiceDefault[v]

WindowMinutes(env) == Sensible(env, "LINEAR_EXTRAP_WINDOW_MINUTES", Nat \ {0})
RecentWeight(env) == Sensible(env, "LINEAR_EXTRAP_RECENT_WEIGHT", 0 .. 10)
GbdtMinPoints(env) == Sensible(env, "GBDT_MIN_POINTS", Nat \ {0})
Horizon(env) == SettingOf(env, "FORECAST_HORIZON_MINUTES")

-----------------------------------------------------------------------------
(* The forecasters. *)

\* Python's max(0.0, x), which is 0.0 for NaN.
AtLeastZero(x) ==
    IF x = Infinite THEN x ELSE IF x = NotANumber THEN 0 ELSE Larger(0, x)

\* min(x, cap) with a NaN passed on.
CappedAt(x, cap) ==
    IF x = NotANumber THEN x ELSE IF x = Infinite \/ x > cap THEN cap ELSE x

LastOf(s, n) == SubSeq(s, Larger(1, Len(s) - n + 1), Len(s))

\* Least squares over the window, the slope blended with the context's, the
\* line through the window's centroid, read off horizon minutes later.
ForecastLinearExtrap(history, env, context) ==
    LET s == LastOf(history, WindowMinutes(env))
        n == Len(s)
        w == RecentWeight(env)
        slope == IF context = None THEN TrendSlope(s)
                 ELSE DivToZero(w * TrendSlope(s) + (10 - w) * context.trend24hSlope, 10)
        ahead == n + 2 * Horizon(env) - 1
        line == DivToZero(12000 * SeriesSum(s) + n * slope * ahead, 120 * n)
    IN  IF n = 1 THEN 100 * s[1]
        ELSE IF context # None /\ context.peakP95RPS > 0
        THEN AtLeastZero(CappedAt(line, 150 * context.peakP95RPS))
        ELSE AtLeastZero(line)

ForecastProphet(env, learned) ==
    IF Horizon(env) < 0 \/ learned = Raised THEN Raised ELSE AtLeastZero(learned)

\* GBDT_LAG_DEPTH: the samples that one row of training data starts with.
GbdtLagDepth == 3

\* A history that leaves no row to train on raises an exception, like one
\* below the configured minimum.
ForecastGbdtQuantile(history, env, context, learned) ==
    IF \/ Horizon(env) < 0
       \/ Len(history) < GbdtMinPoints(env) + Horizon(env)
       \/ Len(history) < GbdtLagDepth + Horizon(env)
       \/ learned = Raised
    THEN Raised
    ELSE IF context # None /\ context.peakP95RPS > 0
    THEN AtLeastZero(CappedAt(learned, 300 * context.peakP95RPS))
    ELSE AtLeastZero(learned)

-----------------------------------------------------------------------------
(* The dispatcher. *)

\* Mutant: the selector goes by the length alone.
ShouldUseProphetByLength(history, preferred, env) ==
    Len(history) >= SettingOf(env, "PROPHET_MIN_POINTS")

\* _should_use_prophet
ShouldUseProphet(history, preferred, env) ==
    \/ preferred = "prophet"
    \/ /\ preferred # "linear_extrap"
       /\ Len(history) >= SettingOf(env, "PROPHET_MIN_POINTS")

\* The forecaster tried first.
FirstChoice(history, preferred, env) ==
    IF preferred = "gbdt_quantile" THEN "gbdt_quantile"
    ELSE IF ShouldUseProphet(history, preferred, env) THEN "prophet"
    ELSE "linear_extrap"

Try(model, req, env, learned) ==
    CASE model = "gbdt_quantile" ->
            ForecastGbdtQuantile(req.rpsHistory, env, req.context, learned)
      [] model = "prophet" -> ForecastProphet(env, learned)
      [] OTHER -> ForecastLinearExtrap(req.rpsHistory, env, req.context)

\* Mutant: the answer names the forecaster tried first.
RecommendUnresolved(req, env, learned) ==
    LET first == FirstChoice(req.rpsHistory, req.preferredModel, env)
        tried == Try(first, req, env, learned)
    IN  [ predicted |-> IF tried = Raised THEN Try("linear_extrap", req, env, learned)
                        ELSE tried,
          modelUsed |-> first,
          prophetFailed |-> tried = Raised /\ first = "prophet" ]

\* recommend: any exception falls back to linear_extrap.
Recommend(req, env, learned) ==
    LET first == FirstChoice(req.rpsHistory, req.preferredModel, env)
        tried == Try(first, req, env, learned)
    IN  [ predicted |-> IF tried = Raised THEN Try("linear_extrap", req, env, learned)
                        ELSE tried,
          modelUsed |-> IF tried = Raised THEN "linear_extrap" ELSE first,
          prophetFailed |-> tried = Raised /\ first = "prophet" ]

-----------------------------------------------------------------------------
(* The wire. *)

\* models.py: what the service validates before it looks at a request.
ValidRequest(req) ==
    /\ Len(req.rpsHistory) >= 1
    /\ \A i \in 1 .. Len(req.rpsHistory) : req.rpsHistory[i] >= 0
    /\ req.preferredModel \in Optional(Forecasters)
    /\ req.context # None =>
         /\ Cardinality(DOMAIN req.context.hourlyProfile) = 24
         /\ req.context.currentHourUTC \in 0 .. 23
         /\ req.context.currentMinuteUTC \in 0 .. 59

\* "auto" becomes the empty name, and omitempty drops that.
WireModel(preferred) == IF preferred \in {"auto", ""} THEN None ELSE preferred

\* json.Marshal refuses floats that are not numbers.
Marshals(history) == \A i \in 1 .. Len(history) : history[i] \in Int

\* The JSON encoder of the service refuses them too: a 500.
Encodes(answer) == answer.predicted \in Int

\* buildForecastContext: nothing with skip-context set, before the first
\* classification, or from one without a context block.
BuildForecastContext(skipContext, classified, clock) ==
    IF skipContext \/ classified = None THEN None
    ELSE IF classified.context = None THEN None
    ELSE [ baselineRPS        |-> classified.context.baselineRPS,
           peakP95RPS         |-> classified.context.peakP95RPS,
           trend24hSlope      |-> classified.context.trend24hSlope,
           hourlyProfile      |-> classified.context.hourlyProfile,
           hourlyProfileValid |-> classified.context.hourlyProfileValid,
           currentHourUTC     |-> (clock \div MinutesPerHour) % HoursPerDay,
           currentMinuteUTC   |-> clock % MinutesPerHour ]
=============================================================================
