---------------------------- MODULE ForecastPath ----------------------------
(***************************************************************************)
(* The data path of the controller for one workload: settings read at      *)
(* start-up, the classification on the cold path and the forecast call on  *)
(* the hot path, which meet in status.classifiedParams.  Reconciler and    *)
(* ClassifierWorker leave open what is predicted and classified; here the  *)
(* order of their steps is left open instead.                              *)
(*                                                                         *)
(* Time is in minutes.  The workload has served RateAt(t) rps at minute t  *)
(* since Birth, and Prometheus answers range queries with one point per    *)
(* step, none from before Birth.                                           *)
(***************************************************************************)
EXTENDS Forecast

CONSTANTS
    Envs,          \* controller environments an operator may set
    ServiceEnvs,   \* service environments an operator may set
    Wirings,       \* who fills in WorkerConfig: "main", or "full"
    Workloads,     \* shapes of the traffic
    Pins,          \* spec.preferredForecaster values
    MinReplicas, MaxReplicas,
    Birth,         \* minute of the workload's first sample
    Clocks,        \* minutes at which something happens
    MaxDispatched  \* bound: answers the service counts

ASSUME PathAssumption ==
    /\ Envs \subseteq Environment
    /\ ServiceEnvs \subseteq [DOMAIN ServiceDefault -> Int \cup {None, Malformed}]
    /\ Wirings \subseteq {"main", "full"}
    /\ Workloads \subseteq [base : Nat, slope : Nat, peak : Nat, every : Nat \ {0}]
    /\ Pins \subseteq Optional(Forecasters) /\ None \notin Forecasters
    /\ MinReplicas \in Pos32 /\ MaxReplicas \in Pos32
    /\ Birth \in Nat /\ Clocks \subseteq Nat
    /\ MaxDispatched \in Nat

VARIABLES
    env,        \* the controller's environment
    cfg,        \* its settings; None while it is not running
    wiring,     \* how its WorkerConfig is filled in
    senv,       \* the service's environment
    serving,    \* the service is running
    workload, clock,
    object,     \* the AgenticAutoscaler: pin and skip-context annotation
    classified, \* status.classifiedParams
    call,       \* the forecast call of the running reconcile
    dispatched, \* forecast_dispatch_total, by model
    prophetFailures \* forecast_prophet_failures_total

settingVars == <<env, cfg, wiring>>
serviceVars == <<senv, serving, dispatched, prophetFailures>>
worldVars == <<workload, clock>>
vars == <<settingVars, serviceVars, worldVars, object, classified, call>>

Models == {"prophet", "linear_extrap", "gbdt_quantile"}

NoCounts == [m \in Models |-> 0]

Dispatches == MapThenSumSet(LAMBDA m : dispatched[m], Models)

NoCall == [stage |-> "none"]

-----------------------------------------------------------------------------
(* Traffic and range queries. *)

RateAt(t) ==
    workload.base + workload.slope * (t - Birth)
        + (IF t % workload.every = 0 THEN workload.peak ELSE 0)

\* RangeQuery from start to now: one point per step of the grid that begins
\* at start, those before Birth missing.
FirstPoint(start, step) ==
    IF start >= Birth THEN start
    ELSE start + CeilDiv(Birth - start, step) * step

RangeQuery(start, step) ==
    LET first == FirstPoint(start, step)
    IN  [i \in 1 .. (IF first > clock THEN 0 ELSE (clock - first) \div step + 1) |->
            RateAt(first + (i - 1) * step)]

\* Prometheus may report a point as NaN, which parses.
WithOrWithoutNaN(s) == {s} \cup {[s EXCEPT ![i] = NotANumber] : i \in 1 .. Len(s)}

WorkerConfig ==
    IF wiring = "main" THEN MainWorkerConfig(cfg) ELSE FullWorkerConfig(cfg)

\* The start of the classifier's window, and the hour the profile starts at.
ColdStart == clock - cfg.CLASSIFIER_HISTORY_HOURS * MinutesPerHour
HourOf(t) == (t \div MinutesPerHour) % HoursPerDay

-----------------------------------------------------------------------------
(* The controller. *)

\* main exits when the settings are bad; its pod is then restarted.
StartController ==
    /\ cfg = None
    /\ LoadFromEnv(env, Required) # None
    /\ cfg' = LoadFromEnv(env, Required)
    /\ UNCHANGED <<env, wiring, serviceVars, worldVars, object, classified, call>>

\* The operator edits the controller's environment, which restarts it.
SetEnv ==
    /\ env' \in Envs \ {env}
    /\ cfg' = None /\ call' = NoCall
    /\ UNCHANGED <<wiring, serviceVars, worldVars, object, classified>>

\* runClassification: too short a history leaves the status alone.
RunClassification ==
    /\ cfg # None
    /\ \E result \in Classifications(RangeQuery(ColdStart, StepMinutes(WorkerConfig)),
                        WorkerConfig, MinReplicas, MaxReplicas, HourOf(ColdStart)) :
         result # None /\ classified' = result
    /\ UNCHANGED <<settingVars, serviceVars, worldVars, object, call>>

\* Steps 2 to 4 of a reconcile.  A failed or short query, or a sample that
\* cannot be marshalled, ends it.
BuildRequest ==
    /\ cfg # None /\ call.stage = "none"
    /\ \E history \in WithOrWithoutNaN(RangeQuery(clock - cfg.HOT_PATH_HISTORY_MINUTES, 1)) :
         /\ Len(history) >= cfg.HOT_PATH_MIN_POINTS
         /\ Marshals(history)
         /\ call' = [ stage |-> "sent", at |-> clock, pin |-> object.pin,
                      request |->
             [ rpsHistory |-> history,
               preferredModel |-> WireModel(CoalesceStr(object.pin,
                   IF classified = None THEN None
                   ELSE classified.params.preferredForecaster, "auto")),
               context |-> BuildForecastContext(object.skipContext, classified, clock) ] ]
    /\ UNCHANGED <<settingVars, serviceVars, worldVars, object, classified>>

\* The answer arrives and passes the client's checks.
Receive ==
    /\ call.stage = "answered"
    /\ call' = NoCall
    /\ UNCHANGED <<settingVars, serviceVars, worldVars, object, classified>>

\* The call times out, or the connection breaks, before or after the service
\* has done its work.
GiveUp ==
    /\ call.stage # "none"
    /\ call' = NoCall
    /\ UNCHANGED <<settingVars, serviceVars, worldVars, object, classified>>

-----------------------------------------------------------------------------
(* The service. *)

StartService ==
    /\ ~serving /\ Starts(senv)
    /\ serving' = TRUE
    /\ UNCHANGED <<settingVars, senv, dispatched, prophetFailures, worldVars, object,
                   classified, call>>

\* A new environment restarts the service: its counters start from zero, a
\* call in progress breaks.
SetServiceEnv ==
    /\ senv' \in ServiceEnvs \ {senv}
    /\ serving' = FALSE /\ dispatched' = NoCounts /\ prophetFailures' = 0
    /\ call' = NoCall
    /\ UNCHANGED <<settingVars, worldVars, object, classified>>

\* post_recommend: a 422 for a request that does not validate, a 500 for an
\* answer that does not encode, else a 200.
Serve ==
    /\ serving /\ call.stage = "sent"
    /\ IF ValidRequest(call.request)
       THEN \E learned \in Learned :
              LET result == Recommend(call.request, senv, learned) IN
              /\ Dispatches < MaxDispatched
              /\ dispatched' = [dispatched EXCEPT ![result.modelUsed] = @ + 1]
              /\ prophetFailures' = prophetFailures + (IF result.prophetFailed THEN 1 ELSE 0)
              /\ call' = IF Encodes(result)
                         THEN [ stage |-> "answered", at |-> call.at, pin |-> call.pin,
                                request |-> call.request, result |-> result ]
                         ELSE NoCall
       ELSE call' = NoCall /\ UNCHANGED <<dispatched, prophetFailures>>
    /\ UNCHANGED <<settingVars, senv, serving, worldVars, object, classified>>

-----------------------------------------------------------------------------
(* The operator and the clock. *)

EditObject ==
    /\ object' \in [pin : Pins, skipContext : BOOLEAN] \ {object}
    /\ UNCHANGED <<settingVars, serviceVars, worldVars, classified, call>>

Tick ==
    /\ clock' \in {t \in Clocks : t > clock}
    /\ UNCHANGED <<settingVars, serviceVars, workload, object, classified, call>>

Init ==
    /\ env \in Envs /\ cfg = None /\ wiring \in Wirings
    /\ senv \in ServiceEnvs /\ serving = FALSE
    /\ workload \in Workloads /\ clock \in Clocks
    /\ object \in [pin : Pins, skipContext : {FALSE}]
    /\ classified = None /\ call = NoCall
    /\ dispatched = NoCounts /\ prophetFailures = 0

Next ==
    \/ StartController \/ SetEnv \/ RunClassification \/ BuildRequest \/ Receive
    \/ GiveUp \/ StartService \/ SetServiceEnv \/ Serve
    \/ EditObject \/ Tick

Spec == Init /\ [][Next]_vars

-----------------------------------------------------------------------------

\* What is classified fits the CRD's schema and the module Reconciler's
\* assumption on it, for any traffic, settings and wiring: the cooldowns are
\* inside their hard limits, a single step cannot cross the replica range,
\* and forecaster, pattern and confidence are values the API server accepts.
ParamsInLimits ==
    classified # None =>
      /\ classified.params.scaleUpCooldown \in 30 .. 180
      /\ classified.params.scaleDownCooldown \in 60 .. 600
      /\ classified.params.maxStepSize \in 1 .. Larger(1, MaxReplicas - MinReplicas)
      /\ classified.params.preferredForecaster \in Models
      /\ classified.pattern \in {"flat", "periodic", "spiky", "gradual_ramp", "default"}
      /\ classified.confidence \in {"high", "medium"}

\* No request of the controller is refused by the service's validation (a
\* 422 would end every reconcile without a decision), whatever is pinned,
\* classified or annotated and however the controller is set up.
RequestsValid == call.stage = "sent" => ValidRequest(call.request)

\* Units and offsets of the whole path: traffic that grows on a straight line
\* is predicted exactly, up to the p95 clip, by linear_extrap, with the
\* context's slope taken at any resolution and any time before.
LineContinued ==
    call.stage = "answered" /\ workload.peak = 0
        /\ call.result.modelUsed = "linear_extrap"
        /\ Len(call.request.rpsHistory) >= 2 /\ WindowMinutes(senv) >= 2 =>
      LET line == AtLeastZero(100 * RateAt(call.at + Horizon(senv)))
          context == call.request.context
      IN  call.result.predicted =
            IF context # None /\ context.peakP95RPS > 0
            THEN CappedAt(line, 150 * context.peakP95RPS) ELSE line

\* A pinned forecaster is the one that answers, or linear_extrap instead of
\* it; gbdt_quantile never answers unless it was pinned or classified.
PinHonoured ==
    call.stage = "answered" =>
      /\ call.pin \in Models => call.result.modelUsed \in {call.pin, "linear_extrap"}
      /\ call.result.modelUsed = "gbdt_quantile" =>
           call.request.preferredModel = "gbdt_quantile"

\* The counters account for every fallback: a Prophet failure shows up as a
\* dispatch of linear_extrap, also when the answer is never heard.
FallbacksCounted == prophetFailures <= dispatched["linear_extrap"]

-----------------------------------------------------------------------------
(* What makes these properties inductive; used by PathProofs. *)

\* A running controller has settings that validate accepts.
SettingsInv == cfg # None => cfg \in [Settings -> Int] /\ Validate(cfg)

WorldInv ==
    /\ env \in Envs /\ workload \in Workloads /\ clock \in Nat
    /\ object.pin \in Pins

ServiceInv == senv \in ServiceEnvs /\ (serving => Starts(senv))

\* A context block has a peak that can be compared and, where the traffic is
\* a line, that line's slope in hundredths of an rps per hour.
SlopeTold(context) ==
    /\ context.peakP95RPS \in Nat /\ context.trend24hSlope \in Int
    /\ workload.peak = 0 => context.trend24hSlope = 6000 * workload.slope

ClassifiedInv ==
    classified # None /\ classified.context # None =>
      /\ DOMAIN classified.context.hourlyProfile = 0 .. HoursPerDay - 1
      /\ SlopeTold(classified.context)

\* A request holds the rates of the minutes up to the one it was built in.
HistorySent ==
    call.stage = "sent" =>
      LET history == call.request.rpsHistory IN
      /\ call.at \in Nat /\ history \in Seq(Nat)
      /\ \A i \in 1 .. Len(history) : history[i] = RateAt(call.at - Len(history) + i)
      /\ call.request.context # None => SlopeTold(call.request.context)

\* A pin is on the wire of the call it was read for.
PinSent ==
    call.stage = "sent" /\ call.pin \in Models => call.request.preferredModel = call.pin

CountInv == dispatched \in [Models -> Nat] /\ prophetFailures \in Nat

PathInv ==
    /\ SettingsInv /\ WorldInv /\ ServiceInv /\ ClassifiedInv /\ CountInv
    /\ ParamsInLimits /\ RequestsValid /\ PinSent /\ HistorySent
    /\ PinHonoured /\ LineContinued /\ FallbacksCounted

-----------------------------------------------------------------------------

\* migrating-v1-to-v2.md: "each existing CR's ClassifierWorker fires on its
\* periodic timer and writes `status.classifiedParams.context`".
ContextPopulated == classified # None => classified.context # None

\* design_v2.md: "ensure `CLASSIFIER_MIN_POINTS >= L + 10` so the classifier
\* doesn't run before autocorrelation can be computed", which is what
\* validate's floor on that variable is for.
AutocorrComputable ==
    cfg # None /\ classified # None =>
        classified.historyPoints >= LagOf(WorkerConfig) + MinTodOverlap
=============================================================================
