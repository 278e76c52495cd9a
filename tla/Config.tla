------------------------------- MODULE Config -------------------------------
(***************************************************************************)
(* internal/config: the controller's settings, read once at start-up from  *)
(* the environment, and what cmd/controller hands on to the classifier.    *)
(*                                                                         *)
(* An environment maps each variable to None (unset or empty), Malformed   *)
(* (text that is not a number, or does not fit in 32 bits) or its value, a *)
(* duration in the unit of its name and CV_GUARD_MEAN_RPS in whole rps.    *)
(***************************************************************************)
EXTENDS Admission

CONSTANT Malformed   \* the text of a variable that does not parse

ASSUME MalformedAssumption == Malformed \notin Int /\ Malformed # None

Required == {"FORECAST_SERVICE_URL", "PROMETHEUS_URL"}

Default ==
    [ RECONCILE_INTERVAL_SECONDS        |-> 60,
      HOT_PATH_HISTORY_MINUTES          |-> 60,
      HOT_PATH_MIN_POINTS               |-> 10,
      FORECAST_TIMEOUT_SECONDS          |-> 5,
      PROPHET_MIN_POINTS                |-> 30,
      CLASSIFIER_INTERVAL_MINUTES       |-> 30,
      CLASSIFIER_HISTORY_HOURS          |-> 24,
      CLASSIFIER_MIN_POINTS             |-> 72,
      CLASSIFIER_HIGH_CONFIDENCE_POINTS |-> 240,
      CLASSIFIER_DEDUP_SECONDS          |-> 60,
      CONTEXT_DOWNSAMPLE_RESOLUTION_MIN |-> 5,
      CV_GUARD_MEAN_RPS                 |-> 1,
      RPS_PER_POD_NOISE_FLOOR_RPS       |-> 10,
      HOURLY_PROFILE_MIN_HOURS          |-> 12,
      DEFAULT_SCALE_UP_COOLDOWN_SECONDS   |-> 60,
      DEFAULT_SCALE_DOWN_COOLDOWN_SECONDS |-> 300,
      DEFAULT_MAX_STEP_SIZE             |-> 4,
      OLLAMA_TIMEOUT_SECONDS            |-> 30,
      OLLAMA_MAX_TOKENS                 |-> 150 ]

Settings == DOMAIN Default

Environment == [Settings -> Int \cup {None, Malformed}]

\* envIntOrDefault and the wrappers of it: an error, and the default.
Unparseable(env) ==
    {v \in Settings : env[v] # None /\ env[v] \notin Int32}

EnvOrDefault(env, v) ==
    IF env[v] = None \/ v \in Unparseable(env) THEN Default[v] ELSE env[v]

\* The points that the hourly autocorrelation needs at that resolution.
PointsFloor(c) == (60 \div c.CONTEXT_DOWNSAMPLE_RESOLUTION_MIN) + 10

\* Mutant: the bound on HOT_PATH_MIN_POINTS is missing.
ValidateLoosely(c) ==
    /\ c.CONTEXT_DOWNSAMPLE_RESOLUTION_MIN >= 1
    /\ c.CLASSIFIER_MIN_POINTS >= PointsFloor(c)
    /\ c.CLASSIFIER_HIGH_CONFIDENCE_POINTS >= c.CLASSIFIER_MIN_POINTS

\* validate: the bounds of single settings, and those that depend on others.
Validate(c) ==
    /\ c.CONTEXT_DOWNSAMPLE_RESOLUTION_MIN >= 1
    /\ c.CLASSIFIER_MIN_POINTS >= PointsFloor(c)
    /\ c.HOURLY_PROFILE_MIN_HOURS \in 1 .. 24
    /\ c.CV_GUARD_MEAN_RPS >= 0
    /\ c.RPS_PER_POD_NOISE_FLOOR_RPS >= 0
    /\ c.CLASSIFIER_HIGH_CONFIDENCE_POINTS >= c.CLASSIFIER_MIN_POINTS
    /\ c.DEFAULT_MAX_STEP_SIZE >= 1
    /\ c.HOT_PATH_MIN_POINTS >= 1
    /\ c.DEFAULT_SCALE_UP_COOLDOWN_SECONDS >= 0
    /\ c.DEFAULT_SCALE_DOWN_COOLDOWN_SECONDS >= 0

\* The settings, or None when anything at all is wrong with them.
LoadFromEnv(env, urls) ==
    LET c == [v \in Settings |-> EnvOrDefault(env, v)]
    IN  IF Required \subseteq urls /\ Unparseable(env) = {} /\ Validate(c)
        THEN c ELSE None

-----------------------------------------------------------------------------
(* classifier.WorkerConfig. *)

\* As main fills it in: the three fields of the context block are left out,
\* and Go makes them zero.
MainWorkerConfig(c) ==
    [ minPoints |-> c.CLASSIFIER_MIN_POINTS,
      highConfPoints |-> c.CLASSIFIER_HIGH_CONFIDENCE_POINTS,
      resolutionMin |-> 0, hourlyProfileMinHours |-> 0, cvGuardMeanRPS |-> 0 ]

\* With every field from its variable, as the tests of the worker build it
\* (TestWorker_WritesContextToStatus) and no program does.
FullWorkerConfig(c) ==
    [ MainWorkerConfig(c) EXCEPT
        !.resolutionMin = c.CONTEXT_DOWNSAMPLE_RESOLUTION_MIN,
        !.hourlyProfileMinHours = c.HOURLY_PROFILE_MIN_HOURS,
        !.cvGuardMeanRPS = c.CV_GUARD_MEAN_RPS ]
=============================================================================
