--------------------------- MODULE MCForecastPath ---------------------------
(***************************************************************************)
(* Constants for the instances of the forecast path: the real thresholds   *)
(* and units, a window of two hours, a workload a few hours old.           *)
(***************************************************************************)
EXTENDS ForecastPath

Unset == [v \in Settings |-> None]

\* 25 points at a resolution of five minutes, 121 at one.
Small == [Unset EXCEPT !.CLASSIFIER_HISTORY_HOURS = 2, !.CLASSIFIER_MIN_POINTS = 22,
                       !.CLASSIFIER_HIGH_CONFIDENCE_POINTS = 25,
                       !.HOT_PATH_HISTORY_MINUTES = 3, !.HOT_PATH_MIN_POINTS = 2]

\* A resolution that does not divide the hour; settings that are refused.
Sevens == [Small EXCEPT !.CONTEXT_DOWNSAMPLE_RESOLUTION_MIN = 7,
                        !.CLASSIFIER_MIN_POINTS = 18]
TooFew == [Small EXCEPT !.CLASSIFIER_MIN_POINTS = 13]
Typo == [Small EXCEPT !.HOT_PATH_MIN_POINTS = Malformed]
NoFloor == [Small EXCEPT !.HOT_PATH_MIN_POINTS = 0]
MCEnvs == {Small, Sevens, TooFew, Typo, NoFloor}

ServiceUnset == [v \in DOMAIN ServiceDefault |-> None]
Short == [ServiceUnset EXCEPT !.FORECAST_HORIZON_MINUTES = 1, !.PROPHET_MIN_POINTS = 4,
                              !.GBDT_MIN_POINTS = 1, !.LINEAR_EXTRAP_WINDOW_MINUTES = 3]
\* A window that makes no sense, a blend of the two slopes in equal parts.
Blended == [ServiceUnset EXCEPT !.LINEAR_EXTRAP_WINDOW_MINUTES = 0,
                                !.LINEAR_EXTRAP_RECENT_WEIGHT = 5]
Unreadable == [Short EXCEPT !.LINEAR_EXTRAP_RECENT_WEIGHT = Malformed]
MCServiceEnvs == {Short, Blended, Unreadable}

Flat == [base |-> 4, slope |-> 0, peak |-> 0, every |-> 1]
Line == [base |-> 5, slope |-> 1, peak |-> 0, every |-> 1]
Spikes == [base |-> 1, slope |-> 0, peak |-> 30, every |-> 30]
MCWorkloads == {Flat, Line, Spikes}

MCPins == {None, "linear_extrap"}
MCLearned == {-500, 900, NotANumber, Infinite, Raised}
\* Without and with an hourly rhythm; what is below zero counts as zero.
MCCorrelations == {-20, 90}

BothWirings == {"main", "full"}
MainOnly == {"main"}
=============================================================================
