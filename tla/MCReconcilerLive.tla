-------------------------- MODULE MCReconcilerLive --------------------------
(***************************************************************************)
(* Constants for the liveness and life-cycle runs of the reconciler.       *)
(***************************************************************************)
EXTENDS ReconcilerLive

Steady == [ minReplicas |-> 1, maxReplicas |-> 3, rpsPerPodMin |-> 1,
            rpsPerPodMax |-> 3, maxStepSize |-> 1, scaleUpCooldown |-> 1,
            scaleDownCooldown |-> 1, preferredForecaster |-> None ]
OneSpec == {Steady}

\* The step left to a default so wide that the int32 sum overflows, and an
\* estimate that the other spec's lies outside of.
Unlimited == [Steady EXCEPT !.maxStepSize = None, !.scaleUpCooldown = 0,
                            !.scaleDownCooldown = 0, !.rpsPerPodMin = 4,
                            !.rpsPerPodMax = 6]
TwoSpecs == {Steady, Unlimited}

Params == [ maxStepSize |-> 1, scaleUpCooldown |-> 1, scaleDownCooldown |-> 1,
            preferredForecaster |-> "linear_extrap" ]
OneClassification == {Params}
MCDefaults == [ maxStepSize |-> 4, scaleUpCooldown |-> 1, scaleDownCooldown |-> 1 ]
OverflowDefaults == [MCDefaults EXCEPT !.maxStepSize = MaxInt32]

NoEvents == [e \in Events |-> 0]

Once(events) == [e \in Events |-> IF e \in events THEN 1 ELSE 0]
SettleBudgets == {Once({"human", "crash", "lost"}), Once({"crash", "lost", "fail"}),
                  Once({"kill", "hpa", "rollout"}), Once({"rollout", "classify"}),
                  [NoEvents EXCEPT !["kill"] = 2, !["hpa"] = 2]}
QuietBudgets == {NoEvents}
LifecycleBudgets == {[NoEvents EXCEPT !["delete"] = 2, !["edit"] = 1, !["kill"] = 1,
                                      !["reclassify"] = 1, !["classify"] = 1]}
=============================================================================
