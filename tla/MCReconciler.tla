---------------------------- MODULE MCReconciler ----------------------------
(***************************************************************************)
(* Constants for the model-checked instances of the reconciler.            *)
(***************************************************************************)
EXTENDS ReconcilerHistory

\* Cooldowns long enough to matter, a step smaller than the range.
Pinned == [ minReplicas |-> 1, maxReplicas |-> 3, rpsPerPodMin |-> 1,
            rpsPerPodMax |-> 3, maxStepSize |-> 1, scaleUpCooldown |-> 1,
            scaleDownCooldown |-> 1, preferredForecaster |-> None ]

\* Step and cooldowns left to the classifier, then to the defaults.
Deferring == [Pinned EXCEPT !.maxStepSize = None, !.scaleUpCooldown = None,
                            !.scaleDownCooldown = None]

\* No cooldown at all, for runs in which time plays no part.
Eager == [Pinned EXCEPT !.scaleUpCooldown = 0, !.scaleDownCooldown = 0]

\* Bounds in the wrong order, and a step wider than the range: the webhook
\* refuses both.
Inverted == [Deferring EXCEPT !.minReplicas = 3, !.maxReplicas = 1]
TooWide == [Pinned EXCEPT !.maxStepSize = 3]

Params == [ maxStepSize |-> 1, scaleUpCooldown |-> 2, scaleDownCooldown |-> 1,
            preferredForecaster |-> "linear_extrap" ]

MCDefaults == [ maxStepSize |-> 4, scaleUpCooldown |-> 1, scaleDownCooldown |-> 1 ]

OnlyPinned == {Pinned}
DeferringOrRefused == {Deferring, Inverted, TooWide}
OnlyEager == {Eager}
OneClassification == {Params}

NoEvents == [e \in Events |-> 0]

CooldownBudgets == {[NoEvents EXCEPT !["classify"] = 1, !["crash"] = 1]}
PauseBudgets == {[NoEvents EXCEPT !["classify"] = 1, !["crash"] = 1, !["hpa"] = 1],
                 [NoEvents EXCEPT !["kill"] = 1, !["lost"] = 1, !["crash"] = 1]}

\* What leaves the replica count to the controller.
GateBudgets == {[NoEvents EXCEPT !["crash"] = 1]}
=============================================================================
