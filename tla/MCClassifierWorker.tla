------------------------- MODULE MCClassifierWorker -------------------------
(***************************************************************************)
(* Constants for the instances of the classifier worker.  The forecast is  *)
(* low enough for the one replica there is, so that the reconciler never   *)
(* scales and only its reads and writes of the shared object matter.       *)
(***************************************************************************)
EXTENDS ClassifierWorker

Still == [ minReplicas |-> 1, maxReplicas |-> 2, rpsPerPodMin |-> 1,
           rpsPerPodMax |-> 2, maxStepSize |-> None, scaleUpCooldown |-> None,
           scaleDownCooldown |-> None, preferredForecaster |-> None ]
OneSpec == {Still}

Params == [ maxStepSize |-> 1, scaleUpCooldown |-> 2, scaleDownCooldown |-> 1,
            preferredForecaster |-> "linear_extrap" ]
OneClassification == {Params}
MCDefaults == [ maxStepSize |-> 4, scaleUpCooldown |-> 1, scaleDownCooldown |-> 1 ]

NoEvents == [e \in Events |-> 0]

Reclassify == [NoEvents EXCEPT !["reclassify"] = 1]
NewRevision == [NoEvents EXCEPT !["rollout"] = 1]

WorkerBudgets == {[Reclassify EXCEPT !["kill"] = 1], NewRevision}
RetryBudgets == {Reclassify}
=============================================================================
