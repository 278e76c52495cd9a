--------------------------- MODULE ReconcilerLive ---------------------------
(***************************************************************************)
(* The reconciler over unbounded time, for its liveness properties.  Only  *)
(* differences between the clock and stored times matter, and none longer  *)
(* than the longest cooldown or twice the interval; when the clock is at   *)
(* MaxTime, a further tick moves every stored time back instead, and time  *)
(* 0 comes to mean "MaxTime ticks ago or more".                            *)
(***************************************************************************)
EXTENDS Reconciler

Longest == LET ticks(c) == c * TicksPerSecond
           IN  {2 * Interval, ticks(Defaults.scaleUpCooldown),
                ticks(Defaults.scaleDownCooldown)}
               \cup {ticks(p.scaleUpCooldown) : p \in ClassifiedParams}
               \cup {ticks(p.scaleDownCooldown) : p \in ClassifiedParams}
               \cup {ticks(Deref(s.scaleUpCooldown, 0)) : s \in Specs}
               \cup {ticks(Deref(s.scaleDownCooldown, 0)) : s \in Specs}

\* Whole seconds stay whole only if a tick is a second.
ASSUME SlideAssumption ==
    TicksPerSecond = 1 /\ \A d \in Longest : MaxTime >= d

Earlier(t) == IF t = None \/ t = 0 THEN t ELSE t - 1

EarlierObject(obj) == [obj EXCEPT !.status.lastScaleTime = Earlier(@)]

Slide ==
    /\ now = MaxTime
    /\ cr' = EarlierObject(cr)
    /\ crCache' = EarlierObject(crCache)
    /\ aas' = EarlierObject(aas)
    /\ state' = [state EXCEPT !.lastScaleUp = Earlier(@), !.lastScaleDown = Earlier(@)]
    /\ plan' = IF plan = None THEN None ELSE [plan EXCEPT !.at = Earlier(@)]
    /\ UNCHANGED <<now, crFresh, hpaVars, deployVars, handle, queued, pc,
                   aasFresh, budget>>

\* The work queue runs a queued key, requests end, watches deliver, time
\* passes.  Outside events are bounded by a budget and never required.
Fairness ==
    /\ WF_vars(Reconcile)
    /\ WF_vars(SyncCR)
    /\ WF_vars(SyncDeployment)
    /\ WF_vars(SyncHPA)
    /\ WF_vars(Tick \/ Slide)

LiveSpec == Init /\ [][Next \/ Slide]_vars /\ Fairness

Managed == cr.exists /\ ~cr.killSwitch /\ ~cr.deleting /\ hpas = {}

\* From some point on, every decision is made from this rate and forecast.
SteadyInputs(rps, predicted) ==
    <>[][pc = "observe" /\ plan' # None => Decide(rps, predicted)]_vars

\* Once load and forecast are steady and outside events have stopped, the
\* Deployment reaches the published recommendation and stays there: neither
\* step cap, cooldowns, lost answers, refused status writes nor restarts
\* leave it stuck or oscillating.
Converges ==
    \A rps \in CurrentRates, predicted \in Forecasts :
      SteadyInputs(rps, predicted) =>
        <>[](Managed => deployment.replicas = cr.status.recommendedReplicas)

\* The phase eventually tells the truth about the pause that is in force:
\* no kill-switch or HPA change is lost, although HPAs are not watched, the
\* published phase leaves Disabled and Conflict when the reason is gone, and
\* the HPA named as the reason of a conflict is one there is.
PhaseSettles ==
    <>[](cr.exists /\ ~cr.deleting =>
           \/ cr.killSwitch /\ cr.status.phase = "Disabled"
           \/ ~cr.killSwitch /\ cr.status.phase = "Conflict"
                /\ cr.status.conflictReason \in hpas
           \/ Managed /\ cr.status.phase = "Ready"
                /\ cr.status.conflictReason = None)

\* The reconciler's status writes do not feed each other.  Each one that
\* changes the object is a watch event that runs the next reconcile at once,
\* and with a forecast that changes they may follow each other without end;
\* but once load and forecast are steady they die out, although what they
\* publish (estimate, recommendation, count, scale time) depends on the
\* replicas they have asked for.  (Slide moves the times and is no write.)
StatusWritesStop ==
    \A rps \in CurrentRates, predicted \in Forecasts :
      SteadyInputs(rps, predicted) =>
        <>[][cr'.status = cr.status \/ (now = MaxTime /\ cr' = EarlierObject(cr))]_cr

\* A rollout of the target is eventually seen by the classifier manager of
\* a managed object, although Deployments are not watched.
RolloutObserved ==
    <>[](Managed => handle.revision = deployment.revision)
=============================================================================
