----------------------------- MODULE Reconciler -----------------------------
(***************************************************************************)
(* AgenticAutoscalerReconciler for one AgenticAutoscaler object and the    *)
(* Deployment it targets, against the API server, the informer caches the  *)
(* controller reads, and everyone else who writes those objects.           *)
(*                                                                         *)
(* One reconcile is cut at its API calls:                                  *)
(*   Begin -> (UpdatePhase | Decide -> Scale -> UpdateStatus)              *)
(* so that operators, the classifier, informers, clock and crashes may     *)
(* step in between.  controller-runtime runs one reconcile at a time       *)
(* (MaxConcurrentReconciles is left at 1).                                 *)
(*                                                                         *)
(* Versions.  Only the equality of resource versions matters: crFresh says *)
(* that the cached object is the live one, aasFresh that the copy a        *)
(* reconcile works on still is.  Any change of the live object clears both.*)
(***************************************************************************)
EXTENDS ClassifierManager, Admission

CONSTANTS
    Specs,            \* specs an operator may try to apply
    ClassifiedParams, \* values the classifier may write
    Defaults,         \* the DEFAULT_* environment values
    HPAs,             \* HPAs that may come to target the Deployment
    Replicas,         \* counts a human may scale the Deployment to
    CurrentRates,     \* what the Prometheus instant query may return
    Forecasts,        \* predictedRPS the forecast service may return
    Interval,         \* RECONCILE_INTERVAL_SECONDS, in ticks
    NoiseFloor,       \* RPS_PER_POD_NOISE_FLOOR_RPS, as a rate
    InformerLag,      \* ticks the Deployment cache may stay behind (None: any)
    RequestTime,      \* ticks a decision's writes may take (None: any)
    MaxTime,          \* bound: the clock stops here
    Budgets,          \* bound: how often each outside event may happen,
                      \* one of these
    ClassifierUnbounded \* FALSE: the budget bounds the classifier's steps too

\* Classifier values inside the CRD schema's minima.
ParamsType ==
    [ maxStepSize : Pos32, scaleUpCooldown : Nat32, scaleDownCooldown : Nat32,
      preferredForecaster : Forecasters ]

DefaultsType ==
    [ maxStepSize : Pos32, scaleUpCooldown : Nat32, scaleDownCooldown : Nat32 ]

Events == {"crash", "fail", "lost", "human", "rollout", "hpa", "kill",
           "reclassify", "classify", "edit", "delete"}

ASSUME InputsAssumption ==
    /\ Specs \subseteq SpecType /\ Admitted(Specs) # {}
    /\ None \notin ClassifiedParams /\ ClassifiedParams \subseteq ParamsType
    /\ Defaults \in DefaultsType
    /\ None \notin HPAs
    /\ Replicas \subseteq Nat32 /\ Replicas # {}
    /\ CurrentRates \subseteq Nat /\ Forecasts \subseteq Nat
    /\ Interval \in Nat /\ NoiseFloor \in Nat
    /\ InformerLag \in Optional(Nat) /\ RequestTime \in Optional(Nat) 
    /\ MaxTime \in Nat
    /\ Budgets \subseteq [Events -> Nat]
    /\ ClassifierUnbounded \in BOOLEAN
    /\ Revision # {}
    /\ MaxInt32 >= 500

VARIABLES
    now,         \* the controller's clock
    cr,          \* the AgenticAutoscaler in the API server
    crCache,     \* ... in the controller's informer cache
    crFresh,     \* crCache has cr's resource version
    hpas,        \* HPAs that target the Deployment
    hpaCache,    \* ... in the informer cache
    deployment,  \* the Deployment in the API server
    deployCache, \* ... in the informer cache
    deployLag,   \* ticks for which deployCache has been behind
    state,       \* PerCRState in the StateStore
    handle,      \* the classifier manager's workerHandle
    queued,      \* the object's key is in the work queue
    pc,          \* where the running reconcile is
    aas,         \* the object that reconcile works on
    aasFresh,    \* aas still has cr's resource version
    plan,        \* the decision that reconcile took
    budget       \* outside events still to come

crVars == <<cr, crCache, crFresh>>
hpaVars == <<hpas, hpaCache>>
deployVars == <<deployment, deployCache, deployLag>>
runVars == <<pc, aas, aasFresh, plan>>
vars == <<now, crVars, hpaVars, deployVars, state, handle, queued, runVars,
          budget>>

-----------------------------------------------------------------------------
(* Objects. *)

Phases == {"", "Ready", "Disabled", "Conflict"}

StatusType ==
    [ phase : Phases, conflictReason : Optional(HPAs),
      currentReplicas : Int32, recommendedReplicas : Int32,
      unboundedRecommended : Int32, predictedRPS : Int32,
      rpsPerPodCurrent : Int, lastScaleTime : Optional(Time),
      classifiedParams : Optional(ClassifiedParams) ]

EmptyStatus ==
    [ phase |-> "", conflictReason |-> None, currentReplicas |-> 0,
      recommendedReplicas |-> 0, unboundedRecommended |-> 0,
      predictedRPS |-> 0, rpsPerPodCurrent |-> 0,
      lastScaleTime |-> None, classifiedParams |-> None ]

ObjectType ==
    [ exists : BOOLEAN, killSwitch : BOOLEAN, reclassify : BOOLEAN,
      deleting : BOOLEAN, spec : SpecType, status : StatusType ]

NewObject(s) ==
    [ exists |-> TRUE, killSwitch |-> FALSE, reclassify |-> FALSE,
      deleting |-> FALSE, spec |-> s, status |-> EmptyStatus ]

\* The spec is a placeholder: nothing reads it.
Absent == [NewObject(CHOOSE s \in Admitted(Specs) : TRUE) EXCEPT !.exists = FALSE]

\* The target's revision to begin with; which one does not matter.
FirstRevision == CHOOSE r \in Revision : TRUE

DeploymentType == [ replicas : Nat32, revision : Revision ]

PlanType ==
    [ current : Nat32, predicted : Int32, unbounded : Int32,
      recommended : Int32, target : Int32, rpsPerPod : Int, at : Time, cooldownUp : Nat32, cooldownDown : Nat32,
      maxStep : Pos32 ]

StateType ==
    [ initialized : BOOLEAN, observations : Seq(Nat), rpsPerPod : Int,
      lastScaleUp : Optional(Time), lastScaleDown : Optional(Time) ]

-----------------------------------------------------------------------------
(* Shared pieces of the actions. *)

Spend(event) ==
    /\ budget[event] > 0
    /\ budget' = [budget EXCEPT ![event] = @ - 1]

\* The reconcile returns.  A requeue (RequeueAfter, or backoff after an
\* error) puts the key back; how long it waits is left open, since a watch
\* event may cut the wait short at any time.
Return(requeue) ==
    /\ pc' = "idle" /\ aas' = Absent /\ aasFresh' = FALSE /\ plan' = None
    /\ queued' = (queued \/ requeue)

\* The API server stores obj.  An update that changes nothing leaves the
\* resource version alone and causes no watch event.
Store(obj) ==
    /\ cr' = obj
    /\ crFresh' = (crFresh /\ obj = cr)
    /\ UNCHANGED crCache

\* Somebody other than the running reconcile changes the object.
StoreByOther(obj) ==
    /\ Store(obj)
    /\ aasFresh' = (aasFresh /\ obj = cr)

\* Mutant: no resource version is sent.
UpdateUnconditional == cr.exists

\* Optimistic concurrency: an update must carry the live resource version.
UpdateAccepted == cr.exists /\ aasFresh

-----------------------------------------------------------------------------
(* Reconcile, up to its first API write. *)

\* Mutant: the state-store entry survives the object.
BeginNotFoundKeepsState ==
    /\ pc = "idle" /\ queued /\ ~crCache.exists
    /\ handle' = Stop(handle)
    /\ queued' = FALSE
    /\ UNCHANGED <<now, crVars, hpaVars, deployVars, state, runVars, budget>>

\* The cached object is gone: drop its state, stop its worker.
BeginNotFound ==
    /\ pc = "idle" /\ queued /\ ~crCache.exists
    /\ state' = FreshState
    /\ handle' = Stop(handle)
    /\ queued' = FALSE
    /\ UNCHANGED <<now, crVars, hpaVars, deployVars, runVars, budget>>

\* Mutant: the annotation only counts when the worker is started.
EnsureWorkerSignalsOnce ==
    handle' = LET h == Ensure(handle, crCache.spec)
              IN  IF crCache.reclassify /\ ~handle.running
                  THEN SignalReclassify(h) ELSE h

\* Classifier.Ensure, and SignalReclassify when the annotation is set.
EnsureWorker ==
    handle' = LET h == Ensure(handle, crCache.spec)
              IN  IF crCache.reclassify THEN SignalReclassify(h) ELSE h

\* Work on the cached object, to be written back with the given status.
Start(label, status) ==
    /\ pc' = label
    /\ aas' = [crCache EXCEPT !.status = status]
    /\ aasFresh' = crFresh
    /\ plan' = None

\* handleKillSwitch: write phase Disabled unless it is there already.
KillSwitched ==
    /\ crCache.killSwitch
    /\ IF crCache.status.phase = "Disabled"
       THEN queued' = TRUE /\ UNCHANGED runVars
       ELSE /\ queued' = FALSE
            /\ Start("phase", [crCache.status EXCEPT !.phase = "Disabled"])

\* The object is being deleted: nothing to do, and no requeue.
BeingDeleted ==
    /\ ~crCache.killSwitch /\ crCache.deleting
    /\ queued' = FALSE
    /\ UNCHANGED runVars

\* Mutant: a conflict already published is not requeued.
ConflictingWithoutRequeue ==
    /\ ~crCache.killSwitch /\ ~crCache.deleting
    /\ queued' = FALSE
    /\ \E hpa \in hpaCache :
         IF crCache.status.phase = "Conflict" /\ crCache.status.conflictReason = hpa
         THEN UNCHANGED runVars
         ELSE Start("phase", [crCache.status EXCEPT !.phase = "Conflict",
                                                    !.conflictReason = hpa])

\* findConflictingHPA takes the first match of an unordered cached list;
\* handleConflict writes phase Conflict and the HPA's name unless both are
\* there already.
Conflicting ==
    /\ ~crCache.killSwitch /\ ~crCache.deleting
    /\ \E hpa \in hpaCache :
         IF crCache.status.phase = "Conflict" /\ crCache.status.conflictReason = hpa
         THEN queued' = TRUE /\ UNCHANGED runVars
         ELSE /\ queued' = FALSE
              /\ Start("phase", [crCache.status EXCEPT !.phase = "Conflict",
                                                       !.conflictReason = hpa])

\* Mutant: the HPA pre-check is dropped.
ProceedDespiteHPA ==
    /\ ~crCache.killSwitch /\ ~crCache.deleting
    /\ queued' = FALSE
    /\ Start("observe", crCache.status)

\* Neither paused nor in conflict: go on to the metrics.
Proceed ==
    /\ ~crCache.killSwitch /\ ~crCache.deleting /\ hpaCache = {}
    /\ queued' = FALSE
    /\ Start("observe", crCache.status)

Begin ==
    /\ pc = "idle" /\ queued /\ crCache.exists
    /\ EnsureWorker
    /\ KillSwitched \/ BeingDeleted \/ Conflicting \/ Proceed
    /\ UNCHANGED <<now, crVars, hpaVars, deployVars, state, budget>>

\* findConflictingHPA returns an error: retried with backoff.
ListHPAsFailed ==
    /\ pc = "idle" /\ queued /\ crCache.exists
    /\ ~crCache.killSwitch /\ ~crCache.deleting
    /\ Spend("fail")
    /\ EnsureWorker
    /\ queued' = TRUE
    /\ UNCHANGED <<now, crVars, hpaVars, deployVars, state, runVars>>

\* The Status().Update of handleKillSwitch and handleConflict.  A conflict
\* or any other error is returned and retried with backoff.
UpdatePhase ==
    /\ pc = "phase"
    /\ IF UpdateAccepted THEN Store([cr EXCEPT !.status = aas.status])
       ELSE UNCHANGED crVars
    /\ Return(TRUE)
    /\ UNCHANGED <<now, hpaVars, deployVars, state, handle, budget>>

\* Prometheus, the forecast service or the Deployment is unavailable, or the
\* history is too short: report it and wait for the next interval.
InputUnavailable ==
    /\ pc = "observe"
    /\ Spend("fail")
    /\ Return(TRUE)
    /\ UNCHANGED <<now, crVars, hpaVars, deployVars, state, handle>>

-----------------------------------------------------------------------------
(* Reconcile, the decision and its two writes. *)

\* The PerCRState this reconcile starts from.
Recovered(obj) ==
    IF state.initialized THEN state
    ELSE InitializeFromStatus(state,
            StatusSeed(obj.status.rpsPerPodCurrent, obj.status.lastScaleTime,
                       Deref(obj.spec.rpsPerPodMin, 50),
                       Deref(obj.spec.rpsPerPodMax, 500)))

\* Steps 5 to 8 for the object obj, the PerCRState s, the cached replica
\* count and the forecast.
PlanFor(obj, s, current, predicted) ==
    LET eff == ResolveEffectiveParams(obj.spec, obj.status.classifiedParams, Defaults)
        rpp == ClampRpsPerPod(s.rpsPerPod, Deref(obj.spec.rpsPerPodMin, 50),
                                           Deref(obj.spec.rpsPerPodMax, 500))
        unbounded == ComputeUnboundedRecommended(predicted, rpp)
        clamped == ClampRecommended(unbounded,
                        Deref(obj.spec.minReplicas, 2), Deref(obj.spec.maxReplicas, 10))
        out == ApplyCapAndCooldown(
                 [ recommended |-> clamped.replicas, current |-> current,
                   maxStep |-> eff.maxStep, cooldownUp |-> eff.cooldownUp,
                   cooldownDown |-> eff.cooldownDown,
                   lastScaleUp |-> s.lastScaleUp, lastScaleDown |-> s.lastScaleDown,
                   now |-> now, bindingReason |-> clamped.reason ])
    IN  [ current |-> current, predicted |-> ToInt32(predicted \div Scale),
          unbounded |-> unbounded, recommended |-> clamped.replicas,
          target |-> out.target, rpsPerPod |-> rpp \div Scale, at |-> now,
          cooldownUp |-> eff.cooldownUp, cooldownDown |-> eff.cooldownDown,
          maxStep |-> eff.maxStep ]

ShouldPatch(p) == p.target # p.current

\* Metrics and forecast have answered; read the cached Deployment, refresh
\* the estimate and decide.
Decide(rps, predicted) ==
    /\ pc = "observe"
    /\ handle' = ObserveDeploymentRevision(handle, deployCache.revision)
    /\ state' = Observe(Recovered(aas), rps, deployCache.replicas, now,
                        Interval, NoiseFloor)
    /\ plan' = PlanFor(aas, state', deployCache.replicas, predicted)
    /\ pc' = IF ShouldPatch(plan') THEN "scale" ELSE "status"
    /\ UNCHANGED <<now, crVars, hpaVars, deployVars, queued, aas, aasFresh, budget>>

\* The scale update carries no resource version: it overwrites whatever
\* count is there.
ApplyScale == deployment' = [deployment EXCEPT !.replicas = plan.target]

\* The cooldown clock of the direction moved is set to the decision's time.
StampScale ==
    state' = IF plan.target > plan.current
             THEN [state EXCEPT !.lastScaleUp = plan.at]
             ELSE [state EXCEPT !.lastScaleDown = plan.at]

ScaleAccepted ==
    /\ pc = "scale" /\ plan.target >= 0
    /\ ApplyScale
    /\ StampScale
    /\ pc' = "status"
    /\ UNCHANGED <<now, crVars, hpaVars, deployCache, deployLag, handle, queued,
                   aas, aasFresh, plan, budget>>

\* The scale update fails (always, for a negative count, which the API
\* server refuses): no clock, no status, next interval.
ScaleFailed ==
    /\ pc = "scale"
    /\ Spend("fail") \/ (plan.target < 0 /\ UNCHANGED budget)
    /\ Return(TRUE)
    /\ UNCHANGED <<now, crVars, hpaVars, deployVars, state, handle>>

\* The scale update is applied but its answer is lost: the code sees an
\* error all the same.
ScaleUnanswered ==
    /\ pc = "scale" /\ plan.target >= 0
    /\ Spend("lost")
    /\ ApplyScale
    /\ Return(TRUE)
    /\ UNCHANGED <<now, crVars, hpaVars, deployCache, deployLag, state, handle>>

\* What step 11 fills in, given the time of the last scale.
StatusWith(lastScaleTime) ==
    [ phase |-> "Ready", conflictReason |-> None,
      currentReplicas |-> plan.target,
      recommendedReplicas |-> plan.recommended,
      unboundedRecommended |-> plan.unbounded,
      predictedRPS |-> plan.predicted,
      rpsPerPodCurrent |-> plan.rpsPerPod,
      lastScaleTime |-> lastScaleTime,
      classifiedParams |-> aas.status.classifiedParams ]

\* Mutant: lastScaleTime is stamped whether or not there was a patch.
NewStatusAlwaysStamped == StatusWith(TruncateToSecond(plan.at))

\* Mutant: without a patch lastScaleTime is cleared.
NewStatusDropsTime ==
    StatusWith(IF ShouldPatch(plan) THEN TruncateToSecond(plan.at) ELSE None)

\* The status this reconcile wants to persist.
NewStatus ==
    StatusWith(IF ShouldPatch(plan) THEN TruncateToSecond(plan.at)
               ELSE aas.status.lastScaleTime)

\* Accepted or refused, the key is queued again (interval or backoff).
UpdateStatus ==
    /\ pc = "status"
    /\ IF UpdateAccepted THEN Store([cr EXCEPT !.status = NewStatus])
       ELSE UNCHANGED crVars
    /\ Return(TRUE)
    /\ UNCHANGED <<now, hpaVars, deployVars, state, handle, budget>>

\* A status write fails for a reason other than a version conflict.
StatusWriteFailed ==
    /\ pc \in {"phase", "status"}
    /\ Spend("fail")
    /\ Return(TRUE)
    /\ UNCHANGED <<now, crVars, hpaVars, deployVars, state, handle>>

Reconcile ==
    \/ BeginNotFound
    \/ Begin
    \/ ListHPAsFailed
    \/ UpdatePhase
    \/ InputUnavailable
    \/ \E rps \in CurrentRates, predicted \in Forecasts : Decide(rps, predicted)
    \/ ScaleAccepted
    \/ ScaleFailed
    \/ ScaleUnanswered
    \/ UpdateStatus
    \/ StatusWriteFailed

-----------------------------------------------------------------------------
(* Informers, clock, crash. *)

\* The watch delivers the live object and queues its key.
SyncCR ==
    /\ ~crFresh
    /\ crCache' = cr /\ crFresh' = TRUE /\ queued' = TRUE
    /\ UNCHANGED <<now, cr, hpaVars, deployVars, state, handle, runVars, budget>>

\* Deployment and HPA changes queue nothing.
SyncDeployment ==
    /\ deployCache # deployment
    /\ deployCache' = deployment /\ deployLag' = 0
    /\ UNCHANGED <<now, crVars, hpaVars, deployment, state, handle, queued,
                   runVars, budget>>

SyncHPA ==
    /\ hpaCache # hpas
    /\ hpaCache' = hpas
    /\ UNCHANGED <<now, crVars, hpas, deployVars, state, handle, queued,
                   runVars, budget>>

\* Time passes, but not past the bound on a cache's lag, if there is one.
Lagging == InformerLag # None /\ deployCache # deployment

Tick ==
    /\ now < MaxTime
    /\ Lagging => deployLag < InformerLag
    /\ pc \in {"scale", "status"} /\ RequestTime # None => now - plan.at < RequestTime
    /\ now' = now + 1
    /\ deployLag' = IF Lagging THEN deployLag + 1 ELSE 0
    /\ UNCHANGED <<crVars, hpaVars, deployment, deployCache, state, handle,
                   queued, runVars, budget>>

\* The controller restarts: its memory is gone, its caches are listed afresh
\* and every existing object is queued.
Crash ==
    /\ Spend("crash")
    /\ state' = FreshState /\ handle' = NoWorker
    /\ crCache' = cr /\ crFresh' = TRUE
    /\ hpaCache' = hpas
    /\ deployCache' = deployment /\ deployLag' = 0
    /\ pc' = "idle" /\ aas' = Absent /\ aasFresh' = FALSE /\ plan' = None
    /\ queued' = cr.exists
    /\ UNCHANGED <<now, cr, hpas, deployment>>

-----------------------------------------------------------------------------
(* Everyone else who writes these objects. *)

\* What other writers of the AgenticAutoscaler leave alone.
NotTheObject == <<now, hpaVars, deployVars, state, handle, queued, pc, aas, plan>>

ToggleKillSwitch ==
    /\ cr.exists /\ Spend("kill")
    /\ StoreByOther([cr EXCEPT !.killSwitch = ~@])
    /\ UNCHANGED NotTheObject

RequestReclassify ==
    /\ cr.exists /\ ~cr.reclassify /\ Spend("reclassify")
    /\ StoreByOther([cr EXCEPT !.reclassify = TRUE])
    /\ UNCHANGED NotTheObject

\* Schema defaults and webhook come before an operator's spec is stored.
EditSpec ==
    /\ cr.exists /\ Spend("edit")
    /\ \E s \in Admitted(Specs) \ {cr.spec} : StoreByOther([cr EXCEPT !.spec = s])
    /\ UNCHANGED NotTheObject

\* A background delete removes the object at once, a foreground one marks it.
DeleteCR ==
    /\ cr.exists
    /\ \/ Spend("delete") /\ StoreByOther(Absent)
       \/ Spend("delete") /\ ~cr.deleting /\ StoreByOther([cr EXCEPT !.deleting = TRUE])
       \/ cr.deleting /\ StoreByOther(Absent) /\ UNCHANGED budget
    /\ UNCHANGED NotTheObject

CreateCR ==
    /\ ~cr.exists /\ Spend("delete")
    /\ \E s \in Admitted(Specs) : StoreByOther(NewObject(s))
    /\ UNCHANGED NotTheObject

ChangeHPAs ==
    /\ Spend("hpa")
    /\ \E hpa \in HPAs :
         hpas' = IF hpa \in hpas THEN hpas \ {hpa} ELSE hpas \cup {hpa}
    /\ UNCHANGED <<now, crVars, hpaCache, deployVars, state, handle, queued, runVars>>

HumanScale ==
    /\ Spend("human")
    /\ \E n \in Replicas : deployment' = [deployment EXCEPT !.replicas = n]
    /\ UNCHANGED <<now, crVars, hpaVars, deployCache, deployLag, state, handle,
                   queued, runVars>>

Rollout ==
    /\ Spend("rollout")
    /\ \E r \in Revision \ {deployment.revision} :
         deployment' = [deployment EXCEPT !.revision = r]
    /\ UNCHANGED <<now, crVars, hpaVars, deployCache, deployLag, state, handle,
                   queued, runVars>>

Others ==
    \/ ToggleKillSwitch \/ RequestReclassify \/ EditSpec
    \/ DeleteCR \/ CreateCR \/ ChangeHPAs \/ HumanScale \/ Rollout

-----------------------------------------------------------------------------
(* The classifier worker as this module relies on it; ClassifierWorker     *)
(* shows that the goroutine does no more.                                  *)

ClassifierMaySpend ==
    IF ClassifierUnbounded THEN UNCHANGED budget ELSE Spend("classify")

\* The live object becomes obj; bumped says that its version changes, as it
\* must when obj is another value.
StoreByClassifier(obj, bumped) ==
    /\ obj # cr => bumped
    /\ cr' = obj
    /\ crFresh' = (crFresh /\ ~bumped)
    /\ aasFresh' = (aasFresh /\ ~bumped)
    /\ UNCHANGED crCache

\* patchStatus, a Get-mutate-Update: accepted only on the live version, so
\* it changes classifiedParams and nothing else.  ClassifiedAt is stored in
\* whole seconds: an equal classification bumps the version unless it is a
\* second old at most.
ClassifierWrite ==
    /\ cr.exists /\ ClassifierMaySpend
    /\ \E c \in ClassifiedParams, bumped \in BOOLEAN :
         StoreByClassifier([cr EXCEPT !.status.classifiedParams = c], bumped)
    /\ UNCHANGED NotTheObject

\* removeReclassifyAnnotation, on the live version likewise.
ClassifierStrip ==
    /\ cr.exists /\ cr.reclassify /\ ClassifierMaySpend
    /\ StoreByClassifier([cr EXCEPT !.reclassify = FALSE], TRUE)
    /\ UNCHANGED NotTheObject

\* The goroutine receives from one of its channels.
TakeSignal ==
    /\ handle.running /\ ClassifierMaySpend
    /\ \/ handle.reclassifyCh /\ handle' = [handle EXCEPT !.reclassifyCh = FALSE]
       \/ handle.generationCh /\ handle' = [handle EXCEPT !.generationCh = FALSE]
    /\ UNCHANGED <<now, crVars, hpaVars, deployVars, state, queued, runVars>>

Classifier == ClassifierWrite \/ ClassifierStrip \/ TakeSignal

-----------------------------------------------------------------------------

Init ==
    /\ now = 0
    /\ \E s \in Admitted(Specs) : cr = NewObject(s)
    /\ crCache = cr /\ crFresh = TRUE
    /\ hpas = {} /\ hpaCache = {}
    /\ deployment \in [replicas : Replicas, revision : {FirstRevision}]
    /\ deployCache = deployment /\ deployLag = 0
    /\ state = FreshState /\ handle = NoWorker
    /\ queued = TRUE
    /\ pc = "idle" /\ aas = Absent /\ aasFresh = FALSE /\ plan = None
    /\ budget \in Budgets

\* Everything but the classifier.
Own == Reconcile \/ SyncCR \/ SyncDeployment \/ SyncHPA \/ Tick \/ Crash \/ Others

Next == Own \/ Classifier

Spec == Init /\ [][Next]_vars

\* Every variable keeps its type; in particular the published replica
\* counts stay int32 and the persisted clock is a time or unset.
TypeOK ==
    /\ now \in Time
    /\ cr \in ObjectType /\ crCache \in ObjectType /\ crFresh \in BOOLEAN
    /\ hpas \subseteq HPAs /\ hpaCache \subseteq HPAs
    /\ deployment \in DeploymentType /\ deployCache \in DeploymentType
    /\ deployLag \in Nat
    /\ state \in StateType
    /\ handle \in Handle
    /\ queued \in BOOLEAN
    /\ pc \in {"idle", "phase", "observe", "scale", "status"}
    /\ aas \in ObjectType /\ aasFresh \in BOOLEAN
    /\ plan \in IF pc \in {"scale", "status"} THEN PlanType ELSE {None}
    /\ budget \in [Events -> Nat]

\* The plan p, computed for the object obj, is one the property below allows.
InRange(obj, p) ==
    /\ p.current + p.maxStep <= MaxInt32 =>
         /\ \/ p.current <= p.target /\ p.target <= p.recommended
            \/ p.recommended <= p.target /\ p.target <= p.current
         /\ p.target - p.current <= p.maxStep
         /\ p.current - p.target <= p.maxStep
    /\ Deref(obj.spec.minReplicas, 2) <= p.recommended
    /\ p.recommended <= Deref(obj.spec.maxReplicas, 10)
    /\ Deref(obj.spec.rpsPerPodMin, 50) <= p.rpsPerPod
    /\ p.rpsPerPod <= Deref(obj.spec.rpsPerPodMax, 500)

\* A plan never leaves the segment between the count it started from and the
\* recommendation and moves by at most the effective step, unless the int32
\* sum of count and step overflows; recommendation and estimate are inside
\* the bounds of the spec it was computed for, although the estimate may
\* have been learned, and the step classified, under another spec or for an
\* object since deleted and created again.
PlanInRange == plan # None => InRange(aas, plan)

\* A deleted AgenticAutoscaler leaves nothing behind: once its deletion has
\* been delivered and the queue is drained, its state-store entry and its
\* classifier worker are gone; a live one has its worker.
NothingLeaks ==
    pc = "idle" /\ ~queued /\ crFresh =>
      /\ handle.running = cr.exists
      /\ ~cr.exists => state = FreshState

-----------------------------------------------------------------------------
(* What makes these properties inductive; used by ReconcilerProofs. *)

\* A cache with the live resource version has the live object.
CacheInv == crFresh => crCache = cr

\* Every copy of the object has a spec that passed admission.
SpecsAdmitted ==
    /\ cr.spec \in Admitted(Specs) /\ crCache.spec \in Admitted(Specs)
    /\ aas.spec \in Admitted(Specs)

\* An idle, drained controller has followed the cached object.
FollowsCache ==
    pc = "idle" /\ ~queued =>
      /\ handle.running = crCache.exists
      /\ ~crCache.exists => state = FreshState
=============================================================================
