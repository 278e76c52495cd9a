---------------------------- MODULE WorkerProofs ----------------------------
(***************************************************************************)
(* Theorems about the classifier worker beside the reconciler: every step  *)
(* of the goroutine is one that module Reconciler allows the classifier,   *)
(* so the two together implement Spec; and what its two writes, made from  *)
(* cached copies, leave alone.                                             *)
(***************************************************************************)
EXTENDS ClassifierWorker, ReconcilerProofs

USE NumbersAssumption, NoneAssumption, RevisionAssumption, InputsAssumption,
    WorkerAssumption

-----------------------------------------------------------------------------
(* Types of the goroutine's states. *)

LEMMA NoGoroutineType ==
    /\ NoGoroutine \in WorkerType /\ Launched \in WorkerType
    /\ NoGoroutine.pc = "none" /\ Launched.pc = "query"
    /\ NoGoroutine.fresh = FALSE /\ Launched.fresh = FALSE
BY AbsentType DEF NoGoroutine, Launched, WorkerType, WorkerSteps, Triggers, Optional

LEMMA WaitingType ==
    ASSUME worker \in WorkerType
    PROVE  Waiting \in WorkerType /\ Waiting.fresh = FALSE /\ Waiting.pc = "wait"
BY AbsentType DEF Waiting, WorkerType, WorkerSteps, Triggers, Optional

LEMMA ClassifyType ==
    ASSUME worker \in WorkerType, NEW trigger \in Triggers
    PROVE  /\ Classify(trigger) \in WorkerType
           /\ Classify(trigger).fresh = FALSE /\ Classify(trigger).pc = "query"
<1>1. Classify(trigger) = [Waiting EXCEPT !.pc = "query", !.trigger = trigger]
  BY DEF Classify
<1> QED  BY <1>1, WaitingType DEF WorkerType, WorkerSteps

-----------------------------------------------------------------------------
(* Every step of the goroutine is a step the reconciler allows. *)

LEMMA WorkerRefines == WTypeOK /\ WorkerInv /\ [WNext]_wvars => [Next]_vars
<1> SUFFICES ASSUME WTypeOK, WorkerInv, [WNext]_wvars PROVE [Next]_vars
  OBVIOUS
<1>0. /\ worker \in WorkerType /\ worker.copy \in ObjectType
      /\ cr \in ObjectType /\ cr.status \in StatusType
  BY DEF WTypeOK, TypeOK, WorkerType, ObjectType
<1>1. ASSUME UNCHANGED vars PROVE [Next]_vars
  BY <1>1
<1>2. ASSUME Elsewhere' = Elsewhere PROVE UNCHANGED <<now, hpaVars, deployVars, state,
                                             queued, pc, aas, plan, budget>>
  BY <1>2 DEF Elsewhere
<1>3. ASSUME budget' = budget PROVE ClassifierMaySpend
  BY <1>3 DEF ClassifierMaySpend
<1>4. CASE Own /\ Follow
  BY <1>4 DEF Next
<1>5. CASE PatchStatus
  <2>1. CASE WorkerUpdateAccepted
    <3>1. PICK c \in ClassifiedParams, bumped \in BOOLEAN :
             StoreByClassifier([cr EXCEPT !.status =
                [worker.copy.status EXCEPT !.classifiedParams = c]], bumped)
      BY <1>5, <2>1 DEF PatchStatus
    <3>2. cr.exists /\ worker.copy = cr
      BY <2>1 DEF WorkerUpdateAccepted, WorkerInv
    <3>3. [cr EXCEPT !.status = [worker.copy.status EXCEPT !.classifiedParams = c]]
            = [cr EXCEPT !.status.classifiedParams = c]
      BY <3>2
    <3>4. StoreByClassifier([cr EXCEPT !.status.classifiedParams = c], bumped)
      BY <3>1, <3>3
    <3>5. UNCHANGED NotTheObject /\ budget' = budget
      BY <1>5, <1>2 DEF PatchStatus, NotTheObject
    <3>6. ClassifierWrite
      BY <1>3, <3>2, <3>4, <3>5 DEF ClassifierWrite
    <3> QED  BY <3>6 DEF Next, Classifier
  <2>2. CASE ~WorkerUpdateAccepted
    BY <1>2, <1>5, <2>2 DEF PatchStatus, vars, crVars, runVars
  <2> QED  BY <2>1, <2>2
<1>6. CASE RemoveAnnotation
  <2>1. CASE WorkerUpdateAccepted
    <3>1. StoreByClassifier([worker.copy EXCEPT !.reclassify = FALSE,
                                                !.status = cr.status], TRUE)
      BY <1>6, <2>1 DEF RemoveAnnotation
    <3>2. cr.exists /\ worker.copy = cr /\ cr.reclassify
      BY <1>6, <2>1 DEF WorkerUpdateAccepted, WorkerInv, RemoveAnnotation
    <3>3. [worker.copy EXCEPT !.reclassify = FALSE, !.status = cr.status]
            = [cr EXCEPT !.reclassify = FALSE]
      BY <1>0, <3>2 DEF ObjectType
    <3>4. StoreByClassifier([cr EXCEPT !.reclassify = FALSE], TRUE)
      BY <3>1, <3>3
    <3>5. UNCHANGED NotTheObject /\ budget' = budget
      BY <1>6, <1>2 DEF RemoveAnnotation, NotTheObject
    <3>6. ClassifierStrip
      BY <1>3, <3>2, <3>4, <3>5 DEF ClassifierStrip
    <3> QED  BY <3>6 DEF Next, Classifier
  <2>2. CASE ~WorkerUpdateAccepted
    BY <1>2, <1>6, <2>2 DEF RemoveAnnotation, vars, crVars, runVars
  <2> QED  BY <2>1, <2>2
<1>7. CASE OnReclassify \/ OnGeneration
  <2>1. handle.running
    BY <1>7 DEF OnReclassify, OnGeneration, WTypeOK
  <2>2. /\ UNCHANGED <<now, crVars, hpaVars, deployVars, state, queued, runVars>>
        /\ budget' = budget
    BY <1>2, <1>7 DEF OnReclassify, OnGeneration, runVars
  <2>3. TakeSignal
    BY <1>3, <1>7, <2>1, <2>2 DEF TakeSignal, OnReclassify, OnGeneration
  <2> QED  BY <2>3 DEF Next, Classifier
<1>8. CASE \/ Query \/ QueryFailed \/ GetToPatch \/ GetToStrip \/ Panic \/ BackoffEnds
           \/ OnTimer \/ TimerFires \/ DedupWindowEnds
  BY <1>1, <1>8 DEF Query, QueryFailed, GetToPatch, GetToStrip, Panic, BackoffEnds,
     OnTimer, TimerFires, DedupWindowEnds
<1>9. CASE UNCHANGED wvars
  BY <1>1, <1>9 DEF wvars
<1> QED  BY <1>4, <1>5, <1>6, <1>7, <1>8, <1>9 DEF WNext, WorkerRuns

-----------------------------------------------------------------------------
(* Types and the invariant. *)

LEMMA WorkerInit == WInit => WTypeOK /\ WorkerInv
<1> SUFFICES ASSUME WInit PROVE WTypeOK /\ WorkerInv
  OBVIOUS
<1>1. TypeOK
  BY InitType DEF WInit
<1>2. WTypeOK
  <2>1. handle.running = FALSE /\ worker.pc = "none" /\ worker \in WorkerType
    BY NoGoroutineType DEF WInit, Init, NoWorker
  <2>2. learned \in Optional(Revision) /\ failures \in 0 .. MaxFailures
    BY DEF WInit, Optional
  <2> QED  BY <1>1, <2>1, <2>2 DEF WTypeOK
<1> QED  BY <1>2, NoGoroutineType DEF WInit, Init, WorkerInv, CacheInv

LEMMA WorkerNext == WTypeOK /\ WorkerInv /\ [WNext]_wvars => WTypeOK' /\ WorkerInv'
<1> SUFFICES ASSUME WTypeOK, WorkerInv, [WNext]_wvars PROVE WTypeOK' /\ WorkerInv'
  OBVIOUS
<1>0. TypeOK' /\ CacheInv'
  BY WorkerRefines, NextType, CacheNext DEF WTypeOK, WorkerInv
<1>t. /\ worker \in WorkerType /\ failures \in 0 .. MaxFailures
      /\ learned \in Optional(Revision) /\ handle.running = (worker.pc # "none")
      /\ worker.copy \in ObjectType /\ worker.fresh \in BOOLEAN
      /\ handle.running \in BOOLEAN /\ handle'.running \in BOOLEAN
  BY <1>0 DEF WTypeOK, TypeOK, WorkerType, Handle
\* A step after which the goroutine holds no copy.
<1>1. ASSUME worker' \in WorkerType, worker'.fresh = FALSE, worker'.pc # "remove",
             learned' \in Optional(Revision), failures' \in 0 .. MaxFailures,
             handle'.running = (worker'.pc # "none")
      PROVE  WTypeOK' /\ WorkerInv'
  BY <1>0, <1>1 DEF WTypeOK, WorkerInv
<1>2. ASSUME Fail PROVE failures' \in 0 .. MaxFailures
  BY <1>2, <1>t DEF Fail
<1>3. CASE Own /\ Follow
  <2>1. learned' \in Optional(Revision) /\ failures' \in 0 .. MaxFailures
    BY <1>3, <1>t DEF Follow, Optional
  <2>2. CASE ~handle'.running
    BY <1>1, <1>3, <1>t, <2>1, <2>2, NoGoroutineType DEF Follow
  <2>3. CASE handle'.running /\ ~handle.running
    BY <1>1, <1>3, <1>t, <2>1, <2>3, NoGoroutineType DEF Follow
  <2>4. CASE handle'.running /\ handle.running
    <3>1. worker' = [worker EXCEPT !.fresh = @ /\ cr' = cr]
      BY <1>3, <2>4 DEF Follow
    <3>2. /\ worker' \in WorkerType /\ worker'.copy = worker.copy
          /\ worker'.pc = worker.pc /\ worker'.fresh = (worker.fresh /\ cr' = cr)
      BY <1>t, <3>1 DEF WorkerType
    <3> QED  BY <1>0, <1>t, <2>1, <2>4, <3>2 DEF WTypeOK, WorkerInv
  <2> QED  BY <2>2, <2>3, <2>4
<1>4. CASE Query \/ TimerFires \/ DedupWindowEnds
  <2>1. deployment.revision \in Optional(Revision)
    BY DEF WTypeOK, TypeOK, DeploymentType, Optional
  <2>2. /\ worker' \in WorkerType /\ worker'.copy = worker.copy
        /\ worker'.fresh = worker.fresh /\ worker'.pc \in {worker.pc, "get"}
    BY <1>4, <1>t, <2>1 DEF Query, TimerFires, DedupWindowEnds, WorkerType, WorkerSteps
  <2>3. (worker'.pc # "none") = (worker.pc # "none")
    BY <1>4, <1>t DEF Query, TimerFires, DedupWindowEnds, WorkerType
  <2>4. UNCHANGED <<vars, learned>> /\ failures' = failures
    BY <1>4 DEF Query, TimerFires, DedupWindowEnds
  <2>5. cr' = cr /\ handle' = handle
    BY <2>4 DEF vars, crVars
  <2> QED  BY <1>0, <1>t, <2>2, <2>3, <2>4, <2>5 DEF WTypeOK, WorkerInv
<1>5. CASE QueryFailed \/ Panic
  <2>1. worker' = Waiting \/ worker' = [Waiting EXCEPT !.pc = "backoff", !.tick = FALSE]
    BY <1>5 DEF QueryFailed, Panic
  <2>2. /\ worker' \in WorkerType /\ worker'.fresh = FALSE
        /\ worker'.pc \in {"wait", "backoff"}
    BY <1>t, <2>1, WaitingType DEF WorkerType
  <2>3. UNCHANGED <<learned, handle>> /\ failures' \in 0 .. MaxFailures
    BY <1>2, <1>5 DEF QueryFailed, Panic, vars
  <2>4. worker.pc # "none"
    BY <1>5 DEF QueryFailed, Panic, WorkerSteps
  <2> QED  BY <1>1, <1>t, <2>2, <2>3, <2>4
<1>6. CASE GetToPatch \/ GetToStrip
  <2>1. /\ UNCHANGED <<learned, failures, cr, handle>> /\ worker.pc # "none"
    BY <1>6 DEF GetToPatch, GetToStrip, vars, crVars
  <2>2. CASE worker' = Waiting
    BY <1>1, <1>t, <2>1, <2>2, WaitingType
  <2>3. CASE worker' # Waiting
    <3>1. crCache \in ObjectType /\ crFresh \in BOOLEAN
      BY DEF WTypeOK, TypeOK
    <3>2. PICK p \in {"update", "remove"} :
             worker' = [worker EXCEPT !.pc = p, !.copy = crCache, !.fresh = crFresh]
      BY <1>6, <2>3 DEF GetToPatch, GetToStrip
    <3>3. /\ worker' \in WorkerType /\ worker'.pc = p /\ worker'.copy = crCache
          /\ worker'.fresh = crFresh
      BY <1>t, <3>1, <3>2 DEF WorkerType, WorkerSteps
    <3>4. worker'.pc = "remove" => crCache.reclassify
      BY <1>6, <1>t, <2>3, <3>3 DEF GetToPatch, GetToStrip, WorkerType
    <3>5. worker'.fresh => worker'.copy = cr'
      BY <2>1, <3>3 DEF WorkerInv, CacheInv
    <3> QED  BY <1>0, <1>t, <2>1, <3>3, <3>4, <3>5 DEF WTypeOK, WorkerInv
  <2> QED  BY <2>2, <2>3
<1>7. CASE PatchStatus
  <2>1. /\ worker' \in WorkerType /\ worker'.fresh = FALSE
        /\ worker'.pc \in {"wait", "strip"}
    <3>1. \/ worker' = Waiting
          \/ worker' = [Waiting EXCEPT !.recent = TRUE]
          \/ worker' = [Waiting EXCEPT !.pc = "strip", !.recent = TRUE,
                                       !.trigger = worker.trigger]
      BY <1>7 DEF PatchStatus
    <3>2. worker.trigger \in Triggers
      BY <1>t DEF WorkerType
    <3> QED  BY <1>t, <3>1, <3>2, WaitingType DEF WorkerType, WorkerSteps
  <2>2. learned' \in Optional(Revision) /\ failures' = failures /\ handle' = handle
    <3>1. worker.revision \in Optional(Revision)
      BY <1>t DEF WorkerType
    <3> QED  BY <1>7, <1>t, <3>1 DEF PatchStatus
  <2>3. worker.pc # "none"
    BY <1>7 DEF PatchStatus
  <2> QED  BY <1>1, <1>t, <2>1, <2>2, <2>3
<1>8. CASE RemoveAnnotation
  BY <1>1, <1>8, <1>t, WaitingType DEF RemoveAnnotation
<1>9. CASE OnTimer \/ BackoffEnds \/ OnReclassify
  <2>1. PICK trigger \in Triggers :
           worker' = Classify(trigger) \/ worker' = [Classify(trigger) EXCEPT !.tick = FALSE]
    BY <1>9 DEF OnTimer, BackoffEnds, OnReclassify, Triggers
  <2> DEFINE w == Classify(trigger)
  <2>w. w \in WorkerType /\ w.fresh = FALSE /\ w.pc = "query"
    BY <1>t, ClassifyType
  <2> HIDE DEF w
  <2>2. worker' \in WorkerType /\ worker'.fresh = FALSE /\ worker'.pc = "query"
    <3>1. worker' = w \/ worker' = [w EXCEPT !.tick = FALSE]
      BY <2>1 DEF w
    <3> QED  BY <2>w, <3>1 DEF WorkerType
  <2>3. /\ UNCHANGED <<learned, failures>> /\ handle'.running = handle.running
        /\ worker.pc # "none"
    BY <1>9 DEF OnTimer, BackoffEnds, OnReclassify, vars, WTypeOK, TypeOK, Handle
  <2> QED  BY <1>1, <1>t, <2>2, <2>3
<1>10. CASE OnGeneration
  <2>1. /\ UNCHANGED <<learned, failures, cr>> /\ handle'.running = handle.running
        /\ worker.pc # "none"
    BY <1>10 DEF OnGeneration, crVars, WTypeOK, TypeOK, Handle
  <2>2. CASE worker' = worker
    BY <1>0, <1>t, <2>1, <2>2 DEF WTypeOK, WorkerInv
  <2>3. CASE worker' = Classify("generation")
    BY <1>1, <1>t, <2>1, <2>3, ClassifyType DEF Triggers
  <2> QED  BY <1>10, <2>2, <2>3 DEF OnGeneration
<1>11. CASE UNCHANGED wvars
  BY <1>0, <1>11, <1>t DEF wvars, vars, crVars, WTypeOK, WorkerInv
<1> QED  BY <1>3, <1>4, <1>5, <1>6, <1>7, <1>8, <1>9, <1>10, <1>11 DEF WNext, WorkerRuns

\* Reconciler and goroutine together are type correct, and a goroutine
\* exists exactly while the manager has a handle for it.
THEOREM WorkerTypes == WSpec => []WTypeOK
BY WorkerInit, WorkerNext, PTL DEF WSpec

\* Everything shown of the reconciler with the classifier left open holds of
\* the reconciler beside the goroutine.
THEOREM WorkerKeepsContract == WSpec => WithinContract
<1>1. WInit => Init
  BY DEF WInit
<1> QED  BY <1>1, WorkerInit, WorkerNext, WorkerRefines, PTL DEF WSpec, Spec, WithinContract

-----------------------------------------------------------------------------
(* What the goroutine's writes leave alone. *)

\* Only a crash and the end of the object stop the worker, and neither
\* changes the object.
LEMMA StopKeepsObject ==
    ASSUME TypeOK, Own, handle.running, ~handle'.running
    PROVE  cr' = cr
<1>1. ASSUME UNCHANGED handle PROVE FALSE
  BY <1>1
<1>2. CASE Reconcile
  <2>1. CASE BeginNotFound
    BY <2>1 DEF BeginNotFound, crVars
  <2>2. CASE Begin \/ ListHPAsFailed
    BY <2>2, EnsureType DEF Begin, ListHPAsFailed, TypeOK
  <2>3. ASSUME NEW rps \in CurrentRates, NEW predicted \in Forecasts,
               Decide(rps, predicted)
        PROVE  cr' = cr
    BY <2>3 DEF Decide, crVars
  <2> QED  BY <1>1, <1>2, <2>1, <2>2, <2>3
           DEF Reconcile, UpdatePhase, InputUnavailable, ScaleAccepted, ScaleFailed,
               ScaleUnanswered, UpdateStatus, StatusWriteFailed
<1>3. CASE SyncCR \/ SyncDeployment \/ SyncHPA \/ Tick \/ Crash
  BY <1>3 DEF SyncCR, SyncDeployment, SyncHPA, Tick, Crash, crVars
<1>4. CASE Others
  BY <1>1, <1>4 DEF Others, ToggleKillSwitch, RequestReclassify, EditSpec, DeleteCR,
     CreateCR, ChangeHPAs, HumanScale, Rollout, NotTheObject
<1> QED  BY <1>2, <1>3, <1>4 DEF Own

LEMMA StatusStep ==
    ASSUME WTypeOK, WorkerInv, [WNext]_wvars, worker.pc = "update", worker'.pc # "update"
    PROVE  [cr'.status EXCEPT !.classifiedParams = cr.status.classifiedParams] = cr.status
<1>0. worker \in WorkerType /\ cr \in ObjectType /\ cr.status \in StatusType
  BY DEF WTypeOK, TypeOK, ObjectType
<1>1. ASSUME cr' = cr
      PROVE  [cr'.status EXCEPT !.classifiedParams = cr.status.classifiedParams] = cr.status
  BY <1>0, <1>1 DEF StatusType
<1>2. CASE Own /\ Follow
  <2>1. ~handle'.running
    BY <1>0, <1>2 DEF Follow, WTypeOK, WorkerType
  <2>2. handle.running
    BY DEF WTypeOK
  <2> QED  BY <1>1, <1>2, <2>1, <2>2, StopKeepsObject DEF WTypeOK
<1>3. CASE PatchStatus
  <2>1. CASE WorkerUpdateAccepted
    <3>1. PICK c \in ClassifiedParams :
             cr' = [cr EXCEPT !.status = [cr.status EXCEPT !.classifiedParams = c]]
      BY <1>3, <2>1 DEF PatchStatus, StoreByClassifier, WorkerUpdateAccepted, WorkerInv
    <3>2. cr'.status = [cr.status EXCEPT !.classifiedParams = c]
      BY <1>0, <3>1 DEF ObjectType
    <3> QED  BY <1>0, <3>2 DEF StatusType
  <2>2. CASE ~WorkerUpdateAccepted
    BY <1>1, <1>3, <2>2 DEF PatchStatus, crVars
  <2> QED  BY <2>1, <2>2
<1>4. CASE Panic
  BY <1>1, <1>4 DEF Panic, vars, crVars
<1>5. CASE TimerFires \/ DedupWindowEnds
  BY <1>0, <1>5 DEF TimerFires, DedupWindowEnds, WorkerType
<1>6. CASE UNCHANGED wvars
  BY <1>6 DEF wvars
<1> QED  BY <1>2, <1>3, <1>4, <1>5, <1>6
         DEF WNext, WorkerRuns, Query, QueryFailed, GetToPatch, GetToStrip,
             RemoveAnnotation, BackoffEnds, OnTimer, OnReclassify, OnGeneration

LEMMA EditsStep ==
    ASSUME WTypeOK, WorkerInv, [WNext]_wvars, worker.pc = "remove", worker'.pc = "wait"
    PROVE  cr' = [cr EXCEPT !.reclassify = cr'.reclassify]
<1>0. worker \in WorkerType /\ cr \in ObjectType
  BY DEF WTypeOK, TypeOK
<1>1. CASE Own /\ Follow
  BY <1>0, <1>1, NoGoroutineType DEF Follow, WorkerType
<1>2. CASE RemoveAnnotation
  <2>1. CASE WorkerUpdateAccepted
    <3>1. cr' = [cr EXCEPT !.reclassify = FALSE, !.status = cr.status]
      BY <1>2, <2>1
      DEF RemoveAnnotation, StoreByClassifier, WorkerUpdateAccepted, WorkerInv
    <3> QED  BY <1>0, <3>1 DEF ObjectType
  <2>2. CASE ~WorkerUpdateAccepted
    BY <1>0, <1>2, <2>2 DEF RemoveAnnotation, crVars, ObjectType
  <2> QED  BY <2>1, <2>2
<1>3. CASE Panic
  BY <1>0, <1>3, WaitingType DEF Panic, WorkerType
<1>4. CASE TimerFires \/ DedupWindowEnds
  BY <1>0, <1>4 DEF TimerFires, DedupWindowEnds, WorkerType
<1>5. CASE UNCHANGED wvars
  BY <1>5 DEF wvars
<1> QED  BY <1>1, <1>2, <1>3, <1>4, <1>5
         DEF WNext, WorkerRuns, Query, QueryFailed, GetToPatch, PatchStatus, GetToStrip,
             BackoffEnds, OnTimer, OnReclassify, OnGeneration

\* The classifier's status write, made from a cached copy, takes back nothing
\* the reconciler has published.
THEOREM WorkerKeepsStatus == WSpec => ReconcilerStatusKept
<1>1. WTypeOK /\ WorkerInv /\ [WNext]_wvars =>
        [worker.pc = "update" /\ worker'.pc # "update" /\ cr'.exists =>
          [cr'.status EXCEPT !.classifiedParams = cr.status.classifiedParams]
              = cr.status]_wvars
  BY StatusStep
<1> QED  BY <1>1, WorkerInit, WorkerNext, PTL DEF WSpec, ReconcilerStatusKept

\* Removing the annotation, from a cached copy too, undoes no operator's edit.
THEOREM WorkerKeepsEdits == WSpec => OperatorEditsKept
<1>1. WTypeOK /\ WorkerInv /\ [WNext]_wvars =>
        [worker.pc = "remove" /\ worker'.pc = "wait" =>
          cr' = [cr EXCEPT !.reclassify = cr'.reclassify]]_wvars
  BY EditsStep
<1> QED  BY <1>1, WorkerInit, WorkerNext, PTL DEF WSpec, OperatorEditsKept
=============================================================================
