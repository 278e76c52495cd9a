-------------------------- MODULE ClassifierWorker --------------------------
(***************************************************************************)
(* The ClassifierWorker goroutine of one AgenticAutoscaler, running beside *)
(* the reconciler: it is started by Manager.Ensure, cancelled by           *)
(* Manager.Stop, woken through the two signal channels of its handle, and  *)
(* writes the same object as the reconciler, from the same informer cache. *)
(*                                                                         *)
(* Wall-clock intervals (the 30-minute ticker, the dedup window, the panic *)
(* backoff) are events that may happen at any time.  What a classification *)
(* computes is some member of ClassifiedParams; module Classification says *)
(* which.  Classifier, the reconciler's view of the worker, is replaced    *)
(* here by the goroutine's own steps.                                      *)
(***************************************************************************)
EXTENDS Reconciler

CONSTANT MaxFailures   \* bound: failed queries and panics of the worker

ASSUME WorkerAssumption == ClassifierUnbounded /\ MaxFailures \in Nat

VARIABLES
    worker,   \* the goroutine
    learned,  \* revision the last stored classification was queried under
    failures  \* failed queries and panics so far

wvars == <<vars, worker, learned, failures>>

WorkerSteps == {"query", "get", "update", "strip", "remove"}
Triggers == {"", "first", "timer", "reclassify", "generation"}

WorkerType ==
    [ pc : WorkerSteps \cup {"none", "wait", "backoff"},
      trigger : Triggers,        \* what the running classification was started by
      copy : ObjectType,         \* the object Get returned
      fresh : BOOLEAN,           \* copy has the live resource version
      tick : BOOLEAN,            \* the ticker's channel holds a tick
      recent : BOOLEAN,          \* the dedup window is open
      revision : Optional(Revision) ] \* Deployment revision at query time

NoGoroutine ==
    [ pc |-> "none", trigger |-> "", copy |-> Absent, fresh |-> FALSE,
      tick |-> FALSE, recent |-> FALSE, revision |-> None ]

\* Run: classify immediately, then wait for triggers.
Launched == [NoGoroutine EXCEPT !.pc = "query", !.trigger = "first"]

\* Back in the select of runOnce.
Waiting == [worker EXCEPT !.pc = "wait", !.trigger = "", !.copy = Absent,
                          !.fresh = FALSE, !.revision = None]

\* Mutant: Ensure registers a handle without launching the goroutine.
FollowWithoutLaunch ==
    /\ worker' = IF ~handle'.running THEN NoGoroutine
                 ELSE [worker EXCEPT !.fresh = @ /\ cr' = cr]
    /\ learned' = IF cr.exists /\ ~cr'.exists THEN None ELSE learned
    /\ UNCHANGED failures

\* The reconciler or its environment steps: Ensure launches the goroutine,
\* Stop and a crash of the process end it.  A cancelled worker's calls fail.
Follow ==
    /\ worker' = IF ~handle'.running THEN NoGoroutine
                 ELSE IF ~handle.running THEN Launched
                 ELSE [worker EXCEPT !.fresh = @ /\ cr' = cr]
    /\ learned' = IF cr.exists /\ ~cr'.exists THEN None ELSE learned
    /\ UNCHANGED failures

-----------------------------------------------------------------------------
(* runClassification. *)

Elsewhere == <<now, hpaVars, deployVars, state, queued, pc, aas, plan, budget>>

Fail ==
    /\ failures < MaxFailures
    /\ failures' = failures + 1

\* RangeQuery and RunPipeline succeed.
Query ==
    /\ worker.pc = "query"
    /\ worker' = [worker EXCEPT !.pc = "get", !.revision = deployment.revision]
    /\ UNCHANGED <<vars, learned, failures>>

\* The query fails or there is too little history.
QueryFailed ==
    /\ worker.pc = "query"
    /\ Fail
    /\ worker' = Waiting
    /\ UNCHANGED <<vars, learned>>

\* patchStatus: Get, from the cache.
GetToPatch ==
    /\ worker.pc = "get"
    /\ worker' = IF crCache.exists
                 THEN [worker EXCEPT !.pc = "update", !.copy = crCache, !.fresh = crFresh]
                 ELSE Waiting
    /\ UNCHANGED <<vars, learned, failures>>

\* Mutant: the worker's updates carry no resource version.
WorkerUpdateUnconditional == cr.exists

WorkerUpdateAccepted == cr.exists /\ worker.fresh

\* ComputeParams caps the step by the bounds the worker was started with.
WithinBounds(c) ==
    c.maxStepSize = 1 \/ c.maxStepSize <= handle.maxReplicas - handle.minReplicas

\* patchStatus: Status().Update.  ClassifiedAt is stored in whole seconds,
\* so an equal classification changes the object unless it is a second old
\* at most.
PatchStatus ==
    /\ worker.pc = "update"
    /\ IF WorkerUpdateAccepted
       THEN /\ \E c \in ClassifiedParams, bumped \in BOOLEAN :
               /\ WithinBounds(c)
               /\ StoreByClassifier([cr EXCEPT !.status =
                     [worker.copy.status EXCEPT !.classifiedParams = c]], bumped)
            /\ learned' = worker.revision
            /\ worker' = IF worker.trigger = "reclassify"
                         THEN [Waiting EXCEPT !.pc = "strip", !.recent = TRUE,
                                              !.trigger = worker.trigger]
                         ELSE [Waiting EXCEPT !.recent = TRUE]
       ELSE /\ worker' = Waiting
            /\ UNCHANGED <<crVars, aasFresh, learned>>
    /\ UNCHANGED <<Elsewhere, handle, failures>>

\* removeReclassifyAnnotation: Get, from the cache; nothing to do when the
\* object or the annotation is not there.
GetToStrip ==
    /\ worker.pc = "strip"
    /\ worker' = IF crCache.exists /\ crCache.reclassify
                 THEN [worker EXCEPT !.pc = "remove", !.copy = crCache, !.fresh = crFresh]
                 ELSE Waiting
    /\ UNCHANGED <<vars, learned, failures>>

\* removeReclassifyAnnotation: Update.  It writes metadata and spec of the
\* copy, not the status; an error is only logged.
RemoveAnnotation ==
    /\ worker.pc = "remove"
    /\ IF WorkerUpdateAccepted
       THEN StoreByClassifier([worker.copy EXCEPT !.reclassify = FALSE,
                                              !.status = cr.status], TRUE)
       ELSE UNCHANGED <<crVars, aasFresh>>
    /\ worker' = Waiting
    /\ UNCHANGED <<Elsewhere, handle, learned, failures>>

-----------------------------------------------------------------------------
(* runOnce. *)

Classify(trigger) == [Waiting EXCEPT !.pc = "query", !.trigger = trigger]

\* Mutant: the tick is received and nothing is done.
OnTimerIgnored ==
    /\ worker.pc = "wait" /\ worker.tick
    /\ worker' = [worker EXCEPT !.tick = FALSE]
    /\ UNCHANGED <<vars, learned, failures>>

OnTimer ==
    /\ worker.pc = "wait" /\ worker.tick
    /\ worker' = [Classify("timer") EXCEPT !.tick = FALSE]
    /\ UNCHANGED <<vars, learned, failures>>

OnReclassify ==
    /\ worker.pc = "wait" /\ handle.reclassifyCh
    /\ handle' = [handle EXCEPT !.reclassifyCh = FALSE]
    /\ worker' = Classify("reclassify")
    /\ UNCHANGED <<Elsewhere, crVars, aasFresh, learned, failures>>

ShouldRunOnGeneration == ~worker.recent

OnGeneration ==
    /\ worker.pc = "wait" /\ handle.generationCh
    /\ handle' = [handle EXCEPT !.generationCh = FALSE]
    /\ worker' = IF ShouldRunOnGeneration THEN Classify("generation") ELSE worker
    /\ UNCHANGED <<Elsewhere, crVars, aasFresh, learned, failures>>

\* The ticker is started after the first classification of runOnce.
TimerFires ==
    /\ worker.pc \notin {"none", "backoff"} /\ worker.trigger # "first"
    /\ ~worker.tick
    /\ worker' = [worker EXCEPT !.tick = TRUE]
    /\ UNCHANGED <<vars, learned, failures>>

DedupWindowEnds ==
    /\ worker.recent
    /\ worker' = [worker EXCEPT !.recent = FALSE]
    /\ UNCHANGED <<vars, learned, failures>>

\* recover: the ticker stops, and after the backoff runOnce starts over.
Panic ==
    /\ worker.pc \in WorkerSteps
    /\ Fail
    /\ worker' = [Waiting EXCEPT !.pc = "backoff", !.tick = FALSE]
    /\ UNCHANGED <<vars, learned>>

BackoffEnds ==
    /\ worker.pc = "backoff"
    /\ worker' = Classify("first")
    /\ UNCHANGED <<vars, learned, failures>>

WorkerRuns ==
    \/ Query \/ QueryFailed \/ GetToPatch \/ PatchStatus \/ GetToStrip
    \/ RemoveAnnotation \/ Panic \/ BackoffEnds

-----------------------------------------------------------------------------

WInit == Init /\ worker = NoGoroutine /\ learned = None /\ failures = 0

WNext ==
    \/ Own /\ Follow
    \/ WorkerRuns \/ OnTimer \/ OnReclassify \/ OnGeneration
    \/ TimerFires \/ DedupWindowEnds

WSpec == WInit /\ [][WNext]_wvars

\* Go's select picks among ready cases at random, so none of them starves.
WFairness ==
    /\ WF_wvars(Reconcile /\ Follow)
    /\ WF_wvars(SyncCR /\ Follow)
    /\ WF_wvars(SyncDeployment /\ Follow)
    /\ WF_wvars(SyncHPA /\ Follow)
    /\ WF_wvars(WorkerRuns)
    /\ WF_wvars(TimerFires)
    /\ SF_wvars(OnTimer)
    /\ SF_wvars(OnReclassify)

WLiveSpec == WSpec /\ WFairness

-----------------------------------------------------------------------------

\* Every variable has its type; a goroutine exists exactly while the manager
\* has a handle for it.
WTypeOK ==
    /\ TypeOK
    /\ worker \in WorkerType
    /\ learned \in Optional(Revision)
    /\ failures \in 0 .. MaxFailures
    /\ handle.running = (worker.pc # "none")

\* The worker stays within what the reconciler relies on: every step of the
\* goroutine, caches, refused updates and panics included, is a step that
\* module Reconciler allows the classifier, so all that is shown there with
\* the classifier left open holds of the two together.
WithinContract == Spec

\* The classifier's status write, from a cached copy, takes back nothing
\* that the reconciler has published: phase, counts, estimate and the clock
\* that restarts recover from are those of the live object.
ReconcilerStatusKept ==
    [][ worker.pc = "update" /\ worker'.pc # "update" /\ cr'.exists =>
          [cr'.status EXCEPT !.classifiedParams = cr.status.classifiedParams]
              = cr.status ]_wvars

\* Removing the reclassify annotation rewrites the object from a cached copy
\* and yet undoes no operator's edit: kill-switch, deletion mark and spec.
OperatorEditsKept ==
    [][ worker.pc = "remove" /\ worker'.pc = "wait" =>
          cr' = [cr EXCEPT !.reclassify = cr'.reclassify] ]_wvars

\* removeReclassifyAnnotation's comment: "a follow-up reconcile/timer will
\* eventually re-classify and retry".  While the annotation stays on, new
\* classifications are started for it over and over, whatever was lost to
\* failures, panics, refused updates or a full channel.
ReclassifyRetried ==
    <>[](cr.exists /\ ~cr.deleting /\ cr.reclassify)
        => []<>(worker.pc = "query" /\ worker.trigger = "reclassify")

\* A rollout is eventually followed by a classification of the new revision,
\* although its signal may be dropped by the dedup window: the ticker makes
\* up for it.
RolloutReclassified ==
    <>[](cr.exists /\ ~cr.deleting => learned = deployment.revision)

\* design_v2.md on the annotation: "The controller removes the annotation
\* after a successful classification".
ReclassifyRemoved ==
    <>[](cr.exists /\ ~cr.deleting => ~cr.reclassify)

-----------------------------------------------------------------------------
(* What makes these properties inductive; used by WorkerProofs. *)

\* A fresh copy is the live object, and the annotation is only removed from
\* a copy that has it.
WorkerInv ==
    /\ CacheInv
    /\ worker.fresh => worker.copy = cr
    /\ worker.pc = "remove" => worker.copy.reclassify
=============================================================================
