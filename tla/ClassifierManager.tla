-------------------------- MODULE ClassifierManager --------------------------
(***************************************************************************)
(* classifier.Manager seen from the reconciler, for one AgenticAutoscaler: *)
(* the workerHandle that Ensure creates and Stop removes, and the two      *)
(* signal channels.  A handle is NoWorker or a record; a channel of        *)
(* capacity 1 that carries struct{} is TRUE when it holds a signal.  Each  *)
(* operator is one call of the manager and yields the next handle.         *)
(***************************************************************************)
EXTENDS Decision

CONSTANT Revision   \* values of deployment.kubernetes.io/revision

ASSUME RevisionAssumption == None \notin Revision

NoWorker == [ running |-> FALSE, minReplicas |-> None, maxReplicas |-> None,
              reclassifyCh |-> FALSE, generationCh |-> FALSE,
              revision |-> None ]

\* revision = None is revisionInitialized = false.
Handle == [ running : BOOLEAN,
            minReplicas : Optional(Int32), maxReplicas : Optional(Int32),
            reclassifyCh : BOOLEAN, generationCh : BOOLEAN,
            revision : Optional(Revision) ]

\* A running worker keeps the bounds it was started with.
Ensure(h, spec) ==
    IF h.running THEN h
    ELSE [ running |-> TRUE,
           minReplicas |-> Deref(spec.minReplicas, 2),
           maxReplicas |-> Deref(spec.maxReplicas, 10),
           reclassifyCh |-> FALSE, generationCh |-> FALSE,
           revision |-> None ]

Stop(h) == NoWorker

\* dropAndPush leaves a signal in the channel whether it was full, empty, or
\* emptied by the worker half way: only its last send matters.
DropAndPush(ch) == TRUE

SignalReclassify(h) ==
    IF h.running
    THEN [h EXCEPT !.reclassifyCh = DropAndPush(h.reclassifyCh)]
    ELSE h

\* Mutant: only the first revision is ever recorded.
ObserveFirstRevision(h, rev) ==
    IF ~h.running \/ h.revision # None THEN h
    ELSE [h EXCEPT !.revision = rev]

\* The first observation is recorded without a signal, later changes signal.
ObserveDeploymentRevision(h, rev) ==
    IF ~h.running \/ h.revision = rev THEN h
    ELSE IF h.revision = None THEN [h EXCEPT !.revision = rev]
    ELSE [h EXCEPT !.revision = rev,
                   !.generationCh = DropAndPush(h.generationCh)]
=============================================================================
