------------------------------ MODULE Explainer ------------------------------
(***************************************************************************)
(* From a replica-changing decision to its ScaleExplained event: the       *)
(* reconciler's ChannelNotifier, the channel of capacity one, and the      *)
(* ExplainWorker goroutine that all AgenticAutoscalers share.              *)
(*                                                                         *)
(* Decisions are numbered in the order in which the (single) reconcile     *)
(* loop takes them.  Prompt and prose are left out; what the language      *)
(* model answers is an outcome.                                            *)
(***************************************************************************)
EXTENDS Decision

CONSTANTS
    CRs,        \* AgenticAutoscalers
    CapInputs,  \* inputs of ApplyCapAndCooldown the reconciles meet
    MaxSent     \* bound: decisions to be explained

VARIABLES
    live,     \* AgenticAutoscalers that exist
    sent,     \* number of decisions so far
    notify,   \* the request Notify is busy with, or None
    drained,  \* Notify is past its first select
    ch,       \* the request in the channel, or None
    req,      \* the request the worker handles, or None
    step,     \* where the worker is
    taken,    \* number of the last request the worker received
    explained \* number of the last decision with an event on each object

notifyVars == <<sent, notify, drained>>
workerVars == <<req, step, taken, explained>>
vars == <<live, ch, notifyVars, workerVars>>

Reasons == {"scale_up", "scale_down", "step_capped_up", "step_capped_down"}
Requests == [ cr : CRs, id : Nat, reason : Reasons ]

ASSUME ExplainerAssumption ==
    /\ None \notin CRs
    /\ None \notin Requests
    /\ MaxSent \in Nat

-----------------------------------------------------------------------------
(* The reconciler. *)

\* A decision that changes replicas; others do not call Notify.
Decide(cr, in) ==
    /\ notify = None /\ sent < MaxSent /\ cr \in live
    /\ LET out == ApplyCapAndCooldown(in)
       IN  /\ out.target # in.current
           /\ notify' = [ cr |-> cr, id |-> sent + 1, reason |-> out.reason ]
    /\ sent' = sent + 1 /\ drained' = FALSE
    /\ UNCHANGED <<live, ch, workerVars>>

\* Mutant: a queued request is left where it is.
NotifyKeepsQueued ==
    /\ notify # None /\ ~drained
    /\ drained' = TRUE
    /\ UNCHANGED <<live, ch, sent, notify, workerVars>>

\* Notify's first select: drop what is queued.
NotifyDrain ==
    /\ notify # None /\ ~drained
    /\ ch' = None /\ drained' = TRUE
    /\ UNCHANGED <<live, sent, notify, workerVars>>

\* Notify's second select: send, or give up if the channel is full.
NotifySend ==
    /\ notify # None /\ drained
    /\ ch' = IF ch = None THEN notify ELSE ch
    /\ notify' = None /\ drained' = FALSE
    /\ UNCHANGED <<live, sent, workerVars>>

-----------------------------------------------------------------------------
(* ExplainWorker. *)

\* Mutant: the request stays in the channel.
ReceiveByPeeking ==
    /\ step = "wait" /\ ch # None
    /\ req' = ch /\ step' = "chat"
    /\ taken' = ch.id
    /\ UNCHANGED <<live, ch, notifyVars, explained>>

Receive ==
    /\ step = "wait" /\ ch # None
    /\ req' = ch /\ ch' = None /\ step' = "chat"
    /\ taken' = ch.id
    /\ UNCHANGED <<live, notifyVars, explained>>

\* Mutant: the failed request is kept.
ChatKeepsRequest ==
    /\ step = "chat"
    /\ step' \in {"emit", "wait", "backoff"}
    /\ UNCHANGED <<live, ch, notifyVars, req, taken, explained>>

\* The call to the model ends: with prose for an event, with nothing to say
\* (error, timeout, empty answer), or in a panic that is recovered.
Chat ==
    /\ step = "chat"
    /\ \/ step' = "emit" /\ UNCHANGED req
       \/ step' = "wait" /\ req' = None
       \/ step' = "backoff" /\ req' = None
    /\ UNCHANGED <<live, ch, notifyVars, taken, explained>>

\* emitEvent: an event on the object of that name, if it still exists.
EmitEvent ==
    /\ step = "emit"
    /\ explained' = IF req.cr \in live THEN [explained EXCEPT ![req.cr] = req.id]
                    ELSE explained
    /\ step' = "wait" /\ req' = None
    /\ UNCHANGED <<live, ch, notifyVars, taken>>

BackoffEnds ==
    /\ step = "backoff"
    /\ step' = "wait"
    /\ UNCHANGED <<live, ch, notifyVars, req, taken, explained>>

Worker == Receive \/ Chat \/ EmitEvent \/ BackoffEnds

DeleteCR(cr) ==
    /\ cr \in live
    /\ live' = live \ {cr}
    /\ UNCHANGED <<ch, notifyVars, workerVars>>

-----------------------------------------------------------------------------

Init ==
    /\ live = CRs
    /\ sent = 0 /\ notify = None /\ drained = FALSE /\ ch = None
    /\ req = None /\ step = "wait" /\ taken = 0
    /\ explained = [c \in CRs |-> 0]

Next ==
    \/ \E cr \in CRs, in \in CapInputs : Decide(cr, in)
    \/ NotifyDrain \/ NotifySend
    \/ Worker
    \/ \E cr \in CRs : DeleteCR(cr)

Spec == Init /\ [][Next]_vars

\* Notify never blocks, the worker's calls end (they carry a timeout).
Fairness == WF_vars(NotifyDrain \/ NotifySend) /\ WF_vars(Worker)

LiveSpec == Spec /\ Fairness
-----------------------------------------------------------------------------

\* Every variable has its type; the worker holds a request exactly while it
\* is working on one.
TypeOK ==
    /\ live \subseteq CRs
    /\ sent \in Nat /\ notify \in Optional(Requests) /\ drained \in BOOLEAN
    /\ ch \in Optional(Requests)
    /\ step \in {"wait", "chat", "emit", "backoff"}
    /\ req \in IF step \in {"chat", "emit"} THEN Requests ELSE {None}
    /\ taken \in Nat
    /\ explained \in [CRs -> Nat]

\* docs/design_v2.md:869, of the channel behind ChannelNotifier: "The
\* reconciler always wants the most recent scale decision to be the one
\* explained".  Once Notify has returned, that decision is in the channel or
\* with the worker, whatever the worker did between Notify's two selects.
LatestSurvives ==
    notify = None => taken = sent \/ (ch # None /\ ch.id = sent)

\* The events on an object explain its decisions in their order, each at
\* most once: none follows one for a later decision, although requests are
\* dropped, fail and wait behind a slow model.
ExplainedInOrder ==
    [][step = "emit" /\ step' = "wait" => req.id > explained[req.cr]]_vars

\* The most recent decision does reach the worker, however slow the model,
\* and whatever earlier requests ended in.
LatestReceived == <>[](taken = sent)

-----------------------------------------------------------------------------

\* What makes both inductive: numbers only grow along the way from
\* the worker over the channel to the reconciler.
OrderInv ==
    /\ taken <= sent
    /\ ch # None => taken < ch.id /\ ch.id <= sent
    /\ notify # None => /\ notify.id = sent /\ taken < sent
                        /\ drained => ch = None
                        /\ ch # None => ch.id < sent
    /\ \A c \in CRs : explained[c] <= taken
    /\ step \in {"chat", "emit"} =>
         req.id = taken /\ \A c \in CRs : explained[c] < taken
    /\ LatestSurvives
=============================================================================
