-------------------------- MODULE ReconcilerHistory --------------------------
(***************************************************************************)
(* The reconciler with history variables: what the controller has done,    *)
(* kept outside its own memory so that invariants can compare the two.     *)
(*   owed   the decision time of the last acknowledged scale, up and down, *)
(*          as far as the controller can still know it: a restart keeps    *)
(*          what had reached status.lastScaleTime, to the second           *)
(*   done   the same without that proviso (kept by DSpec only)             *)
(*   late   scale requests sent since the caches have shown a reason to    *)
(*          stand still                                                    *)
(* A deletion of the AgenticAutoscaler ends all obligations.               *)
(***************************************************************************)
EXTENDS Reconciler

VARIABLES done, owed, late

hvars == <<vars, done, owed, late>>

Nothing == [up |-> None, down |-> None]

Acknowledged == pc = "scale" /\ pc' = "status"
Sent == Acknowledged \/ (pc = "scale" /\ budget'["lost"] # budget["lost"])
Restarted == budget'["crash"] # budget["crash"]
Forgotten == \/ cr.exists /\ ~cr'.exists
             \/ pc = "idle" /\ ~crCache.exists /\ queued /\ ~queued'

Record(h) == IF plan.target > plan.current THEN [h EXCEPT !.up = plan.at]
             ELSE [h EXCEPT !.down = plan.at]

\* What of a scale at time t the status still tells after a restart.
Persisted(t) ==
    IF t # None /\ cr.status.lastScaleTime # None
                /\ cr.status.lastScaleTime >= TruncateToSecond(t)
    THEN TruncateToSecond(t) ELSE None

\* The caches show a reason not to scale.
Paused == \/ ~crCache.exists \/ crCache.killSwitch \/ crCache.deleting
          \/ hpaCache # {}

HInit == Init /\ done = Nothing /\ owed = Nothing /\ late = 0

Remember ==
    /\ owed' = IF Forgotten THEN Nothing
               ELSE IF Acknowledged THEN Record(owed)
               ELSE IF Restarted
               THEN [up |-> Persisted(owed.up), down |-> Persisted(owed.down)]
               ELSE owed
    /\ late' = IF ~Paused' THEN 0 ELSE IF Sent THEN late + 1 ELSE late

HNext == Next /\ Remember /\ UNCHANGED done

HSpec == HInit /\ [][HNext]_hvars

\* The same, with every acknowledged scale kept in done, restarts or not.
DNext ==
    /\ Next /\ Remember
    /\ done' = IF Forgotten THEN Nothing
               ELSE IF Acknowledged THEN Record(done) ELSE done

DSpec == HInit /\ [][DNext]_hvars

-----------------------------------------------------------------------------

\* The time of the last scale in the direction the plan moves.
LastOf(h) == IF plan.target > plan.current THEN h.up ELSE h.down

PlanCooldown ==
    (IF plan.target > plan.current THEN plan.cooldownUp ELSE plan.cooldownDown)
        * TicksPerSecond

\* Cooldown: a scale request (for a count the API server accepts) is only
\* sent once the effective cooldown has passed since the last acknowledged
\* scale in the same direction, counted across crashes for every scale whose
\* status write had landed, and with its truncation to whole seconds.
CooldownHonoured ==
    pc = "scale" /\ plan.target >= 0 => Elapsed(plan.at, LastOf(owed), PlanCooldown)

\* Kill-switch, deletion and HPA conflict: once the caches show one of them,
\* at most the one reconcile that had already passed its pre-checks still
\* reaches the Deployment, however long the pause lasts.
AtMostOneLatePatch == late <= 1


\* Concurrent writers of status: a status write by the reconciler never
\* takes back a classification that was stored while it was running.
ClassificationKept ==
    [][ (pc = "phase" \/ pc = "status") /\ pc' = "idle" =>
          cr'.status.classifiedParams = cr.status.classifiedParams ]_hvars

\* The steady-state gate: an observation of rps per pod is only taken with
\* the replica count the Deployment really has, although it is read from a
\* cache that may lag behind the controller's own scale request, and although
\* a restart forgets when that was.
ObservationsUseLiveReplicas ==
    [][ state'.initialized /\ state'.observations # state.observations =>
          deployCache.replicas = deployment.replicas ]_hvars

\* The contract's view of a state: cleared once the pre-checks have passed,
\* sent while a scale request is open.
StageOf == IF pc = "observe" THEN "cleared" ELSE IF pc = "scale" THEN "sent" ELSE "idle"

RequestOf ==
    IF pc # "scale" THEN None
    ELSE [ up |-> plan.target > plan.current, to |-> plan.target, at |-> plan.at,
           cooldown |-> PlanCooldown ]

Contract == INSTANCE ScalingContract WITH
    clock <- now, replicas <- deployment.replicas, paused <- Paused, last <- owed,
    published <- cr.status.lastScaleTime, stage <- StageOf, request <- RequestOf

\* The reconciler, with its caches, refused and lost writes, concurrent
\* writers and restarts, keeps the contract with the Deployment's owner.
KeepsContract == Contract!CSpec

-----------------------------------------------------------------------------
(* What makes these properties inductive; used by HistoryProofs and        *)
(* RefinementProofs.                                                       *)

\* The controller's clock a is no earlier than the obligation b.
Covers(a, b) == b = None \/ (a # None /\ a >= b)

CoversOwed(up, down) == Covers(up, owed.up) /\ Covers(down, owed.down)

\* An object whose lastScaleTime, put into both clocks, covers what is owed.
Remembers(obj) == CoversOwed(obj.status.lastScaleTime, obj.status.lastScaleTime)

\* The clocks in memory cover what is owed; before they are seeded, every
\* copy of the object that they may be seeded from does, or that may be
\* written back over the live one.
CooldownInv ==
    /\ owed \in [up : Optional(Time), down : Optional(Time)]
    /\ ~cr.exists => cr.status.lastScaleTime = None
    /\ state.initialized => CoversOwed(state.lastScaleUp, state.lastScaleDown)
    /\ ~state.initialized =>
         /\ Remembers(cr) /\ Remembers(crCache)
         /\ pc \in {"phase", "observe"} => Remembers(aas)
    /\ pc \in {"scale", "status"} => state.initialized
    /\ pc = "scale" /\ plan.target >= 0 =>
         Elapsed(plan.at, LastOf([up |-> state.lastScaleUp, down |-> state.lastScaleDown]),
                 PlanCooldown)

\* Only a reconcile that began before the pause can still send a request.
LateInv ==
    /\ late \in Nat
    /\ ~Paused => late = 0
    /\ late + (IF pc \in {"observe", "scale"} THEN 1 ELSE 0) <= 1

\* A fresh copy has the live object's classification.
FreshInv ==
    /\ crFresh => crCache = cr
    /\ pc # "idle" /\ aasFresh =>
         aas.status.classifiedParams = cr.status.classifiedParams

\* The scale time of obj, if any, had been reached, to the second, by time t.
ReachedBy(t, obj) ==
    \/ obj.status.lastScaleTime = None
    \/ obj.status.lastScaleTime <= TruncateToSecond(t)

\* No copy of the object is ahead of the clock, nor the copy in hand of the
\* plan made for it; a fresh copy has the live scale time.
PublishInv ==
    /\ ReachedBy(now, cr) /\ ReachedBy(now, crCache) /\ ReachedBy(now, aas)
    /\ pc \in {"scale", "status"} => plan.at <= now /\ ReachedBy(plan.at, aas)
    /\ pc # "idle" /\ aasFresh =>
         aas.status.lastScaleTime = cr.status.lastScaleTime

-----------------------------------------------------------------------------
(* When the steady-state gate is enough. *)

\* The delays of the environment fit into the gate's two intervals, and the
\* controller is the only one to scale the Deployment, hears of each of its
\* scales and keeps its object.
GateBounds ==
    /\ InformerLag \in Nat /\ RequestTime \in Nat
    /\ InformerLag + RequestTime < 2 * Interval
    /\ \A b \in Budgets : b["human"] = 0 /\ b["lost"] = 0 /\ b["delete"] = 0

\* The object is there to stay, and nobody else scales the Deployment.
UndisturbedInv ==
    /\ cr.exists /\ ~cr.deleting /\ crCache.exists
    /\ budget["human"] = 0 /\ budget["lost"] = 0 /\ budget["delete"] = 0

LastScale == LaterOf(state.lastScaleUp, state.lastScaleDown)

\* While the cached replica count is behind, the last scale is no longer ago
\* than that cache may be behind plus the time a request may take.
StaleInv ==
    /\ deployLag <= InformerLag
    /\ pc \in {"scale", "status"} => plan.at <= now /\ now - plan.at <= RequestTime
    /\ deployCache.replicas # deployment.replicas =>
         /\ state.initialized /\ LastScale # None
         /\ now - LastScale <= deployLag + RequestTime

GateInv == UndisturbedInv /\ StaleInv
==============================================================================
