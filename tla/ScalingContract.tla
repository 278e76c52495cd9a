-------------------------- MODULE ScalingContract --------------------------
(***************************************************************************)
(* What the controller promises the owner of a Deployment, without its     *)
(* objects, caches and queue: a scale request is asked for only after the  *)
(* scaling has been cleared while not paused and once the cooldown of its  *)
(* direction has passed; at most one request is open; a restart loses no   *)
(* scale that was published; what is published never goes back.            *)
(* ReconcilerHistory shows that the reconciler implements this.            *)
(***************************************************************************)
EXTENDS Decision

VARIABLES
    clock,
    replicas,   \* the Deployment's count
    paused,     \* kill-switch, deletion or HPA conflict, as the caches show it
    last,       \* times of the last acknowledged scale up and scale down
    published,  \* status.lastScaleTime
    stage,      \* "idle", "cleared" or "sent"
    request     \* the request that is open, None unless sent

cvars == <<clock, replicas, paused, last, published, stage, request>>

Never == [up |-> None, down |-> None]

Request == [ up : BOOLEAN, to : Int, at : Time, cooldown : Nat ]

Latest(h, up) == IF up THEN h.up ELSE h.down

\* Of two times that may be unset, a is no earlier than b.
NotBefore(a, b) == b = None \/ (a # None /\ a >= b)

\* What a restart can recover of a scale at t from what was published.
Kept(t) ==
    IF t # None /\ NotBefore(published, TruncateToSecond(t))
    THEN TruncateToSecond(t) ELSE None

CInit ==
    /\ clock = 0 /\ replicas \in Nat /\ paused = FALSE
    /\ last = Never /\ published = None
    /\ stage = "idle" /\ request = None

Advance ==
    /\ clock' = clock + 1
    /\ UNCHANGED <<replicas, paused, last, published, stage, request>>

\* Somebody else scales.
ScaledByOthers ==
    /\ replicas' \in Nat
    /\ UNCHANGED <<clock, paused, last, published, stage, request>>

PauseOrResume ==
    /\ paused' \in BOOLEAN
    /\ UNCHANGED <<clock, replicas, last, published, stage, request>>

Clear ==
    /\ stage = "idle" /\ ~paused
    /\ stage' = "cleared"
    /\ UNCHANGED <<clock, replicas, paused, last, published, request>>

\* A negative count, which is refused, is not subject to the cooldown.
Ask ==
    /\ stage = "cleared" /\ stage' = "sent"
    /\ request' \in Request
    /\ request'.at = clock
    /\ request'.to >= 0 =>
         Elapsed(clock, Latest(last, request'.up), request'.cooldown)
    /\ UNCHANGED <<clock, replicas, paused, last, published>>

GiveUp ==
    /\ stage' = "idle" /\ request' = None
    /\ UNCHANGED <<clock, replicas, paused, last, published>>

\* The request takes effect; its answer may be lost.
Apply ==
    /\ stage = "sent" /\ request.to >= 0
    /\ replicas' = request.to
    /\ \/ last' = IF request.up THEN [last EXCEPT !.up = request.at]
                  ELSE [last EXCEPT !.down = request.at]
       \/ UNCHANGED last
    /\ stage' = "idle" /\ request' = None
    /\ UNCHANGED <<clock, paused, published>>

Publish ==
    /\ published' \in Optional(0 .. clock)
    /\ NotBefore(published', published)
    /\ UNCHANGED <<clock, replicas, paused, last, stage, request>>

\* The object is deleted, or found to be gone.
Forget ==
    /\ last' = Never /\ published' \in {published, None}
    /\ UNCHANGED <<clock, replicas, paused, stage, request>>

Restart ==
    /\ last' = [up |-> Kept(last.up), down |-> Kept(last.down)]
    /\ paused' \in BOOLEAN
    /\ stage' = "idle" /\ request' = None
    /\ UNCHANGED <<clock, replicas, published>>

CNext ==
    \/ Advance \/ ScaledByOthers \/ PauseOrResume \/ Clear \/ Ask \/ GiveUp
    \/ Apply \/ Publish \/ Forget \/ Restart

CSpec == CInit /\ [][CNext]_cvars
=============================================================================
