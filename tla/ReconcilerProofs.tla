-------------------------- MODULE ReconcilerProofs --------------------------
(***************************************************************************)
(* Theorems about the reconciler for every value of the constants: type    *)
(* correctness, and what holds over the life of an object -- what follows  *)
(* a deletion, and what a plan may contain after any history of edits,     *)
(* restarts and re-creations.                                              *)
(***************************************************************************)
EXTENDS ReconcilerHistory, DecisionProofs

USE NumbersAssumption, NoneAssumption, RevisionAssumption, InputsAssumption

-----------------------------------------------------------------------------
(* Types of the operators the actions are built from. *)

LEMMA EmptyStatusType == EmptyStatus \in StatusType
BY DEF EmptyStatus, StatusType, Phases, Optional, Int32, MinInt32

\* What is stored is inside the schema, with the defaults filled in.
LEMMA AdmittedType == Admitted(Specs) \subseteq SpecType
<1> SUFFICES ASSUME NEW s \in SpecType PROVE Defaulted(s) \in SpecType
  BY DEF Admitted
<1> DEFINE lo == Deref(s.minReplicas, 2)
           hi == Deref(s.maxReplicas, 10)
           rlo == Deref(s.rpsPerPodMin, 50)
           rhi == Deref(s.rpsPerPodMax, 500)
<1>1. lo \in Optional(Pos32) /\ hi \in Optional(Pos32)
  BY DEF SpecType, Deref, Optional, Pos32
<1>2. rlo \in Optional(Pos32) /\ rhi \in Optional(Pos32)
  BY DEF SpecType, Deref, Optional, Pos32
<1>3. Defaulted(s) = [s EXCEPT !.minReplicas = lo, !.maxReplicas = hi,
                               !.rpsPerPodMin = rlo, !.rpsPerPodMax = rhi]
  BY DEF Defaulted
<1> HIDE DEF lo, hi, rlo, rhi
<1> QED  BY <1>1, <1>2, <1>3 DEF SpecType

LEMMA NewObjectType == \A s \in Admitted(Specs) : NewObject(s) \in ObjectType
BY EmptyStatusType, AdmittedType DEF NewObject, ObjectType

LEMMA AbsentType == Absent \in ObjectType
<1> DEFINE any == CHOOSE s \in Admitted(Specs) : TRUE
<1>1. \E s \in Admitted(Specs) : TRUE
  OBVIOUS
<1>2. any \in Admitted(Specs)
  BY <1>1, Zenon
<1>3. Absent = [NewObject(any) EXCEPT !.exists = FALSE]
  BY DEF Absent
<1> HIDE DEF any
<1>4. NewObject(any) \in ObjectType
  BY <1>2, NewObjectType
<1> QED  BY <1>3, <1>4 DEF ObjectType

LEMMA FreshStateType == FreshState \in StateType
BY DEF FreshState, StateType, Optional

LEMMA NoWorkerType == NoWorker \in Handle
BY DEF NoWorker, Handle, Optional

LEMMA EffectiveType ==
    ASSUME NEW s \in SpecType, NEW c \in Optional(ClassifiedParams)
    PROVE  LET eff == ResolveEffectiveParams(s, c, Defaults)
           IN  /\ eff.cooldownUp \in Nat32
               /\ eff.cooldownDown \in Nat32
               /\ eff.maxStep \in Pos32
<1>1. /\ s.scaleUpCooldown \in Optional(Nat32)
      /\ s.scaleDownCooldown \in Optional(Nat32)
      /\ s.maxStepSize \in Optional(Pos32)
  BY DEF SpecType
<1>2. /\ Defaults.scaleUpCooldown \in Nat32
      /\ Defaults.scaleDownCooldown \in Nat32
      /\ Defaults.maxStepSize \in Pos32
  BY DEF DefaultsType
<1>3. /\ ClassifiedField(c, "scaleUpCooldown") \in Optional(Nat32)
      /\ ClassifiedField(c, "scaleDownCooldown") \in Optional(Nat32)
      /\ ClassifiedField(c, "maxStepSize") \in Optional(Pos32)
  <2>1. CASE c = None
    BY <2>1 DEF ClassifiedField, Optional
  <2>2. CASE c # None
    <3>1. c \in ParamsType
      BY <2>2 DEF Optional
    <3> QED  BY <2>2, <3>1 DEF ClassifiedField, Optional, ParamsType
  <2> QED  BY <2>1, <2>2
<1> QED  BY <1>1, <1>2, <1>3 DEF ResolveEffectiveParams, Coalesce32, Optional

LEMMA BoundsType ==
    ASSUME NEW s \in SpecType
    PROVE  /\ Deref(s.minReplicas, 2) \in Pos32
           /\ Deref(s.maxReplicas, 10) \in Pos32
           /\ Deref(s.rpsPerPodMin, 50) \in Int
           /\ Deref(s.rpsPerPodMax, 500) \in Int
BY DEF SpecType, Deref, Optional, Pos32

LEMMA PushType ==
    ASSUME NEW buf \in Seq(Nat), NEW v \in Nat
    PROVE  Push(buf, v) \in Seq(Nat)
<1>1. CASE Len(buf) = RingCapacity
  <2>1. buf # <<>>
    BY <1>1
  <2>2. Tail(buf) \in Seq(Nat)
    BY <2>1
  <2> QED  BY <1>1, <2>2 DEF Push
<1>2. CASE Len(buf) # RingCapacity
  BY <1>2 DEF Push
<1> QED  BY <1>1, <1>2

LEMMA SeedNType ==
    ASSUME NEW v \in Nat, NEW n \in Nat
    PROVE  SeedN(v, n) \in Seq(Nat)
<1> DEFINE k == IF n > RingCapacity THEN RingCapacity ELSE n
<1>1. k \in Nat
  OBVIOUS
<1>2. SeedN(v, n) = [i \in 1 .. k |-> v]
  BY DEF SeedN
<1> HIDE DEF k
<1>3. [i \in 1 .. k |-> v] \in Seq(Nat)
  BY <1>1
<1> QED  BY <1>2, <1>3

LEMMA RecoveredType ==
    ASSUME NEW obj \in ObjectType, state \in StateType
    PROVE  Recovered(obj) \in StateType /\ Recovered(obj).initialized
<1> DEFINE lo == Deref(obj.spec.rpsPerPodMin, 50)
           hi == Deref(obj.spec.rpsPerPodMax, 500)
           seed == StatusSeed(obj.status.rpsPerPodCurrent,
                              obj.status.lastScaleTime, lo, hi)
<1>1. CASE state.initialized
  BY <1>1 DEF Recovered
<1>2. CASE ~state.initialized
  <2>1. /\ obj.spec \in SpecType /\ obj.status \in StatusType
        /\ obj.status.rpsPerPodCurrent \in Int
        /\ obj.status.lastScaleTime \in Optional(Time)
    BY DEF ObjectType, StatusType
  <2>2. lo \in Int /\ hi \in Int
    BY <2>1, BoundsType
  <2> HIDE DEF lo, hi
  <2>3. /\ seed.rpsPerPodCurrent \in Int
        /\ seed.lastScaleTime \in Optional(Time)
    BY <2>1 DEF StatusSeed
  <2>4. seed.midpoint \in Int
    <3>1. Wrap32(lo + hi) \in Int
      BY <2>2 DEF Wrap32, MinInt32
    <3> QED  BY <3>1 DEF StatusSeed
  <2>5. Recovered(obj) = InitializeFromStatus(state, seed)
    BY <1>2 DEF Recovered, lo, hi
  <2> HIDE DEF seed
  <2>6. ASSUME seed.rpsPerPodCurrent > 0
        PROVE  SeedN(seed.rpsPerPodCurrent, RestartSeedCopies) \in Seq(Nat)
    <3>1. seed.rpsPerPodCurrent \in Nat /\ RestartSeedCopies \in Nat
      BY <2>3, <2>6
    <3> QED  BY <3>1, SeedNType
  <2>7. InitializeFromStatus(state, seed) \in StateType
    BY <2>3, <2>4, <2>6 DEF InitializeFromStatus, StateType
  <2>8. InitializeFromStatus(state, seed).initialized
    BY DEF InitializeFromStatus
  <2> QED  BY <2>5, <2>7, <2>8
<1> QED  BY <1>1, <1>2 DEF StateType

LEMMA ObserveType ==
    ASSUME NEW s \in StateType, NEW rps \in Nat, NEW n \in Int32,
           NEW t \in Time, NEW iv \in Nat, NEW fl \in Nat
    PROVE  /\ Observe(s, rps, n, t, iv, fl) \in StateType
           /\ Observe(s, rps, n, t, iv, fl).initialized = s.initialized
           /\ Observe(s, rps, n, t, iv, fl).lastScaleUp = s.lastScaleUp
           /\ Observe(s, rps, n, t, iv, fl).lastScaleDown = s.lastScaleDown
<1> DEFINE G == ShouldUpdateRpsPerPodWithFloor(rps, n,
                    LaterOf(s.lastScaleUp, s.lastScaleDown), t, iv, fl)
           obs == Push(s.observations, rps \div n)
<1>1. CASE G
  <2>1. n \in Nat \ {0}
    BY <1>1 DEF ShouldUpdateRpsPerPodWithFloor, Int32
  <2>2. rps \div n \in Nat
    BY <2>1
  <2>3. obs \in Seq(Nat)
    BY <2>2, PushType DEF StateType
  <2>4. Median(obs) \in Int
    <3> HIDE DEF obs
    <3> QED  BY <2>3, MedianInRange
  <2>5. Observe(s, rps, n, t, iv, fl) =
          [s EXCEPT !.observations = obs, !.rpsPerPod = Median(obs)]
    BY <1>1 DEF Observe
  <2> HIDE DEF obs
  <2> QED  BY <2>3, <2>4, <2>5 DEF StateType
<1>2. CASE ~G
  BY <1>2 DEF Observe
<1> QED  BY <1>1, <1>2

LEMMA PlanForType ==
    ASSUME NEW obj \in ObjectType, NEW s \in StateType, NEW current \in Nat32,
           NEW predicted \in Nat, now \in Time
    PROVE  PlanFor(obj, s, current, predicted) \in PlanType
<1> DEFINE eff == ResolveEffectiveParams(obj.spec, obj.status.classifiedParams, Defaults)
           rpp == ClampRpsPerPod(s.rpsPerPod, Deref(obj.spec.rpsPerPodMin, 50),
                                              Deref(obj.spec.rpsPerPodMax, 500))
           unb == ComputeUnboundedRecommended(predicted, rpp)
           clamped == ClampRecommended(unb,
                Deref(obj.spec.minReplicas, 2), Deref(obj.spec.maxReplicas, 10))
           in == [ recommended |-> clamped.replicas, current |-> current,
                   maxStep |-> eff.maxStep, cooldownUp |-> eff.cooldownUp,
                   cooldownDown |-> eff.cooldownDown,
                   lastScaleUp |-> s.lastScaleUp, lastScaleDown |-> s.lastScaleDown,
                   now |-> now, bindingReason |-> clamped.reason ]
           out == ApplyCapAndCooldown(in)
<1>1. obj.spec \in SpecType /\ obj.status.classifiedParams \in Optional(ClassifiedParams)
  BY DEF ObjectType, StatusType
<1>2. /\ eff.cooldownUp \in Nat32 /\ eff.cooldownDown \in Nat32
      /\ eff.maxStep \in Pos32
  BY <1>1, EffectiveType
<1>3. rpp \in Int
  <2>1. /\ Deref(obj.spec.rpsPerPodMin, 50) \in Int
        /\ Deref(obj.spec.rpsPerPodMax, 500) \in Int
        /\ s.rpsPerPod \in Int
    BY <1>1, BoundsType DEF StateType
  <2> QED  BY <2>1 DEF ClampRpsPerPod
<1> HIDE DEF eff, rpp
<1>4. rpp \div Scale \in Int
  BY <1>3
<1>p. ToInt32(predicted \div Scale) \in Int32
  <2>1. predicted \div Scale \in Nat
    OBVIOUS
  <2> QED  BY <2>1 DEF ToInt32, Int32, MinInt32
<1>5. unb \in Int32
  BY <1>3, UnboundedType
<1> HIDE DEF unb
<1>6. clamped.replicas \in Int32
  <2>1. /\ Deref(obj.spec.minReplicas, 2) \in Int32
        /\ Deref(obj.spec.maxReplicas, 10) \in Int32
    BY <1>1, BoundsType DEF Pos32, Int32, MinInt32
  <2> QED  BY <1>5, <2>1, ClampRecommendedType
<1> HIDE DEF clamped
<1>7. out.target \in Int32
  <2>1. CapInput(in)
    BY <1>2, <1>6 DEF CapInput, Pos32, Nat32, Int32, MinInt32
  <2> QED  BY <2>1, CapType
<1> HIDE DEF out
<1>8. PlanFor(obj, s, current, predicted) =
        [ current |-> current, predicted |-> ToInt32(predicted \div Scale),
          unbounded |-> unb, recommended |-> clamped.replicas,
          target |-> out.target, rpsPerPod |-> rpp \div Scale, at |-> now,
          cooldownUp |-> eff.cooldownUp, cooldownDown |-> eff.cooldownDown,
          maxStep |-> eff.maxStep ]
  BY DEF PlanFor, eff, rpp, unb, clamped, out
<1> QED  BY <1>2, <1>4, <1>5, <1>6, <1>7, <1>8, <1>p DEF PlanType

\* A plan that moves to a count the API server accepts was made after the
\* cooldown of its direction.  (Where current + maxStep overflows, the count
\* is negative.)
LEMMA PlanHonoursCooldown ==
    ASSUME NEW obj \in ObjectType, NEW s \in StateType, NEW current \in Nat32,
           NEW predicted \in Nat, now \in Time,
           NEW p, p = PlanFor(obj, s, current, predicted),
           p.target # p.current, p.target >= 0
    PROVE  Elapsed(p.at,
             IF p.target > p.current THEN s.lastScaleUp ELSE s.lastScaleDown,
             (IF p.target > p.current THEN p.cooldownUp ELSE p.cooldownDown)
                * TicksPerSecond)
<1> DEFINE eff == ResolveEffectiveParams(obj.spec, obj.status.classifiedParams, Defaults)
           rpp == ClampRpsPerPod(s.rpsPerPod, Deref(obj.spec.rpsPerPodMin, 50),
                                              Deref(obj.spec.rpsPerPodMax, 500))
           clamped == ClampRecommended(ComputeUnboundedRecommended(predicted, rpp),
                Deref(obj.spec.minReplicas, 2), Deref(obj.spec.maxReplicas, 10))
           in == [ recommended |-> clamped.replicas, current |-> current,
                   maxStep |-> eff.maxStep, cooldownUp |-> eff.cooldownUp,
                   cooldownDown |-> eff.cooldownDown,
                   lastScaleUp |-> s.lastScaleUp, lastScaleDown |-> s.lastScaleDown,
                   now |-> now, bindingReason |-> clamped.reason ]
<1>1. /\ p.target = ApplyCapAndCooldown(in).target
      /\ p.current = current /\ p.recommended = in.recommended /\ p.at = now
      /\ p.cooldownUp = in.cooldownUp /\ p.cooldownDown = in.cooldownDown
      /\ p.maxStep = in.maxStep
  BY DEF PlanFor
<1>2. /\ in.current = current /\ in.now = now
      /\ in.lastScaleUp = s.lastScaleUp /\ in.lastScaleDown = s.lastScaleDown
  OBVIOUS
<1>3. p \in PlanType
  BY PlanForType
<1> HIDE DEF in
<1>4. /\ in.recommended \in Int32 /\ in.maxStep \in Pos32
      /\ in.current \in Nat32 /\ p.target \in Int32
  BY <1>1, <1>2, <1>3 DEF PlanType
<1>5. CASE in.recommended > in.current
  <2>1. Elapsed(in.now, in.lastScaleUp, in.cooldownUp * TicksPerSecond)
    BY <1>1, <1>2, <1>5 DEF ApplyCapAndCooldown, MoveUp
  <2>2. p.target = Wrap32(in.current + in.maxStep) \/ p.target = in.recommended
    BY <1>1, <1>5, <2>1 DEF ApplyCapAndCooldown, MoveUp
  <2>3. p.target > p.current
    BY <1>1, <1>2, <1>4, <1>5, <2>2 DEF Wrap32, Int32, MinInt32, Nat32, Pos32
  <2> QED  BY <1>1, <1>2, <2>1, <2>3
<1>6. CASE in.recommended < in.current
  <2>0. ~(in.recommended > in.current)
    BY <1>4, <1>6 DEF Int32, MinInt32, Nat32
  <2>1. Elapsed(in.now, in.lastScaleDown, in.cooldownDown * TicksPerSecond)
    BY <1>1, <1>2, <1>6, <2>0 DEF ApplyCapAndCooldown, MoveDown
  <2>2. p.target = Wrap32(in.current - in.maxStep) \/ p.target = in.recommended
    BY <1>1, <1>6, <2>0, <2>1 DEF ApplyCapAndCooldown, MoveDown
  <2>3. ~(p.target > p.current)
    BY <1>1, <1>2, <1>4, <1>6, <2>2 DEF Wrap32, Int32, MinInt32, Nat32, Pos32
  <2> QED  BY <1>1, <1>2, <2>1, <2>3
<1>7. CASE in.recommended = in.current
  BY <1>1, <1>2, <1>4, <1>7 DEF ApplyCapAndCooldown, Nat32
<1> QED  BY <1>4, <1>5, <1>6, <1>7 DEF Int32, Nat32, MinInt32

-----------------------------------------------------------------------------
(* Type correctness. *)

LEMMA InitType == Init => TypeOK
<1> SUFFICES ASSUME Init PROVE TypeOK
  OBVIOUS
<1>1. cr \in ObjectType
  BY NewObjectType DEF Init
<1>2. deployment \in DeploymentType
  BY DEF Init, DeploymentType, FirstRevision
<1> QED  BY <1>1, <1>2, AbsentType, FreshStateType, NoWorkerType
         DEF Init, TypeOK, Time

\* Ensure leaves a running worker, signalled or not.
LEMMA EnsureType ==
    ASSUME handle \in Handle, crCache \in ObjectType, EnsureWorker
    PROVE  handle' \in Handle /\ handle'.running = TRUE
<1> DEFINE h == Ensure(handle, crCache.spec)
<1>1. h \in Handle
  <2>1. crCache.spec \in SpecType
    BY DEF ObjectType
  <2>2. /\ Deref(crCache.spec.minReplicas, 2) \in Optional(Int32)
        /\ Deref(crCache.spec.maxReplicas, 10) \in Optional(Int32)
    BY <2>1, BoundsType DEF Pos32, Int32, MinInt32, Optional
  <2> QED  BY <2>2 DEF Ensure, Handle, Optional
<1>r. h.running = TRUE
  BY DEF Ensure, Handle
<1>2. handle' = IF crCache.reclassify THEN SignalReclassify(h) ELSE h
  BY DEF EnsureWorker
<1> HIDE DEF h
<1> QED  BY <1>1, <1>2, <1>r DEF SignalReclassify, DropAndPush, Handle

LEMMA StoreType ==
    ASSUME NEW obj \in ObjectType, Store(obj),
           crCache \in ObjectType, crFresh \in BOOLEAN
    PROVE  cr' \in ObjectType /\ crCache' \in ObjectType /\ crFresh' \in BOOLEAN
BY DEF Store

LEMMA SpendType ==
    ASSUME NEW e \in Events, Spend(e), budget \in [Events -> Nat]
    PROVE  budget' \in [Events -> Nat]
BY DEF Spend

LEMMA ReturnType ==
    ASSUME NEW r \in BOOLEAN, Return(r), queued \in BOOLEAN
    PROVE  /\ pc' = "idle" /\ plan' = None /\ queued' \in BOOLEAN
           /\ aas' \in ObjectType /\ aasFresh' \in BOOLEAN
BY AbsentType DEF Return

\* Reconcile keeps the types: one step per action.
LEMMA ReconcileType == TypeOK /\ Reconcile => TypeOK'
<1> SUFFICES ASSUME TypeOK, Reconcile PROVE TypeOK'
  OBVIOUS
<1>1. CASE BeginNotFound
  BY <1>1, FreshStateType, NoWorkerType
  DEF BeginNotFound, TypeOK, crVars, hpaVars, deployVars, runVars, Stop
<1>2. CASE Begin
  <2>1. handle' \in Handle
    BY <1>2, EnsureType DEF Begin, TypeOK
  <2>2. UNCHANGED <<now, crVars, hpaVars, deployVars, state, budget>> /\ pc = "idle"
    BY <1>2 DEF Begin
  <2>3. ASSUME NEW label \in {"phase", "observe"}, NEW st \in StatusType,
               Start(label, st), queued' = FALSE
        PROVE  TypeOK'
    <3>1. [crCache EXCEPT !.status = st] \in ObjectType
      BY DEF TypeOK, ObjectType
    <3> QED  BY <2>1, <2>2, <2>3, <3>1
             DEF Start, TypeOK, crVars, hpaVars, deployVars
  <2>4. ASSUME queued' \in BOOLEAN, UNCHANGED runVars
        PROVE  TypeOK'
    BY <2>1, <2>2, <2>4 DEF TypeOK, crVars, hpaVars, deployVars, runVars
  <2>5. crCache.status \in StatusType
    BY DEF TypeOK, ObjectType
  <2>6. CASE KillSwitched
    <3>1. [crCache.status EXCEPT !.phase = "Disabled"] \in StatusType
      BY <2>5 DEF StatusType, Phases
    <3> QED  BY <2>3, <2>4, <2>6, <3>1 DEF KillSwitched
  <2>7. CASE BeingDeleted
    BY <2>4, <2>7 DEF BeingDeleted
  <2>8. CASE Conflicting
    <3>1. PICK hpa \in hpaCache :
             IF crCache.status.phase = "Conflict" /\ crCache.status.conflictReason = hpa
             THEN queued' = TRUE /\ UNCHANGED runVars
             ELSE /\ queued' = FALSE
                  /\ Start("phase", [crCache.status EXCEPT !.phase = "Conflict",
                                                           !.conflictReason = hpa])
      BY <2>8 DEF Conflicting
    <3>2. [crCache.status EXCEPT !.phase = "Conflict", !.conflictReason = hpa]
             \in StatusType
      BY <2>5 DEF StatusType, Phases, Optional, TypeOK
    <3> QED  BY <2>3, <2>4, <3>1, <3>2
  <2>9. CASE Proceed
    BY <2>3, <2>5, <2>9 DEF Proceed
  <2> QED  BY <1>2, <2>6, <2>7, <2>8, <2>9 DEF Begin
<1>3. CASE ListHPAsFailed
  <2>1. handle' \in Handle
    BY <1>3, EnsureType DEF ListHPAsFailed, TypeOK
  <2>2. budget' \in [Events -> Nat]
    BY <1>3, SpendType DEF ListHPAsFailed, TypeOK, Events
  <2> QED  BY <1>3, <2>1, <2>2
           DEF ListHPAsFailed, TypeOK, crVars, hpaVars, deployVars, runVars
<1>4. CASE UpdatePhase
  <2>1. [cr EXCEPT !.status = aas.status] \in ObjectType
    BY DEF TypeOK, ObjectType
  <2>2. cr' \in ObjectType /\ crCache' \in ObjectType /\ crFresh' \in BOOLEAN
    BY <1>4, <2>1, StoreType DEF UpdatePhase, TypeOK, crVars
  <2> QED  BY <1>4, <2>2, ReturnType
           DEF UpdatePhase, TypeOK, hpaVars, deployVars
<1>5. CASE InputUnavailable
  BY <1>5, SpendType, ReturnType
  DEF InputUnavailable, TypeOK, Events, crVars, hpaVars, deployVars
<1>6. ASSUME NEW rps \in CurrentRates, NEW predicted \in Forecasts,
             Decide(rps, predicted)
      PROVE  TypeOK'
  <2>1. state' \in StateType
    <3>1. Recovered(aas) \in StateType
      BY RecoveredType DEF TypeOK
    <3>2. rps \in Nat /\ deployCache.replicas \in Int32 /\ now \in Time
      BY DEF TypeOK, DeploymentType, Nat32, Int32, MinInt32
    <3> QED  BY <1>6, <3>1, <3>2, ObserveType DEF Decide
  <2>2. plan' \in PlanType
    <3>1. predicted \in Nat /\ deployCache.replicas \in Nat32
          /\ now \in Time /\ aas \in ObjectType
      BY DEF TypeOK, DeploymentType
    <3> QED  BY <1>6, <2>1, <3>1, PlanForType DEF Decide
  <2>3. handle' \in Handle
    <3>1. deployCache.revision \in Revision
      BY DEF TypeOK, DeploymentType
    <3> QED  BY <1>6, <3>1
             DEF Decide, TypeOK, ObserveDeploymentRevision, DropAndPush, Handle, Optional
  <2>4. pc' \in {"scale", "status"}
    BY <1>6 DEF Decide
  <2> QED  BY <1>6, <2>1, <2>2, <2>3, <2>4
           DEF Decide, TypeOK, crVars, hpaVars, deployVars
<1>7. CASE ScaleAccepted
  <2>1. plan \in PlanType /\ plan.target \in Nat32 /\ plan.at \in Time
    BY <1>7 DEF ScaleAccepted, TypeOK, PlanType, Int32, Nat32
  <2>2. deployment' \in DeploymentType
    BY <1>7, <2>1 DEF ScaleAccepted, ApplyScale, TypeOK, DeploymentType
  <2>3. state' \in StateType
    BY <1>7, <2>1 DEF ScaleAccepted, StampScale, TypeOK, StateType, Optional
  <2> QED  BY <1>7, <2>1, <2>2, <2>3 DEF ScaleAccepted, TypeOK, crVars, hpaVars
<1>8. CASE ScaleFailed
  <2>1. budget' \in [Events -> Nat]
    BY <1>8, SpendType DEF ScaleFailed, TypeOK, Events
  <2> QED  BY <1>8, <2>1, ReturnType
           DEF ScaleFailed, TypeOK, crVars, hpaVars, deployVars
<1>9. CASE ScaleUnanswered
  <2>1. plan \in PlanType /\ plan.target \in Nat32
    BY <1>9 DEF ScaleUnanswered, TypeOK, PlanType, Int32, Nat32
  <2>2. deployment' \in DeploymentType
    BY <1>9, <2>1 DEF ScaleUnanswered, ApplyScale, TypeOK, DeploymentType
  <2>3. budget' \in [Events -> Nat]
    BY <1>9, SpendType DEF ScaleUnanswered, TypeOK, Events
  <2> QED  BY <1>9, <2>2, <2>3, ReturnType
           DEF ScaleUnanswered, TypeOK, crVars, hpaVars
<1>10. CASE UpdateStatus
  <2>1. plan \in PlanType
    BY <1>10 DEF UpdateStatus, TypeOK
  <2>2. TruncateToSecond(plan.at) \in Time
    <3>1. plan.at \in Nat
      BY <2>1 DEF PlanType, Time
    <3> QED  BY <3>1 DEF TruncateToSecond, Time
  <2>3. NewStatus \in StatusType
    <3>1. /\ aas.status.lastScaleTime \in Optional(Time)
          /\ aas.status.classifiedParams \in Optional(ClassifiedParams)
      BY DEF TypeOK, ObjectType, StatusType
    <3> QED  BY <2>1, <2>2, <3>1
             DEF NewStatus, StatusWith, StatusType, PlanType, Phases, Optional
  <2>4. [cr EXCEPT !.status = NewStatus] \in ObjectType
    BY <2>3 DEF TypeOK, ObjectType
  <2>5. cr' \in ObjectType /\ crCache' \in ObjectType /\ crFresh' \in BOOLEAN
    BY <1>10, <2>4, StoreType DEF UpdateStatus, TypeOK, crVars
  <2> QED  BY <1>10, <2>5, ReturnType
           DEF UpdateStatus, TypeOK, hpaVars, deployVars
<1>11. CASE StatusWriteFailed
  BY <1>11, SpendType, ReturnType
  DEF StatusWriteFailed, TypeOK, Events, crVars, hpaVars, deployVars
<1> QED  BY <1>1, <1>2, <1>3, <1>4, <1>5, <1>6, <1>7, <1>8, <1>9, <1>10, <1>11
         DEF Reconcile

\* Informers, clock and crash keep the types.
LEMMA SystemType ==
    TypeOK /\ (SyncCR \/ SyncDeployment \/ SyncHPA \/ Tick \/ Crash) => TypeOK'
<1> SUFFICES ASSUME TypeOK, SyncCR \/ SyncDeployment \/ SyncHPA \/ Tick \/ Crash
             PROVE  TypeOK'
  OBVIOUS
<1>1. CASE SyncCR
  BY <1>1 DEF SyncCR, TypeOK, hpaVars, deployVars, runVars
<1>2. CASE SyncDeployment
  BY <1>2 DEF SyncDeployment, TypeOK, crVars, hpaVars, runVars
<1>3. CASE SyncHPA
  BY <1>3 DEF SyncHPA, TypeOK, crVars, deployVars, runVars
<1>4. CASE Tick
  BY <1>4 DEF Tick, TypeOK, crVars, hpaVars, runVars, Time
<1>5. CASE Crash
  <2>1. budget' \in [Events -> Nat]
    BY <1>5, SpendType DEF Crash, TypeOK, Events
  <2>2. cr.exists \in BOOLEAN
    BY DEF TypeOK, ObjectType
  <2> QED  BY <1>5, <2>1, <2>2, FreshStateType, NoWorkerType, AbsentType
           DEF Crash, TypeOK
<1> QED  BY <1>1, <1>2, <1>3, <1>4, <1>5

\* So do the other writers of the AgenticAutoscaler ...
LEMMA StoreByOtherType ==
    ASSUME TypeOK, NEW obj \in ObjectType, StoreByOther(obj),
           UNCHANGED NotTheObject, budget' \in [Events -> Nat]
    PROVE  TypeOK'
<1>1. cr' \in ObjectType /\ crCache' \in ObjectType /\ crFresh' \in BOOLEAN
  BY StoreType DEF StoreByOther, TypeOK
<1>2. aasFresh' \in BOOLEAN
  BY DEF StoreByOther, TypeOK
<1> QED  BY <1>1, <1>2 DEF NotTheObject, TypeOK, hpaVars, deployVars

\* ... and of everything else.
LEMMA OthersType == TypeOK /\ Others => TypeOK'
<1> SUFFICES ASSUME TypeOK, Others PROVE TypeOK'
  OBVIOUS
<1>0. \A e \in Events : Spend(e) => budget' \in [Events -> Nat]
  BY SpendType DEF TypeOK
<1>1. CASE ToggleKillSwitch
  <2>1. [cr EXCEPT !.killSwitch = ~@] \in ObjectType
    BY DEF TypeOK, ObjectType
  <2> QED  BY <1>0, <1>1, <2>1, StoreByOtherType DEF ToggleKillSwitch, Events
<1>2. CASE RequestReclassify
  <2>1. [cr EXCEPT !.reclassify = TRUE] \in ObjectType
    BY DEF TypeOK, ObjectType
  <2> QED  BY <1>0, <1>2, <2>1, StoreByOtherType DEF RequestReclassify, Events
<1>3. CASE EditSpec
  <2>1. PICK s \in Admitted(Specs) : StoreByOther([cr EXCEPT !.spec = s])
    BY <1>3 DEF EditSpec
  <2>2. [cr EXCEPT !.spec = s] \in ObjectType
    BY AdmittedType DEF TypeOK, ObjectType
  <2> QED  BY <1>0, <1>3, <2>1, <2>2, StoreByOtherType DEF EditSpec, Events
<1>4. CASE DeleteCR
  <2>1. [cr EXCEPT !.deleting = TRUE] \in ObjectType
    BY DEF TypeOK, ObjectType
  <2>2. budget' \in [Events -> Nat]
    BY <1>0, <1>4 DEF DeleteCR, Events, TypeOK
  <2> QED  BY <1>4, <2>1, <2>2, AbsentType, StoreByOtherType DEF DeleteCR
<1>5. CASE CreateCR
  <2>1. PICK s \in Admitted(Specs) : StoreByOther(NewObject(s))
    BY <1>5 DEF CreateCR
  <2> QED  BY <1>0, <1>5, <2>1, NewObjectType, StoreByOtherType DEF CreateCR, Events
<1>6. CASE ChangeHPAs
  <2>1. hpas' \subseteq HPAs
    BY <1>6 DEF ChangeHPAs, TypeOK
  <2> QED  BY <1>0, <1>6, <2>1
           DEF ChangeHPAs, Events, TypeOK, crVars, deployVars, runVars
<1>7. CASE HumanScale
  <2>1. deployment' \in DeploymentType
    BY <1>7 DEF HumanScale, TypeOK, DeploymentType
  <2> QED  BY <1>0, <1>7, <2>1
           DEF HumanScale, Events, TypeOK, crVars, hpaVars, runVars
<1>8. CASE Rollout
  <2>1. deployment' \in DeploymentType
    BY <1>8 DEF Rollout, TypeOK, DeploymentType
  <2> QED  BY <1>0, <1>8, <2>1
           DEF Rollout, Events, TypeOK, crVars, hpaVars, runVars
<1> QED  BY <1>1, <1>2, <1>3, <1>4, <1>5, <1>6, <1>7, <1>8 DEF Others

\* ... and the classifier worker.
LEMMA ClassifierType == TypeOK /\ Classifier => TypeOK'
<1> SUFFICES ASSUME TypeOK, Classifier PROVE TypeOK'
  OBVIOUS
<1>1. budget' \in [Events -> Nat]
  BY SpendType DEF Classifier, ClassifierWrite, ClassifierStrip, TakeSignal,
     ClassifierMaySpend, TypeOK, Events
<1>2. ASSUME NEW obj \in ObjectType, NEW bumped \in BOOLEAN,
             StoreByClassifier(obj, bumped), UNCHANGED NotTheObject
      PROVE  TypeOK'
  BY <1>1, <1>2 DEF StoreByClassifier, NotTheObject, TypeOK, hpaVars, deployVars
<1>3. CASE ClassifierWrite
  <2>1. PICK c \in ClassifiedParams, bumped \in BOOLEAN :
           StoreByClassifier([cr EXCEPT !.status.classifiedParams = c], bumped)
    BY <1>3 DEF ClassifierWrite
  <2>2. [cr.status EXCEPT !.classifiedParams = c] \in StatusType
    BY DEF TypeOK, ObjectType, StatusType, Optional
  <2>3. [cr EXCEPT !.status.classifiedParams = c] \in ObjectType
    BY <2>2 DEF TypeOK, ObjectType
  <2> QED  BY <1>2, <1>3, <2>1, <2>3 DEF ClassifierWrite
<1>4. CASE ClassifierStrip
  <2>1. [cr EXCEPT !.reclassify = FALSE] \in ObjectType
    BY DEF TypeOK, ObjectType
  <2> QED  BY <1>2, <1>4, <2>1 DEF ClassifierStrip
<1>5. CASE TakeSignal
  <2>1. handle' \in Handle
    BY <1>5 DEF TakeSignal, TypeOK, Handle
  <2> QED  BY <1>1, <1>5, <2>1
           DEF TakeSignal, TypeOK, crVars, hpaVars, deployVars, runVars
<1> QED  BY <1>3, <1>4, <1>5 DEF Classifier

LEMMA NextType == TypeOK /\ [Next]_vars => TypeOK'
<1>1. TypeOK /\ UNCHANGED vars => TypeOK'
  BY DEF TypeOK, vars, crVars, hpaVars, deployVars, runVars
<1> QED  BY <1>1, ReconcileType, SystemType, OthersType, ClassifierType DEF Next, Own

\* The reconciler is type correct in every execution: in particular every
\* replica count it computes, sends or publishes is an int32, even when the
\* step cap or the forecast conversion overflows.
THEOREM TypeCorrect == Spec => []TypeOK
BY InitType, NextType, PTL DEF Spec

-----------------------------------------------------------------------------
(* The informer cache. *)

\* An update of the object clears the freshness of the cache unless it
\* changes nothing.
LEMMA StoreCache == ASSUME CacheInv, NEW obj, Store(obj) PROVE CacheInv'
BY DEF Store, CacheInv

LEMMA CacheNext == CacheInv /\ [Next]_vars => CacheInv'
<1> SUFFICES ASSUME CacheInv, [Next]_vars PROVE CacheInv'
  OBVIOUS
<1>1. ASSUME UNCHANGED crVars PROVE CacheInv'
  BY <1>1 DEF crVars, CacheInv
<1>2. CASE Reconcile
  <2>1. CASE UpdatePhase
    BY <1>1, <2>1, StoreCache DEF UpdatePhase
  <2>2. CASE UpdateStatus
    BY <1>1, <2>2, StoreCache DEF UpdateStatus
  <2>3. ASSUME NEW rps \in CurrentRates, NEW predicted \in Forecasts,
               Decide(rps, predicted)
        PROVE  CacheInv'
    BY <1>1, <2>3 DEF Decide
  <2> QED  BY <1>1, <1>2, <2>1, <2>2, <2>3
           DEF Reconcile, BeginNotFound, Begin, ListHPAsFailed, InputUnavailable,
               ScaleAccepted, ScaleFailed, ScaleUnanswered, StatusWriteFailed
<1>3. CASE SyncCR \/ Crash
  BY <1>3 DEF SyncCR, Crash, CacheInv
<1>4. CASE SyncDeployment \/ SyncHPA \/ Tick
  BY <1>1, <1>4 DEF SyncDeployment, SyncHPA, Tick
<1>5. CASE Others
  <2>1. ASSUME NEW obj, StoreByOther(obj) PROVE CacheInv'
    BY <2>1, StoreCache DEF StoreByOther
  <2> QED  BY <1>1, <1>5, <2>1
           DEF Others, ToggleKillSwitch, RequestReclassify, EditSpec, DeleteCR,
               CreateCR, ChangeHPAs, HumanScale, Rollout
<1>6. CASE Classifier
  <2>1. ASSUME NEW obj, NEW bumped \in BOOLEAN, StoreByClassifier(obj, bumped)
        PROVE  CacheInv'
    BY <2>1 DEF StoreByClassifier, CacheInv
  <2> QED  BY <1>1, <1>6, <2>1
           DEF Classifier, ClassifierWrite, ClassifierStrip, TakeSignal
<1>7. CASE UNCHANGED vars
  BY <1>1, <1>7 DEF vars
<1> QED  BY <1>2, <1>3, <1>4, <1>5, <1>6, <1>7 DEF Next, Own

-----------------------------------------------------------------------------
(* Deletion. *)

LEMMA FollowsNext == TypeOK /\ FollowsCache /\ [Next]_vars => FollowsCache'
<1> SUFFICES ASSUME TypeOK, FollowsCache, [Next]_vars PROVE FollowsCache'
  OBVIOUS
<1>0. crCache.exists \in BOOLEAN /\ cr.exists \in BOOLEAN
  BY DEF TypeOK, ObjectType
<1>1. CASE BeginNotFound
  BY <1>0, <1>1 DEF BeginNotFound, FollowsCache, Stop, NoWorker, crVars, runVars
<1>2. CASE Begin
  <2>1. handle'.running = TRUE /\ crCache'.exists = TRUE
    BY <1>0, <1>2, EnsureType DEF Begin, crVars, TypeOK
  <2> QED  BY <2>1 DEF FollowsCache
<1>3. ASSUME queued' = TRUE \/ pc' # "idle" PROVE FollowsCache'
  BY <1>3 DEF FollowsCache
<1>4. CASE ListHPAsFailed \/ SyncCR \/ ScaleAccepted
  BY <1>3, <1>4 DEF ListHPAsFailed, SyncCR, ScaleAccepted
<1>5. ASSUME NEW rps \in CurrentRates, NEW predicted \in Forecasts,
             Decide(rps, predicted)
      PROVE  FollowsCache'
  BY <1>3, <1>5 DEF Decide
<1>6. CASE \/ UpdatePhase \/ InputUnavailable \/ ScaleFailed \/ ScaleUnanswered
           \/ UpdateStatus \/ StatusWriteFailed
  BY <1>3, <1>6 DEF UpdatePhase, InputUnavailable, ScaleFailed, ScaleUnanswered,
     UpdateStatus, StatusWriteFailed, Return
<1>7. CASE Crash
  BY <1>0, <1>7 DEF Crash, FollowsCache, NoWorker
<1>8. ASSUME UNCHANGED <<pc, queued, state, crCache>>, handle'.running = handle.running
      PROVE  FollowsCache'
  BY <1>8 DEF FollowsCache
<1>9. CASE SyncDeployment \/ SyncHPA \/ Tick
  BY <1>8, <1>9 DEF SyncDeployment, SyncHPA, Tick, crVars, runVars
<1>10. CASE Others
  BY <1>8, <1>10
  DEF Others, ToggleKillSwitch, RequestReclassify, EditSpec, DeleteCR, CreateCR,
      ChangeHPAs, HumanScale, Rollout, NotTheObject, StoreByOther, Store, crVars, runVars
<1>11. CASE ClassifierWrite \/ ClassifierStrip
  BY <1>8, <1>11 DEF ClassifierWrite, ClassifierStrip, NotTheObject, StoreByClassifier
<1>12. CASE TakeSignal
  BY <1>8, <1>12 DEF TakeSignal, TypeOK, Handle, crVars, runVars
<1>13. CASE UNCHANGED vars
  BY <1>8, <1>13 DEF vars, crVars, runVars
<1> QED  BY <1>1, <1>2, <1>4, <1>5, <1>6, <1>7, <1>9, <1>10, <1>11, <1>12, <1>13
         DEF Next, Own, Reconcile, Classifier

\* Whatever deletions, re-creations, crashes and failures come before: when
\* the watch has delivered and the queue is drained, a deleted object has no
\* state-store entry and no worker, and a live one has its worker.
THEOREM NothingEverLeaks == Spec => []NothingLeaks
<1>1. Init => FollowsCache /\ CacheInv
  BY DEF Init, FollowsCache, CacheInv
<1>2. FollowsCache /\ CacheInv => NothingLeaks
  BY DEF FollowsCache, CacheInv, NothingLeaks
<1> QED  BY <1>1, <1>2, InitType, NextType, CacheNext, FollowsNext, PTL DEF Spec

-----------------------------------------------------------------------------
(* What a plan may contain. *)

\* The webhook keeps minima below maxima, in replicas and in rps per pod.
LEMMA AdmittedBounds ==
    ASSUME NEW s \in Admitted(Specs)
    PROVE  /\ Deref(s.minReplicas, 2) \in Pos32 /\ Deref(s.maxReplicas, 10) \in Pos32
           /\ Deref(s.minReplicas, 2) < Deref(s.maxReplicas, 10)
           /\ Deref(s.rpsPerPodMin, 50) \in Pos32 /\ Deref(s.rpsPerPodMax, 500) \in Pos32
           /\ Deref(s.rpsPerPodMin, 50) < Deref(s.rpsPerPodMax, 500)
<1>1. PICK t \in Specs : ValidateSpec(Defaulted(t)) /\ s = Defaulted(t)
  BY DEF Admitted
<1> DEFINE lo == Deref(t.minReplicas, 2)
           hi == Deref(t.maxReplicas, 10)
           rlo == Deref(t.rpsPerPodMin, 50)
           rhi == Deref(t.rpsPerPodMax, 500)
<1>2. t \in SpecType
  OBVIOUS
<1>3. lo \in Pos32 /\ hi \in Pos32
  BY <1>2 DEF SpecType, Deref, Optional, Pos32
<1>4. rlo \in Pos32 /\ rhi \in Pos32
  BY <1>2 DEF SpecType, Deref, Optional, Pos32
<1>5. /\ s.minReplicas = lo /\ s.maxReplicas = hi
      /\ s.rpsPerPodMin = rlo /\ s.rpsPerPodMax = rhi
  BY <1>1, <1>2 DEF Defaulted, SpecType
<1> HIDE DEF lo, hi, rlo, rhi
<1>6. /\ lo # None /\ hi # None /\ rlo # None /\ rhi # None
  BY <1>3, <1>4 DEF Pos32
<1>7. lo < hi /\ rlo < rhi
  BY <1>1, <1>5, <1>6 DEF ValidateSpec, Precedes
<1> QED  BY <1>3, <1>4, <1>5, <1>6, <1>7 DEF Deref

LEMMA AbsentAdmitted == Absent.spec \in Admitted(Specs)
<1> DEFINE any == CHOOSE s \in Admitted(Specs) : TRUE
<1>1. \E s \in Admitted(Specs) : TRUE
  OBVIOUS
<1>2. any \in Admitted(Specs)
  BY <1>1, Zenon
<1>3. Absent = [NewObject(any) EXCEPT !.exists = FALSE]
  BY DEF Absent
<1> HIDE DEF any
<1> QED  BY <1>2, <1>3 DEF NewObject

\* The clamped estimate, in whole rps, is inside the spec's bounds.
LEMMA ClampedEstimate ==
    ASSUME NEW v \in Int, NEW lo \in Pos32, NEW hi \in Pos32, lo < hi
    PROVE  /\ ClampRpsPerPod(v, lo, hi) \in Int
           /\ lo <= ClampRpsPerPod(v, lo, hi) \div Scale
           /\ ClampRpsPerPod(v, lo, hi) \div Scale <= hi
<1> DEFINE r == ClampRpsPerPod(v, lo, hi)
           q == r \div Scale
<1>1. lo \in Int /\ hi \in Int /\ Scale \in Int /\ Scale > 0
  BY DEF Pos32
<1>2. lo * Scale \in Int /\ hi * Scale \in Int /\ lo * Scale <= hi * Scale
  BY <1>1
<1>3. r \in Int /\ lo * Scale <= r /\ r <= hi * Scale
  BY <1>2 DEF ClampRpsPerPod
<1> HIDE DEF r
<1>4. q \in Int /\ q * Scale <= r /\ r < (q + 1) * Scale
  BY <1>1, <1>3
<1> HIDE DEF q
<1>5. lo * Scale < (q + 1) * Scale /\ q * Scale <= hi * Scale
  BY <1>1, <1>2, <1>3, <1>4
<1>6. lo < q + 1 /\ q <= hi
  BY <1>1, <1>4, <1>5
<1> QED  BY <1>1, <1>3, <1>4, <1>6 DEF q, r

LEMMA PlanForInRange ==
    ASSUME NEW obj \in ObjectType, obj.spec \in Admitted(Specs),
           NEW s \in StateType, NEW current \in Nat32,
           NEW predicted \in Nat, now \in Time,
           NEW p, p = PlanFor(obj, s, current, predicted)
    PROVE  InRange(obj, p)
<1> DEFINE lo == Deref(obj.spec.minReplicas, 2)
           hi == Deref(obj.spec.maxReplicas, 10)
           rlo == Deref(obj.spec.rpsPerPodMin, 50)
           rhi == Deref(obj.spec.rpsPerPodMax, 500)
           eff == ResolveEffectiveParams(obj.spec, obj.status.classifiedParams, Defaults)
           rpp == ClampRpsPerPod(s.rpsPerPod, rlo, rhi)
           unb == ComputeUnboundedRecommended(predicted, rpp)
           clamped == ClampRecommended(unb, lo, hi)
           in == [ recommended |-> clamped.replicas, current |-> current,
                   maxStep |-> eff.maxStep, cooldownUp |-> eff.cooldownUp,
                   cooldownDown |-> eff.cooldownDown,
                   lastScaleUp |-> s.lastScaleUp, lastScaleDown |-> s.lastScaleDown,
                   now |-> now, bindingReason |-> clamped.reason ]
<1>1. /\ p.target = ApplyCapAndCooldown(in).target
      /\ p.current = current /\ p.recommended = clamped.replicas
      /\ p.maxStep = eff.maxStep /\ p.rpsPerPod = rpp \div Scale
  BY DEF PlanFor
<1>2. p \in PlanType
  BY PlanForType
<1>3. /\ in.recommended = clamped.replicas /\ in.current = current
      /\ in.maxStep = eff.maxStep
  OBVIOUS
<1>4. lo \in Pos32 /\ hi \in Pos32 /\ lo < hi
  BY AdmittedBounds
<1>5. rlo \in Pos32 /\ rhi \in Pos32 /\ rlo < rhi
  BY AdmittedBounds
<1> HIDE DEF in, eff, lo, hi, rlo, rhi
<1>6. rpp \in Int /\ rlo <= rpp \div Scale /\ rpp \div Scale <= rhi
  <2>1. s.rpsPerPod \in Int
    BY DEF StateType
  <2> QED  BY <1>5, <2>1, ClampedEstimate
<1> HIDE DEF rpp
<1>7. lo <= clamped.replicas /\ clamped.replicas <= hi
  <2>1. unb \in Int32
    BY <1>6, UnboundedType
  <2>2. lo \in Int32 /\ hi \in Int32 /\ lo <= hi
    BY <1>4 DEF Pos32, Int32, MinInt32
  <2> HIDE DEF unb
  <2> QED  BY <2>1, <2>2, ClampRecommendedType
<1> HIDE DEF clamped
<1>8. ASSUME p.current + p.maxStep <= MaxInt32
      PROVE  /\ \/ p.current <= p.target /\ p.target <= p.recommended
                \/ p.recommended <= p.target /\ p.target <= p.current
             /\ p.target - p.current <= p.maxStep
             /\ p.current - p.target <= p.maxStep
  <2>1. CapInput(in)
    BY <1>1, <1>2, <1>3 DEF CapInput, PlanType, Pos32, Nat32, Int32, MinInt32
  <2>2. in.current + in.maxStep \in Int32 /\ in.current - in.maxStep \in Int32
    BY <1>1, <1>2, <1>3, <1>8 DEF PlanType, Pos32, Nat32, Int32, MinInt32
  <2> QED  BY <1>1, <1>3, <2>1, <2>2, StepIsBounded
<1> QED  BY <1>1, <1>6, <1>7, <1>8 DEF InRange, lo, hi, rlo, rhi

LEMMA SpecsNext == SpecsAdmitted /\ TypeOK /\ [Next]_vars => SpecsAdmitted'
<1> SUFFICES ASSUME SpecsAdmitted, TypeOK, [Next]_vars PROVE SpecsAdmitted'
  OBVIOUS
<1>0. cr \in ObjectType /\ crCache \in ObjectType
  BY DEF TypeOK
<1>1. ASSUME UNCHANGED <<cr, crCache>>, aas' = aas \/ aas' = Absent PROVE SpecsAdmitted'
  BY <1>1, AbsentAdmitted DEF SpecsAdmitted
<1>2. ASSUME NEW st, Store([cr EXCEPT !.status = st]), aas' = Absent
      PROVE  SpecsAdmitted'
  BY <1>0, <1>2, AbsentAdmitted DEF Store, SpecsAdmitted, ObjectType
<1>3. CASE Begin
  <2>1. aas' = aas \/ \E st : aas' = [crCache EXCEPT !.status = st]
    BY <1>3 DEF Begin, KillSwitched, BeingDeleted, Conflicting, Proceed, Start, runVars
  <2>2. aas'.spec \in Admitted(Specs)
    BY <1>0, <2>1 DEF SpecsAdmitted, ObjectType
  <2> QED  BY <1>3, <2>2 DEF Begin, crVars, SpecsAdmitted
<1>4. CASE UpdatePhase
  BY <1>1, <1>2, <1>4 DEF UpdatePhase, Return, crVars
<1>5. CASE UpdateStatus
  BY <1>1, <1>2, <1>5 DEF UpdateStatus, Return, crVars
<1>6. ASSUME NEW rps \in CurrentRates, NEW predicted \in Forecasts,
             Decide(rps, predicted)
      PROVE  SpecsAdmitted'
  BY <1>1, <1>6 DEF Decide, crVars
<1>7. CASE \/ BeginNotFound \/ ListHPAsFailed \/ InputUnavailable \/ ScaleAccepted
           \/ ScaleFailed \/ ScaleUnanswered \/ StatusWriteFailed
  BY <1>1, <1>7
  DEF BeginNotFound, ListHPAsFailed, InputUnavailable, ScaleAccepted, ScaleFailed,
      ScaleUnanswered, StatusWriteFailed, Return, crVars, runVars
<1>8. CASE SyncCR \/ Crash
  BY <1>8, AbsentAdmitted DEF SyncCR, Crash, SpecsAdmitted, runVars
<1>9. CASE SyncDeployment \/ SyncHPA \/ Tick \/ ChangeHPAs \/ HumanScale \/ Rollout
           \/ TakeSignal
  BY <1>1, <1>9 DEF SyncDeployment, SyncHPA, Tick, ChangeHPAs, HumanScale, Rollout,
     TakeSignal, crVars, runVars
<1>10. ASSUME NEW obj, obj.spec \in Admitted(Specs), UNCHANGED <<crCache, aas>>,
              cr' = obj
       PROVE  SpecsAdmitted'
  BY <1>10 DEF SpecsAdmitted
<1>11. CASE \/ ToggleKillSwitch \/ RequestReclassify \/ EditSpec \/ DeleteCR
            \/ CreateCR
  <2>1. /\ [cr EXCEPT !.killSwitch = ~@].spec \in Admitted(Specs)
        /\ [cr EXCEPT !.reclassify = TRUE].spec \in Admitted(Specs)
        /\ [cr EXCEPT !.deleting = TRUE].spec \in Admitted(Specs)
    BY <1>0 DEF SpecsAdmitted, ObjectType
  <2>2. \A s \in Admitted(Specs) : /\ [cr EXCEPT !.spec = s].spec \in Admitted(Specs)
                                   /\ NewObject(s).spec \in Admitted(Specs)
    BY <1>0 DEF ObjectType, NewObject
  <2>3. ASSUME NEW obj, obj.spec \in Admitted(Specs), StoreByOther(obj), aas' = aas
        PROVE  SpecsAdmitted'
    BY <1>10, <2>3 DEF StoreByOther, Store
  <2> QED  BY <1>11, <2>1, <2>2, <2>3, AbsentAdmitted
           DEF ToggleKillSwitch, RequestReclassify, EditSpec, DeleteCR, CreateCR,
               NotTheObject
<1>12. CASE ClassifierWrite \/ ClassifierStrip
  <2>1. /\ [cr EXCEPT !.reclassify = FALSE].spec \in Admitted(Specs)
        /\ \A c : [cr EXCEPT !.status.classifiedParams = c].spec \in Admitted(Specs)
    BY <1>0 DEF SpecsAdmitted, ObjectType
  <2> QED  BY <1>10, <1>12, <2>1
           DEF ClassifierWrite, ClassifierStrip, StoreByClassifier, NotTheObject
<1>13. CASE UNCHANGED vars
  BY <1>1, <1>13 DEF vars, crVars, runVars
<1> QED  BY <1>3, <1>4, <1>5, <1>6, <1>7, <1>8, <1>9, <1>11, <1>12, <1>13
         DEF Next, Own, Reconcile, Others, Classifier

\* Only Decide makes a plan, and until the reconcile returns its object stays.
LEMMA RangeNext ==
    SpecsAdmitted /\ TypeOK /\ PlanInRange /\ [Next]_vars => PlanInRange'
<1> SUFFICES ASSUME SpecsAdmitted, TypeOK, PlanInRange, [Next]_vars
             PROVE  PlanInRange'
  OBVIOUS
<1>1. ASSUME UNCHANGED <<plan, aas>> PROVE PlanInRange'
  BY <1>1 DEF PlanInRange
<1>2. ASSUME plan' = None PROVE PlanInRange'
  BY <1>2 DEF PlanInRange
<1>3. CASE Begin
  BY <1>1, <1>2, <1>3
  DEF Begin, KillSwitched, BeingDeleted, Conflicting, Proceed, Start, runVars
<1>4. ASSUME NEW rps \in CurrentRates, NEW predicted \in Forecasts,
             Decide(rps, predicted)
      PROVE  PlanInRange'
  <2>1. TypeOK'
    BY NextType
  <2>2. /\ state' \in StateType /\ deployCache.replicas \in Nat32 /\ predicted \in Nat
        /\ aas \in ObjectType /\ now \in Time
    BY <2>1 DEF TypeOK, DeploymentType
  <2>3. aas.spec \in Admitted(Specs)
    BY DEF SpecsAdmitted
  <2>4. plan' = PlanFor(aas, state', deployCache.replicas, predicted) /\ aas' = aas
    BY <1>4 DEF Decide
  <2>5. InRange(aas, plan')
    BY <2>2, <2>3, <2>4, PlanForInRange
  <2> QED  BY <2>4, <2>5 DEF PlanInRange
<1>5. CASE \/ UpdatePhase \/ UpdateStatus \/ InputUnavailable \/ ScaleFailed
           \/ ScaleUnanswered \/ StatusWriteFailed \/ Crash
  BY <1>2, <1>5 DEF UpdatePhase, UpdateStatus, InputUnavailable, ScaleFailed,
     ScaleUnanswered, StatusWriteFailed, Crash, Return
<1>6. CASE \/ BeginNotFound \/ ListHPAsFailed \/ ScaleAccepted \/ SyncCR
           \/ SyncDeployment \/ SyncHPA \/ Tick
  BY <1>1, <1>6 DEF BeginNotFound, ListHPAsFailed, ScaleAccepted, SyncCR,
     SyncDeployment, SyncHPA, Tick, runVars
<1>7. CASE Others \/ Classifier
  BY <1>1, <1>7
  DEF Others, ToggleKillSwitch, RequestReclassify, EditSpec, DeleteCR, CreateCR,
      ChangeHPAs, HumanScale, Rollout, Classifier, ClassifierWrite, ClassifierStrip,
      TakeSignal, NotTheObject, runVars
<1>8. CASE UNCHANGED vars
  BY <1>1, <1>8 DEF vars, runVars
<1> QED  BY <1>3, <1>4, <1>5, <1>6, <1>7, <1>8 DEF Next, Own, Reconcile

\* A plan stays inside the bounds of the admitted spec it was made for, and
\* between the cached count and the recommendation, whatever estimate was
\* learned, and whatever step classified, before.
THEOREM PlanAlwaysInRange == Spec => []PlanInRange
<1>1. Init => SpecsAdmitted /\ PlanInRange
  <2> SUFFICES ASSUME Init PROVE SpecsAdmitted /\ PlanInRange
    OBVIOUS
  <2>1. PICK s \in Admitted(Specs) : cr = NewObject(s)
    BY DEF Init
  <2>2. cr.spec \in Admitted(Specs)
    BY <2>1 DEF NewObject
  <2> QED  BY <2>2, AbsentAdmitted DEF Init, SpecsAdmitted, PlanInRange
<1> QED  BY <1>1, InitType, NextType, SpecsNext, RangeNext, PTL DEF Spec
=============================================================================
