---------------------------- MODULE HistoryProofs ----------------------------
(***************************************************************************)
(* The safety properties of ReconcilerHistory, for every value of the      *)
(* constants: any number of crashes, failures and outside events, any      *)
(* delay of the caches, any specs, forecasts and cooldowns.                *)
(***************************************************************************)
EXTENDS ReconcilerProofs

USE NumbersAssumption, NoneAssumption, RevisionAssumption, InputsAssumption

LEMMA HInitType == HInit => TypeOK
BY InitType DEF HInit

LEMMA HNextType == TypeOK /\ [HNext]_hvars => TypeOK'
BY NextType DEF HNext, hvars

\* Spending one event leaves the others' budgets alone.
LEMMA SpendOne ==
    ASSUME TypeOK, NEW e \in Events, NEW f \in Events, e # f, Spend(e)
    PROVE  budget'[f] = budget[f]
BY DEF TypeOK, Spend

\* The classifier neither crashes the controller nor loses an answer.
LEMMA ClassifierBudget ==
    ASSUME TypeOK, Classifier
    PROVE  budget'["crash"] = budget["crash"] /\ budget'["lost"] = budget["lost"]
BY SpendOne DEF Classifier, ClassifierWrite, ClassifierStrip, TakeSignal,
   ClassifierMaySpend, Events

-----------------------------------------------------------------------------
(* Cooldowns. *)

\* What is owed only ever shrinks in a step that neither acknowledges a
\* scale nor restarts the controller.
LEMMA OwedShrinks ==
    ASSUME CooldownInv, Remember, ~Restarted, ~Acknowledged
    PROVE  /\ owed' \in [up : Optional(Time), down : Optional(Time)]
           /\ owed' = owed \/ owed' = Nothing
<1>1. owed' = owed \/ owed' = Nothing
  BY DEF Remember
<1>2. Nothing \in [up : Optional(Time), down : Optional(Time)]
  BY DEF Nothing, Optional
<1> QED  BY <1>1, <1>2 DEF CooldownInv

\* A step that leaves the clocks and the decision alone keeps CooldownInv if
\* each copy of the object has its lastScaleTime from a copy there was, or
\* nothing is owed any more.
LEMMA CooldownFrame ==
    ASSUME CooldownInv,
           owed' \in [up : Optional(Time), down : Optional(Time)],
           owed' = owed \/ owed' = Nothing,
           state' = state,
           pc' \in {"scale", "status"} => pc' = pc /\ plan' = plan,
           ~cr'.exists => cr'.status.lastScaleTime = None,
           \/ owed' = Nothing
           \/ /\ cr'.status.lastScaleTime \in
                   {cr.status.lastScaleTime}
                   \cup (IF pc = "phase" THEN {aas.status.lastScaleTime} ELSE {})
                   \cup (IF state.initialized \/ ~cr.exists
                         THEN {cr'.status.lastScaleTime} ELSE {})
              /\ crCache' = crCache \/ crCache' = cr
              /\ pc' \in {"phase", "observe"} =>
                   \/ pc' = pc /\ aas' = aas
                   \/ aas'.status.lastScaleTime = crCache.status.lastScaleTime
    PROVE  CooldownInv'
<1>1. \A a \in {state.lastScaleUp, state.lastScaleDown} :
         /\ Covers(a, owed.up) => Covers(a, owed'.up)
         /\ Covers(a, owed.down) => Covers(a, owed'.down)
  BY DEF Covers, Nothing
<1>2. state'.initialized => CoversOwed(state.lastScaleUp, state.lastScaleDown)'
  BY <1>1 DEF CooldownInv, CoversOwed, Covers
<1>3. ASSUME ~state'.initialized
      PROVE  /\ Remembers(cr)' /\ Remembers(crCache)'
             /\ pc' \in {"phase", "observe"} => Remembers(aas)'
  <2>1. CASE owed' = Nothing
    BY <2>1 DEF Remembers, CoversOwed, Covers, Nothing
  <2>2. CASE owed' = owed /\ owed' # Nothing
    <3>1. /\ Remembers(cr) /\ Remembers(crCache)
          /\ pc \in {"phase", "observe"} => Remembers(aas)
      BY <1>3 DEF CooldownInv
    <3>2. cr.exists
      <4>1. CASE ~cr.exists
        <5>1. cr.status.lastScaleTime = None
          BY <4>1 DEF CooldownInv
        <5>2. owed.up = None /\ owed.down = None
          BY <3>1, <5>1 DEF Remembers, CoversOwed, Covers
        <5> QED  BY <2>2, <5>2 DEF CooldownInv, Nothing
      <4> QED  BY <4>1
    <3>3. Remembers(cr)'
      BY <1>3, <2>2, <3>1, <3>2 DEF Remembers, CoversOwed, Covers
    <3>4. Remembers(crCache)'
      BY <2>2, <3>1 DEF Remembers, CoversOwed, Covers
    <3>5. ASSUME pc' \in {"phase", "observe"} PROVE Remembers(aas)'
      BY <2>2, <3>1, <3>5 DEF Remembers, CoversOwed, Covers
    <3> QED  BY <3>3, <3>4, <3>5
  <2> QED  BY <2>1, <2>2
<1>4. pc' = "scale" /\ plan'.target >= 0 =>
        Elapsed(plan.at, LastOf([up |-> state.lastScaleUp, down |-> state.lastScaleDown]),
                PlanCooldown)'
  BY DEF CooldownInv, Elapsed, LastOf, PlanCooldown
<1> QED  BY <1>2, <1>3, <1>4 DEF CooldownInv

\* The decision: recovery or the clocks in memory cover what is owed, and a
\* move was only planned after its cooldown.
LEMMA CooldownDecide ==
    ASSUME TypeOK, CooldownInv, NEW rps \in CurrentRates, NEW predicted \in Forecasts,
           Decide(rps, predicted),
           owed' \in [up : Optional(Time), down : Optional(Time)],
           owed' = owed \/ owed' = Nothing
    PROVE  CooldownInv'
<1> DEFINE r == Recovered(aas)
<1>1. r \in StateType /\ r.initialized
  BY RecoveredType DEF TypeOK
<1>2. CoversOwed(r.lastScaleUp, r.lastScaleDown)
  <2>1. CASE state.initialized
    BY <2>1 DEF Recovered, CooldownInv
  <2>2. CASE ~state.initialized
    <3>1. Remembers(aas)
      BY <2>2 DEF CooldownInv, Decide
    <3>2. /\ r.lastScaleUp = IF aas.status.lastScaleTime # None
                             THEN aas.status.lastScaleTime ELSE state.lastScaleUp
          /\ r.lastScaleDown = IF aas.status.lastScaleTime # None
                               THEN aas.status.lastScaleTime ELSE state.lastScaleDown
      BY <2>2 DEF Recovered, InitializeFromStatus, StatusSeed
    <3> HIDE DEF r
    <3> QED  BY <3>1, <3>2 DEF Remembers, CoversOwed, Covers
  <2> QED  BY <2>1, <2>2
<1>3. /\ state' \in StateType /\ state'.initialized
      /\ state'.lastScaleUp = r.lastScaleUp /\ state'.lastScaleDown = r.lastScaleDown
  <2>1. /\ rps \in Nat /\ deployCache.replicas \in Int32 /\ now \in Time
        /\ Interval \in Nat /\ NoiseFloor \in Nat
    BY DEF TypeOK, DeploymentType, Nat32, Int32, MinInt32
  <2>2. state' = Observe(r, rps, deployCache.replicas, now, Interval, NoiseFloor)
    BY DEF Decide
  <2> HIDE DEF r
  <2> QED  BY <1>1, <2>1, <2>2, ObserveType
<1> HIDE DEF r
<1>4. CoversOwed(state.lastScaleUp, state.lastScaleDown)'
  BY <1>2, <1>3 DEF CoversOwed, Covers, Nothing
<1>5. ASSUME pc' = "scale", plan'.target >= 0
      PROVE  Elapsed(plan.at, LastOf([up |-> state.lastScaleUp, down |-> state.lastScaleDown]),
                     PlanCooldown)'
  <2>1. /\ plan' = PlanFor(aas, state', deployCache.replicas, predicted)
        /\ plan'.target # plan'.current
    BY <1>5 DEF Decide, ShouldPatch
  <2>2. predicted \in Nat /\ deployCache.replicas \in Nat32 /\ aas \in ObjectType
        /\ now \in Time
    BY DEF TypeOK, DeploymentType
  <2> QED  BY <1>3, <1>5, <2>1, <2>2, PlanHonoursCooldown
           DEF LastOf, PlanCooldown, Elapsed
<1>6. ~cr'.exists => cr'.status.lastScaleTime = None
  BY DEF Decide, CooldownInv, crVars
<1>7. pc' \in {"scale", "status"}
  BY DEF Decide
<1> QED  BY <1>3, <1>4, <1>5, <1>6, <1>7 DEF CooldownInv

\* The acknowledged scale: the clock of its direction becomes what is owed.
LEMMA CooldownAccepted ==
    ASSUME TypeOK, CooldownInv, ScaleAccepted, Remember
    PROVE  CooldownInv'
<1>1. plan \in PlanType /\ plan.at \in Time /\ plan.at # None
  BY DEF ScaleAccepted, TypeOK, PlanType, Time
<1>2. state.initialized /\ CoversOwed(state.lastScaleUp, state.lastScaleDown)
  BY DEF CooldownInv, ScaleAccepted
<1>3. owed' = Record(owed)
  BY DEF Remember, Acknowledged, Forgotten, ScaleAccepted, crVars
<1>4. state \in StateType
  BY DEF TypeOK
<1>5. /\ owed' \in [up : Optional(Time), down : Optional(Time)]
      /\ state'.initialized /\ CoversOwed(state.lastScaleUp, state.lastScaleDown)'
  <2>1. CASE plan.target > plan.current
    <3>1. owed' = [owed EXCEPT !.up = plan.at]
      BY <1>3, <2>1 DEF Record
    <3>2. state' = [state EXCEPT !.lastScaleUp = plan.at]
      BY <2>1 DEF ScaleAccepted, StampScale
    <3>3. owed' \in [up : Optional(Time), down : Optional(Time)]
      BY <1>1, <3>1 DEF CooldownInv, Optional
    <3>4. owed'.up = plan.at /\ owed'.down = owed.down
      BY <3>1 DEF CooldownInv
    <3>5. /\ state'.lastScaleUp = plan.at /\ state'.lastScaleDown = state.lastScaleDown
          /\ state'.initialized = state.initialized
      BY <1>4, <3>2 DEF StateType
    <3>6. Covers(plan.at, plan.at)
      BY <1>1 DEF Covers, Time
    <3> QED  BY <1>2, <3>3, <3>4, <3>5, <3>6 DEF CoversOwed
  <2>2. CASE ~(plan.target > plan.current)
    <3>1. owed' = [owed EXCEPT !.down = plan.at]
      BY <1>3, <2>2 DEF Record
    <3>2. state' = [state EXCEPT !.lastScaleDown = plan.at]
      BY <2>2 DEF ScaleAccepted, StampScale
    <3>3. owed' \in [up : Optional(Time), down : Optional(Time)]
      BY <1>1, <3>1 DEF CooldownInv, Optional
    <3>4. owed'.down = plan.at /\ owed'.up = owed.up
      BY <3>1 DEF CooldownInv
    <3>5. /\ state'.lastScaleDown = plan.at /\ state'.lastScaleUp = state.lastScaleUp
          /\ state'.initialized = state.initialized
      BY <1>4, <3>2 DEF StateType
    <3>6. Covers(plan.at, plan.at)
      BY <1>1 DEF Covers, Time
    <3> QED  BY <1>2, <3>3, <3>4, <3>5, <3>6 DEF CoversOwed
  <2> QED  BY <2>1, <2>2
<1>6. pc' = "status" /\ UNCHANGED crVars
  BY DEF ScaleAccepted
<1> QED  BY <1>5, <1>6 DEF CooldownInv, crVars

\* The restart: what is still owed is what status.lastScaleTime tells.
LEMMA CooldownCrash ==
    ASSUME TypeOK, CooldownInv, Crash, Remember
    PROVE  CooldownInv'
<1>1. pc' = "idle" /\ ~state'.initialized /\ cr' = cr /\ crCache' = cr
  BY DEF Crash, FreshState
<1>2. owed.up \in Optional(Time) /\ owed.down \in Optional(Time)
      /\ cr.status.lastScaleTime \in Optional(Time)
  BY DEF CooldownInv, TypeOK, ObjectType, StatusType
<1>3. \A t \in Optional(Time) :
         /\ Persisted(t) \in Optional(Time)
         /\ Covers(cr.status.lastScaleTime, Persisted(t))
  <2>1. \A t \in Nat : TruncateToSecond(t) \in Nat
    BY DEF TruncateToSecond
  <2> QED  BY <1>2, <2>1 DEF Persisted, Covers, Optional, Time
<1>4. Restarted /\ ~Acknowledged
  BY DEF Crash, Spend, Restarted, Acknowledged, TypeOK, Events
<1>5. owed' = Nothing \/ owed' = [up |-> Persisted(owed.up), down |-> Persisted(owed.down)]
  BY <1>4 DEF Remember
<1>6. owed' \in [up : Optional(Time), down : Optional(Time)]
  BY <1>2, <1>3, <1>5 DEF Nothing, Optional
<1>7. CoversOwed(cr.status.lastScaleTime, cr.status.lastScaleTime)'
  BY <1>1, <1>2, <1>3, <1>5 DEF CoversOwed, Covers, Nothing
<1> QED  BY <1>1, <1>6, <1>7 DEF CooldownInv, Remembers, CoversOwed

\* Reconcile keeps CooldownInv: one step per action.
LEMMA CooldownReconcile == TypeOK /\ CooldownInv /\ Reconcile /\ Remember => CooldownInv'
<1> SUFFICES ASSUME TypeOK, CooldownInv, Reconcile, Remember PROVE CooldownInv'
  OBVIOUS
<1> DEFINE Quiet == owed' \in [up : Optional(Time), down : Optional(Time)]
                    /\ (owed' = owed \/ owed' = Nothing)
<1>0. ~Restarted /\ ~Acknowledged => Quiet
  BY OwedShrinks
<1>00. /\ Spend("fail") \/ Spend("lost") => ~Restarted
       /\ UNCHANGED budget => ~Restarted
  BY SpendOne DEF Restarted, Events
<1> HIDE DEF Quiet
<1>1. CASE BeginNotFound
  <2>1. Quiet /\ pc' = "idle" /\ UNCHANGED crVars
    BY <1>0, <1>00, <1>1 DEF BeginNotFound, Acknowledged, runVars
  <2>2. owed' = Nothing
    BY <1>1 DEF BeginNotFound, Remember, Forgotten
  <2>3. ~state'.initialized
    BY <1>1 DEF BeginNotFound, FreshState
  <2> QED  BY <2>1, <2>2, <2>3
           DEF Quiet, CooldownInv, Remembers, CoversOwed, Covers, Nothing, crVars
<1>2. CASE Begin
  <2>1. UNCHANGED <<crVars, state, budget>> /\ pc = "idle"
    BY <1>2 DEF Begin
  <2>2. ASSUME NEW label \in {"phase", "observe"}, NEW st, Start(label, st),
               st.lastScaleTime = crCache.status.lastScaleTime
        PROVE  CooldownInv'
    <3>1. Quiet
      BY <1>0, <1>00, <2>1 DEF Acknowledged
    <3>2. aas'.status.lastScaleTime = crCache.status.lastScaleTime
      BY <2>2 DEF Start, TypeOK, ObjectType
    <3> QED  BY <2>1, <2>2, <3>1, <3>2, CooldownFrame
             DEF Start, Quiet, crVars, CooldownInv
  <2>3. ASSUME UNCHANGED runVars PROVE CooldownInv'
    <3>1. Quiet
      BY <1>0, <1>00, <2>1 DEF Acknowledged
    <3> QED  BY <2>1, <2>3, <3>1, CooldownFrame DEF Quiet, crVars, runVars, CooldownInv
  <2>4. crCache.status \in StatusType
    BY DEF TypeOK, ObjectType
  <2>5. CASE KillSwitched
    <3>1. [crCache.status EXCEPT !.phase = "Disabled"].lastScaleTime
             = crCache.status.lastScaleTime
      BY <2>4 DEF StatusType
    <3> QED  BY <2>2, <2>3, <2>5, <3>1 DEF KillSwitched
  <2>6. CASE BeingDeleted
    BY <2>3, <2>6 DEF BeingDeleted
  <2>7. CASE Conflicting
    <3>1. \A hpa : [crCache.status EXCEPT !.phase = "Conflict",
                       !.conflictReason = hpa].lastScaleTime
                   = crCache.status.lastScaleTime
      BY <2>4 DEF StatusType
    <3> QED  BY <2>2, <2>3, <2>7, <3>1 DEF Conflicting
  <2>8. CASE Proceed
    BY <2>2, <2>8 DEF Proceed
  <2> QED  BY <1>2, <2>5, <2>6, <2>7, <2>8 DEF Begin
<1>3. CASE ListHPAsFailed
  <2>1. Quiet
    BY <1>0, <1>00, <1>3 DEF ListHPAsFailed, Acknowledged, runVars
  <2> QED  BY <1>3, <2>1, CooldownFrame
           DEF ListHPAsFailed, Quiet, crVars, runVars, CooldownInv
<1>4. CASE UpdatePhase
  <2>1. Quiet /\ pc = "phase" /\ pc' = "idle" /\ state' = state /\ crCache' = crCache
    BY <1>0, <1>00, <1>4 DEF UpdatePhase, Return, Acknowledged, crVars, Store
  <2>2. cr' = cr \/ (cr.exists /\ cr' = [cr EXCEPT !.status = aas.status])
    BY <1>4 DEF UpdatePhase, UpdateAccepted, Store, crVars
  <2>3. /\ cr'.exists = cr.exists
        /\ cr'.status.lastScaleTime \in {cr.status.lastScaleTime, aas.status.lastScaleTime}
        /\ ~cr'.exists => cr' = cr
    BY <2>2 DEF TypeOK, ObjectType
  <2> QED  BY <2>1, <2>3, CooldownFrame DEF Quiet, CooldownInv
<1>5. CASE InputUnavailable
  <2>1. Quiet /\ pc' = "idle"
    BY <1>0, <1>00, <1>5 DEF InputUnavailable, Return, Acknowledged
  <2> QED  BY <1>5, <2>1, CooldownFrame DEF InputUnavailable, Quiet, crVars, CooldownInv
<1>6. ASSUME NEW rps \in CurrentRates, NEW predicted \in Forecasts,
             Decide(rps, predicted)
      PROVE  CooldownInv'
  <2>1. Quiet
    BY <1>0, <1>00, <1>6 DEF Decide, Acknowledged
  <2> QED  BY <1>6, <2>1, CooldownDecide DEF Quiet
<1>7. CASE ScaleAccepted
  BY <1>7, CooldownAccepted
<1>8. CASE ScaleFailed
  <2>1. Quiet /\ pc' = "idle"
    BY <1>0, <1>00, <1>8 DEF ScaleFailed, Return, Acknowledged
  <2> QED  BY <1>8, <2>1, CooldownFrame DEF ScaleFailed, Quiet, crVars, CooldownInv
<1>9. CASE ScaleUnanswered
  <2>1. Quiet /\ pc' = "idle"
    BY <1>0, <1>00, <1>9 DEF ScaleUnanswered, Return, Acknowledged
  <2> QED  BY <1>9, <2>1, CooldownFrame DEF ScaleUnanswered, Quiet, crVars, CooldownInv
<1>10. CASE UpdateStatus
  <2>1. Quiet /\ pc' = "idle" /\ state' = state /\ crCache' = crCache
    BY <1>0, <1>00, <1>10 DEF UpdateStatus, Return, Acknowledged, crVars, Store
  <2>2. state.initialized
    BY <1>10 DEF UpdateStatus, CooldownInv
  <2>3. ~cr'.exists => cr' = cr
    BY <1>10 DEF UpdateStatus, UpdateAccepted, Store, crVars, TypeOK, ObjectType
  <2> QED  BY <2>1, <2>2, <2>3, CooldownFrame DEF Quiet, CooldownInv
<1>11. CASE StatusWriteFailed
  <2>1. Quiet /\ pc' = "idle"
    BY <1>0, <1>00, <1>11 DEF StatusWriteFailed, Return, Acknowledged
  <2> QED  BY <1>11, <2>1, CooldownFrame DEF StatusWriteFailed, Quiet, crVars, CooldownInv
<1> QED  BY <1>1, <1>2, <1>3, <1>4, <1>5, <1>6, <1>7, <1>8, <1>9, <1>10, <1>11
         DEF Reconcile

\* So does everything around it: no other writer touches lastScaleTime but
\* by deleting the object.
LEMMA CooldownOutside ==
    TypeOK /\ CooldownInv /\ Remember
      /\ (SyncCR \/ SyncDeployment \/ SyncHPA \/ Tick \/ Crash \/ Others \/ Classifier)
    => CooldownInv'
<1> SUFFICES ASSUME TypeOK, CooldownInv, Remember,
                    SyncCR \/ SyncDeployment \/ SyncHPA \/ Tick \/ Crash \/ Others
                      \/ Classifier
             PROVE  CooldownInv'
  OBVIOUS
<1>1. CASE Crash
  BY <1>1, CooldownCrash
<1>2. ASSUME ~Restarted, UNCHANGED <<state, pc, plan, aas>>,
             crCache' = crCache \/ crCache' = cr,
             \/ cr' = cr
             \/ cr.exists /\ ~cr'.exists /\ cr'.status.lastScaleTime = None
             \/ ~cr.exists /\ cr'.exists
             \/ cr.exists /\ cr'.exists
                  /\ cr'.status.lastScaleTime = cr.status.lastScaleTime
      PROVE  CooldownInv'
  <2>1. /\ owed' \in [up : Optional(Time), down : Optional(Time)]
        /\ owed' = owed \/ owed' = Nothing
    BY <1>2, OwedShrinks DEF Acknowledged
  <2>2. cr.exists /\ ~cr'.exists => owed' = Nothing
    BY DEF Remember, Forgotten
  <2>3. ~cr'.exists => cr'.status.lastScaleTime = None
    BY <1>2 DEF CooldownInv
  <2> QED  BY <1>2, <2>1, <2>2, <2>3, CooldownFrame
<1>3. CASE SyncCR \/ SyncDeployment \/ SyncHPA \/ Tick
  BY <1>2, <1>3
  DEF SyncCR, SyncDeployment, SyncHPA, Tick, Restarted, crVars, runVars
<1>4. ASSUME NEW e \in Events \ {"crash"}, Spend(e) PROVE ~Restarted
  BY <1>4, SpendOne DEF Restarted, Events
<1>5. ASSUME NEW obj, StoreByOther(obj), UNCHANGED NotTheObject
      PROVE  UNCHANGED <<state, pc, plan, aas, crCache>> /\ cr' = obj
  BY <1>5 DEF StoreByOther, Store, NotTheObject
<1>6. cr \in ObjectType /\ cr.status \in StatusType
  BY DEF TypeOK, ObjectType
<1>7. CASE ToggleKillSwitch
  BY <1>2, <1>4, <1>5, <1>6, <1>7 DEF ToggleKillSwitch, Events, ObjectType
<1>8. CASE RequestReclassify
  BY <1>2, <1>4, <1>5, <1>6, <1>8 DEF RequestReclassify, Events, ObjectType
<1>9. CASE EditSpec
  BY <1>2, <1>4, <1>5, <1>6, <1>9 DEF EditSpec, Events, ObjectType
<1>10. CASE Classifier
  <2>1. ~Restarted
    BY <1>10, ClassifierBudget DEF Restarted
  <2>2. UNCHANGED <<state, pc, plan, aas, crCache>>
    BY <1>10 DEF Classifier, ClassifierWrite, ClassifierStrip, TakeSignal,
       StoreByClassifier, NotTheObject, crVars, runVars
  <2>3. \/ cr' = cr
        \/ cr.exists /\ cr'.exists
             /\ cr'.status.lastScaleTime = cr.status.lastScaleTime
    BY <1>6, <1>10 DEF Classifier, ClassifierWrite, ClassifierStrip, TakeSignal,
       StoreByClassifier, crVars, ObjectType, StatusType
  <2> QED  BY <1>2, <2>1, <2>2, <2>3
<1>11. CASE DeleteCR
  <2>1. ~Restarted
    BY <1>4, <1>11 DEF DeleteCR, Events, Restarted
  <2>2. ~Absent.exists /\ Absent.status.lastScaleTime = None
    BY DEF Absent, NewObject, EmptyStatus
  <2> QED  BY <1>2, <1>5, <1>6, <1>11, <2>1, <2>2 DEF DeleteCR, ObjectType
<1>12. CASE CreateCR
  BY <1>2, <1>4, <1>5, <1>12 DEF CreateCR, Events, NewObject
<1>13. CASE ChangeHPAs \/ HumanScale \/ Rollout
  BY <1>2, <1>4, <1>13
  DEF ChangeHPAs, HumanScale, Rollout, Events, crVars, runVars
<1> QED  BY <1>1, <1>3, <1>7, <1>8, <1>9, <1>10, <1>11, <1>12, <1>13 DEF Others

LEMMA CooldownInit == HInit => CooldownInv
BY DEF HInit, Init, CooldownInv, Nothing, FreshState, Remembers, CoversOwed, Covers,
       NewObject, Optional

LEMMA CooldownNext == TypeOK /\ CooldownInv /\ [HNext]_hvars => CooldownInv'
<1>1. CooldownInv /\ UNCHANGED hvars => CooldownInv'
  BY DEF CooldownInv, hvars, vars, crVars, runVars, Remembers, CoversOwed, Covers,
         LastOf, PlanCooldown, Elapsed
<1> QED  BY <1>1, CooldownReconcile, CooldownOutside DEF HNext, Next, Own

LEMMA CooldownEnough == CooldownInv /\ TypeOK => CooldownHonoured
<1> SUFFICES ASSUME CooldownInv, TypeOK, pc = "scale", plan.target >= 0
             PROVE  Elapsed(plan.at, LastOf(owed), PlanCooldown)
  BY DEF CooldownHonoured
<1>1. /\ plan \in PlanType /\ plan.at \in Nat
      /\ plan.cooldownUp \in Nat /\ plan.cooldownDown \in Nat
  BY DEF TypeOK, PlanType, Time, Nat32
<1>2. PlanCooldown \in Nat
  BY <1>1 DEF PlanCooldown
<1>3. /\ Elapsed(plan.at, LastOf([up |-> state.lastScaleUp, down |-> state.lastScaleDown]),
                 PlanCooldown)
      /\ CoversOwed(state.lastScaleUp, state.lastScaleDown)
  BY DEF CooldownInv
<1>4. /\ state.lastScaleUp \in Optional(Nat) /\ state.lastScaleDown \in Optional(Nat)
      /\ owed.up \in Optional(Nat) /\ owed.down \in Optional(Nat)
  BY DEF TypeOK, StateType, CooldownInv, Time
<1> HIDE DEF PlanCooldown
<1> QED  BY <1>1, <1>2, <1>3, <1>4 DEF LastOf, Elapsed, CoversOwed, Covers, Optional

\* Cooldowns survive everything the controller can remember: in every
\* execution, a scale request is only sent after the cooldown since the last
\* acknowledged scale in its direction, restarts included.
THEOREM CooldownAlways == HSpec => []CooldownHonoured
<1>1. HSpec => [](TypeOK /\ CooldownInv)
  BY HInitType, HNextType, CooldownInit, CooldownNext, PTL DEF HSpec
<1> QED  BY <1>1, CooldownEnough, PTL

-----------------------------------------------------------------------------
(* Pauses: kill-switch, deletion, conflicting HPA. *)

\* A step that sends nothing keeps LateInv unless it starts a reconcile that
\* goes on to scale, and Proceed only does so with no reason to pause.
LEMMA LateFrame ==
    ASSUME LateInv, Remember, ~Sent,
           pc' \in {"observe", "scale"} =>
             pc \in {"observe", "scale"} \/ ~Paused
    PROVE  LateInv'
<1>1. late' = IF ~Paused' THEN 0 ELSE late
  BY DEF Remember
<1> QED  BY <1>1 DEF LateInv

LEMMA LateNext == TypeOK /\ LateInv /\ [HNext]_hvars => LateInv'
<1> SUFFICES ASSUME TypeOK, LateInv, [HNext]_hvars PROVE LateInv'
  OBVIOUS
<1>1. CASE UNCHANGED hvars
  BY <1>1 DEF LateInv, Paused, hvars, vars, crVars, hpaVars, runVars
<1>2. CASE ScaleAccepted /\ Remember
  <2>1. pc = "scale" /\ pc' = "status"
    BY <1>2 DEF ScaleAccepted
  <2> QED  BY <1>2, <2>1 DEF LateInv, Remember
<1>3. CASE ScaleUnanswered /\ Remember
  <2>1. pc = "scale" /\ pc' = "idle"
    BY <1>3 DEF ScaleUnanswered, Return
  <2> QED  BY <1>3, <2>1 DEF LateInv, Remember
<1>4. ASSUME Remember, pc # "scale",
             pc' \in {"observe", "scale"} => pc \in {"observe", "scale"} \/ ~Paused
      PROVE  LateInv'
  <2>1. ~Sent
    BY <1>4 DEF Sent, Acknowledged
  <2> QED  BY <1>4, <2>1, LateFrame
<1>5. ASSUME Remember, pc' = pc, budget'["lost"] = budget["lost"]
      PROVE  LateInv'
  <2>1. ~Sent
    BY <1>5 DEF Sent, Acknowledged
  <2> QED  BY <1>5, <2>1, LateFrame
<1>6. ASSUME NEW e \in Events \ {"lost"}, Spend(e)
      PROVE  budget'["lost"] = budget["lost"]
  BY <1>6, SpendOne DEF Events
<1>7. CASE Begin /\ Remember
  <2>1. pc = "idle" /\ (KillSwitched \/ BeingDeleted \/ Conflicting \/ Proceed)
        /\ crCache.exists
    BY <1>7 DEF Begin
  <2>2. pc' \in {"observe", "scale"} => ~Paused
    BY <2>1 DEF KillSwitched, BeingDeleted, Conflicting, Proceed, Start, runVars, Paused
  <2> QED  BY <1>4, <1>7, <2>1, <2>2
<1>8. CASE (\/ BeginNotFound \/ ListHPAsFailed \/ UpdatePhase \/ InputUnavailable
            \/ UpdateStatus \/ StatusWriteFailed) /\ Remember
  BY <1>4, <1>8
  DEF BeginNotFound, ListHPAsFailed, UpdatePhase, InputUnavailable, UpdateStatus,
      StatusWriteFailed, Return, runVars
<1>9. ASSUME NEW rps \in CurrentRates, NEW predicted \in Forecasts,
             Decide(rps, predicted), Remember
      PROVE  LateInv'
  BY <1>4, <1>9 DEF Decide
<1>10. CASE (ScaleFailed \/ Crash) /\ Remember
  <2>1. pc' = "idle" /\ budget'["lost"] = budget["lost"]
    BY <1>6, <1>10 DEF ScaleFailed, Crash, Return, Events
  <2>2. ~Sent
    BY <2>1 DEF Sent, Acknowledged
  <2> QED  BY <1>10, <2>1, <2>2, LateFrame
<1>11. CASE (SyncCR \/ SyncDeployment \/ SyncHPA \/ Tick) /\ Remember
  BY <1>5, <1>11 DEF SyncCR, SyncDeployment, SyncHPA, Tick, runVars
<1>12. CASE Others /\ Remember
  <2>1. pc' = pc
    BY <1>12 DEF Others, ToggleKillSwitch, RequestReclassify, EditSpec,
       DeleteCR, CreateCR, ChangeHPAs, HumanScale, Rollout, NotTheObject, runVars
  <2>2. budget'["lost"] = budget["lost"]
    BY <1>6, <1>12 DEF Others, ToggleKillSwitch, RequestReclassify, EditSpec,
       DeleteCR, CreateCR, ChangeHPAs, HumanScale, Rollout, Events
  <2> QED  BY <1>5, <1>12, <2>1, <2>2
<1>13. CASE Classifier /\ Remember
  <2>1. pc' = pc
    BY <1>13 DEF Classifier, ClassifierWrite, ClassifierStrip, TakeSignal,
       NotTheObject, runVars
  <2> QED  BY <1>5, <1>13, <2>1, ClassifierBudget
<1> QED  BY <1>1, <1>2, <1>3, <1>7, <1>8, <1>9, <1>10, <1>11, <1>12, <1>13
         DEF HNext, Next, Own, Reconcile

\* However long the caches show a kill-switch, a deletion or a conflicting
\* HPA, at most one scale request is sent meanwhile.
THEOREM PauseAlways == HSpec => []AtMostOneLatePatch
<1>1. HInit => LateInv
  BY DEF HInit, Init, LateInv
<1>2. LateInv => AtMostOneLatePatch
  BY DEF LateInv, AtMostOneLatePatch
<1> QED  BY <1>1, <1>2, HInitType, HNextType, LateNext, PTL DEF HSpec

-----------------------------------------------------------------------------
(* Concurrent writers of status. *)

\* The reconciler writes back the classification of the copy it read, and
\* the API server only accepts that while the live one is the same.
LEMMA FreshNext == TypeOK /\ FreshInv /\ [HNext]_hvars => FreshInv'
<1> SUFFICES ASSUME TypeOK, FreshInv, [HNext]_hvars PROVE FreshInv'
  OBVIOUS
<1>1. CASE UNCHANGED hvars
  BY <1>1 DEF FreshInv, hvars, vars, crVars, runVars
<1>2. CASE Begin
  <2>1. UNCHANGED crVars /\ pc = "idle"
    BY <1>2 DEF Begin
  <2>2. ASSUME NEW label, NEW st, Start(label, st),
               st.classifiedParams = crCache.status.classifiedParams
        PROVE  FreshInv'
    <3>1. aas'.status.classifiedParams = crCache.status.classifiedParams
      BY <2>2 DEF Start, TypeOK, ObjectType
    <3> QED  BY <2>1, <2>2, <3>1 DEF FreshInv, Start, crVars
  <2>3. ASSUME UNCHANGED runVars PROVE FreshInv'
    BY <2>1, <2>3 DEF FreshInv, crVars, runVars
  <2>4. crCache.status \in StatusType
    BY DEF TypeOK, ObjectType
  <2>5. /\ [crCache.status EXCEPT !.phase = "Disabled"].classifiedParams
             = crCache.status.classifiedParams
        /\ \A hpa : [crCache.status EXCEPT !.phase = "Conflict",
                        !.conflictReason = hpa].classifiedParams
                    = crCache.status.classifiedParams
    BY <2>4 DEF StatusType
  <2> QED  BY <1>2, <2>2, <2>3, <2>5
           DEF Begin, KillSwitched, BeingDeleted, Conflicting, Proceed
<1>3. ASSUME pc' = "idle", \/ UNCHANGED crVars
                           \/ \E obj : Store(obj)
      PROVE  FreshInv'
  <2>1. CASE UNCHANGED crVars
    BY <1>3, <2>1 DEF FreshInv, crVars
  <2>2. ASSUME NEW obj, Store(obj) PROVE FreshInv'
    BY <1>3, <2>2 DEF FreshInv, Store, TypeOK
  <2> QED  BY <1>3, <2>1, <2>2
<1>4. CASE BeginNotFound \/ ListHPAsFailed
  BY <1>4 DEF BeginNotFound, ListHPAsFailed, FreshInv, crVars, runVars
<1>5. CASE UpdatePhase \/ UpdateStatus
  BY <1>3, <1>5 DEF UpdatePhase, UpdateStatus, Return
<1>6. CASE InputUnavailable \/ ScaleFailed \/ ScaleUnanswered \/ StatusWriteFailed
  BY <1>3, <1>6
  DEF InputUnavailable, ScaleFailed, ScaleUnanswered, StatusWriteFailed, Return
<1>7. ASSUME NEW rps \in CurrentRates, NEW predicted \in Forecasts,
             Decide(rps, predicted)
      PROVE  FreshInv'
  BY <1>7 DEF Decide, FreshInv, crVars
<1>8. CASE ScaleAccepted
  BY <1>8 DEF ScaleAccepted, FreshInv, crVars
<1>9. CASE SyncCR \/ SyncDeployment \/ SyncHPA \/ Tick \/ Crash
  BY <1>9 DEF SyncCR, SyncDeployment, SyncHPA, Tick, Crash, FreshInv, crVars, runVars
<1>10. CASE Others
  <2>1. ASSUME NEW obj, StoreByOther(obj), UNCHANGED NotTheObject
        PROVE  FreshInv'
    BY <2>1 DEF StoreByOther, Store, NotTheObject, FreshInv
  <2>2. CASE ChangeHPAs \/ HumanScale \/ Rollout
    BY <2>2 DEF ChangeHPAs, HumanScale, Rollout, FreshInv, crVars, runVars
  <2> QED  BY <1>10, <2>1, <2>2
           DEF Others, ToggleKillSwitch, RequestReclassify, EditSpec,
               DeleteCR, CreateCR
<1>11. CASE Classifier
  <2>1. ASSUME NEW obj, NEW bumped \in BOOLEAN, StoreByClassifier(obj, bumped),
               UNCHANGED NotTheObject
        PROVE  FreshInv'
    BY <2>1 DEF StoreByClassifier, NotTheObject, FreshInv, TypeOK
  <2>2. CASE TakeSignal
    BY <2>2 DEF TakeSignal, FreshInv, crVars, runVars
  <2> QED  BY <1>11, <2>1, <2>2 DEF Classifier, ClassifierWrite, ClassifierStrip
<1> QED  BY <1>1, <1>2, <1>4, <1>5, <1>6, <1>7, <1>8, <1>9, <1>10, <1>11
         DEF HNext, Next, Own, Reconcile

\* The step that ends a status write leaves the classification as it is.
LEMMA ClassificationStep ==
    ASSUME TypeOK, FreshInv, [HNext]_hvars,
           pc = "phase" \/ pc = "status", pc' = "idle"
    PROVE  cr'.status.classifiedParams = cr.status.classifiedParams
<1>1. CASE UpdatePhase
  BY <1>1 DEF UpdatePhase, Store, crVars, UpdateAccepted, FreshInv, TypeOK, ObjectType
<1>2. CASE UpdateStatus
  <2>1. NewStatus.classifiedParams = aas.status.classifiedParams
    BY DEF NewStatus, StatusWith
  <2> QED  BY <1>2, <2>1
           DEF UpdateStatus, Store, crVars, UpdateAccepted, FreshInv, TypeOK, ObjectType
<1>3. CASE StatusWriteFailed \/ Crash
  BY <1>3 DEF StatusWriteFailed, Crash, crVars
<1>4. CASE BeginNotFound \/ Begin \/ ListHPAsFailed
  BY <1>4 DEF BeginNotFound, Begin, ListHPAsFailed
<1>5. CASE InputUnavailable \/ ScaleAccepted \/ ScaleFailed \/ ScaleUnanswered
  BY <1>5 DEF InputUnavailable, ScaleAccepted, ScaleFailed, ScaleUnanswered
<1>6. ASSUME NEW rps \in CurrentRates, NEW predicted \in Forecasts,
             Decide(rps, predicted)
      PROVE  FALSE
  BY <1>6 DEF Decide
<1>7. CASE SyncCR \/ SyncDeployment \/ SyncHPA \/ Tick
  BY <1>7 DEF SyncCR, SyncDeployment, SyncHPA, Tick, runVars
<1>8. CASE Others \/ Classifier
  BY <1>8 DEF Others, ToggleKillSwitch, RequestReclassify, EditSpec,
     DeleteCR, CreateCR, ChangeHPAs, HumanScale, Rollout, NotTheObject, runVars,
     Classifier, ClassifierWrite, ClassifierStrip, TakeSignal
<1>9. CASE UNCHANGED hvars
  BY <1>9 DEF hvars, vars, runVars
<1> QED  BY <1>1, <1>2, <1>3, <1>4, <1>5, <1>6, <1>7, <1>8, <1>9
         DEF HNext, Next, Own, Reconcile

\* In every execution, a status write of the reconciler keeps whatever the
\* classifier stored while that reconcile was running.
THEOREM ClassificationAlways == HSpec => ClassificationKept
<1>1. HInit => FreshInv
  BY DEF HInit, Init, FreshInv
<1>2. TypeOK /\ FreshInv /\ [HNext]_hvars =>
        [ (pc = "phase" \/ pc = "status") /\ pc' = "idle" =>
            cr'.status.classifiedParams = cr.status.classifiedParams ]_hvars
  BY ClassificationStep
<1> QED  BY <1>1, <1>2, HInitType, HNextType, FreshNext, PTL DEF HSpec, ClassificationKept

-----------------------------------------------------------------------------
(* The steady-state gate, under GateBounds. *)

\* The outside events that would disturb the gate have no budget left, and
\* spending another event gives them none.
LEMMA UndisturbedSpend ==
    ASSUME TypeOK, UndisturbedInv, NEW e \in Events, Spend(e)
    PROVE  /\ e \notin {"human", "lost", "delete"}
           /\ budget'["human"] = 0 /\ budget'["lost"] = 0 /\ budget'["delete"] = 0
<1>1. e \notin {"human", "lost", "delete"}
  BY DEF UndisturbedInv, Spend
<1> QED  BY <1>1, SpendOne DEF UndisturbedInv, Events

\* Every other writer of the object leaves it there and unmarked.
LEMMA UndisturbedNext ==
    ASSUME TypeOK, UndisturbedInv, Next PROVE UndisturbedInv'
<1> DEFINE Calm == budget'["human"] = 0 /\ budget'["lost"] = 0 /\ budget'["delete"] = 0
<1>1. budget' = budget => Calm
  BY DEF UndisturbedInv
<1>2. \A e \in Events : Spend(e) => e \notin {"human", "lost", "delete"} /\ Calm
  BY UndisturbedSpend
<1>3. cr \in ObjectType /\ crCache \in ObjectType
  BY DEF TypeOK
<1> HIDE DEF Calm
<1>4. ASSUME Calm, cr'.exists, ~cr'.deleting, crCache' = crCache \/ crCache' = cr
      PROVE  UndisturbedInv'
  BY <1>4 DEF UndisturbedInv, Calm
<1>5. ASSUME Calm, UNCHANGED crVars PROVE UndisturbedInv'
  BY <1>4, <1>5 DEF crVars, UndisturbedInv
<1>6. ASSUME NEW obj, Store(obj), Calm, obj.exists, ~obj.deleting
      PROVE  UndisturbedInv'
  BY <1>4, <1>6 DEF Store
<1>7. CASE Reconcile
  <2>1. ASSUME NEW st PROVE /\ [cr EXCEPT !.status = st].exists
                            /\ ~[cr EXCEPT !.status = st].deleting
    BY <1>3 DEF ObjectType, UndisturbedInv
  <2>2. CASE UpdatePhase
    BY <1>1, <1>5, <1>6, <2>1, <2>2 DEF UpdatePhase
  <2>3. CASE UpdateStatus
    BY <1>1, <1>5, <1>6, <2>1, <2>3 DEF UpdateStatus
  <2>4. ASSUME NEW rps \in CurrentRates, NEW predicted \in Forecasts,
               Decide(rps, predicted)
        PROVE  UndisturbedInv'
    BY <1>1, <1>5, <2>4 DEF Decide
  <2> QED  BY <1>1, <1>2, <1>5, <1>7, <2>2, <2>3, <2>4
           DEF Reconcile, BeginNotFound, Begin, ListHPAsFailed, InputUnavailable,
               ScaleAccepted, ScaleFailed, ScaleUnanswered, StatusWriteFailed, Events
<1>8. CASE SyncCR
  BY <1>1, <1>4, <1>8 DEF SyncCR, UndisturbedInv
<1>9. CASE Crash
  BY <1>2, <1>4, <1>9 DEF Crash, UndisturbedInv, Events
<1>10. CASE SyncDeployment \/ SyncHPA \/ Tick
  BY <1>1, <1>5, <1>10 DEF SyncDeployment, SyncHPA, Tick
<1>11. CASE Others
  <2>1. CASE ToggleKillSwitch
    BY <1>2, <1>3, <1>6, <2>1
    DEF ToggleKillSwitch, StoreByOther, ObjectType, UndisturbedInv, Events
  <2>2. CASE RequestReclassify
    BY <1>2, <1>3, <1>6, <2>2
    DEF RequestReclassify, StoreByOther, ObjectType, UndisturbedInv, Events
  <2>3. CASE EditSpec
    BY <1>2, <1>3, <1>6, <2>3
    DEF EditSpec, StoreByOther, ObjectType, UndisturbedInv, Events
  <2>4. ~DeleteCR /\ ~CreateCR
    BY <1>2 DEF DeleteCR, CreateCR, UndisturbedInv, Events
  <2> QED  BY <1>2, <1>5, <1>11, <2>1, <2>2, <2>3, <2>4
           DEF Others, ChangeHPAs, HumanScale, Rollout, Events
<1>12. CASE Classifier
  <2>1. Calm
    BY <1>1, <1>2, <1>12 DEF Classifier, ClassifierWrite, ClassifierStrip, TakeSignal,
       ClassifierMaySpend, Events
  <2>2. cr'.exists /\ ~cr'.deleting /\ crCache' = crCache
    BY <1>3, <1>12 DEF Classifier, ClassifierWrite, ClassifierStrip, TakeSignal,
       StoreByClassifier, crVars, ObjectType, UndisturbedInv
  <2> QED  BY <1>4, <2>1, <2>2
<1> QED  BY <1>7, <1>8, <1>9, <1>10, <1>11, <1>12 DEF Next, Own

\* A step that moves neither time, replica counts nor clocks backwards.
LEMMA StaleFrame ==
    ASSUME StaleInv, UNCHANGED <<now, deployLag>>,
           deployCache'.replicas = deployCache.replicas,
           deployment'.replicas = deployment.replicas,
           state'.lastScaleUp = state.lastScaleUp,
           state'.lastScaleDown = state.lastScaleDown,
           state.initialized => state'.initialized,
           pc' \in {"scale", "status"} => pc' = pc /\ plan' = plan
    PROVE  StaleInv'
BY DEF StaleInv, LastScale, LaterOf

\* A decision leaves the clocks in memory alone, and while the cache is
\* behind they are in memory.
LEMMA StaleDecide ==
    ASSUME TypeOK, GateBounds, StaleInv, NEW rps \in CurrentRates,
           NEW predicted \in Forecasts, Decide(rps, predicted)
    PROVE  /\ StaleInv'
           /\ deployCache.replicas # deployment.replicas =>
                state'.observations = state.observations
<1> DEFINE r == Recovered(aas)
<1>1. r \in StateType /\ r.initialized
  BY RecoveredType DEF TypeOK
<1>2. state' = Observe(r, rps, deployCache.replicas, now, Interval, NoiseFloor)
  BY DEF Decide
<1>3. /\ rps \in Nat /\ deployCache.replicas \in Int32 /\ now \in Time
      /\ Interval \in Nat /\ NoiseFloor \in Nat
  BY DEF TypeOK, DeploymentType, Nat32, Int32, MinInt32
<1>4. state.initialized => r = state
  BY DEF Recovered
<1> HIDE DEF r
<1>5. /\ state'.initialized
      /\ state'.lastScaleUp = r.lastScaleUp /\ state'.lastScaleDown = r.lastScaleDown
  BY <1>1, <1>2, <1>3, ObserveType
<1>6. UNCHANGED <<now, deployVars>>
  BY DEF Decide
<1>7. plan'.at = now
  BY DEF Decide, PlanFor
<1>8. now - now = 0 /\ 0 <= RequestTime /\ now <= now
  BY DEF TypeOK, Time, GateBounds
<1>9. StaleInv'
  <2>1. deployLag' <= InformerLag
    BY <1>6 DEF StaleInv, deployVars
  <2>2. plan'.at <= now' /\ now' - plan'.at <= RequestTime
    BY <1>6, <1>7, <1>8
  <2>3. (deployCache.replicas # deployment.replicas =>
           /\ state.initialized /\ LastScale # None
           /\ now - LastScale <= deployLag + RequestTime)'
    BY <1>4, <1>5, <1>6 DEF StaleInv, LastScale, LaterOf, deployVars
  <2> QED  BY <2>1, <2>2, <2>3 DEF StaleInv
<1>10. ASSUME deployCache.replicas # deployment.replicas
       PROVE  state'.observations = state.observations
  <2>1. /\ state.initialized /\ LastScale # None
        /\ now - LastScale <= deployLag + RequestTime /\ deployLag <= InformerLag
    BY <1>10 DEF StaleInv
  <2>2. LastScale \in Nat
    BY <2>1 DEF TypeOK, StateType, LastScale, LaterOf, Optional, Time
  <2>3. ~Elapsed(now, LastScale, 2 * Interval)
    BY <2>1, <2>2 DEF Elapsed, GateBounds, TypeOK, Time
  <2> QED  BY <1>2, <1>4, <2>1, <2>3
           DEF Observe, ShouldUpdateRpsPerPodWithFloor, LastScale
<1> QED  BY <1>9, <1>10

\* The acknowledged scale: the clock it sets is no older than a request may
\* be, so the cache may be behind from now on.
LEMMA StaleAccepted ==
    ASSUME TypeOK, GateBounds, CooldownInv, StaleInv, ScaleAccepted PROVE StaleInv'
<1>1. /\ plan \in PlanType /\ plan.at \in Nat
      /\ state \in StateType /\ state.initialized /\ now \in Nat /\ deployLag \in Nat
  BY DEF ScaleAccepted, TypeOK, CooldownInv, PlanType, Time
<1>2. /\ state.lastScaleUp \in Nat \cup {None} /\ state.lastScaleDown \in Nat \cup {None}
  BY <1>1 DEF StateType, Optional, Time
<1>3. /\ state'.initialized
      /\ \/ /\ state'.lastScaleUp = plan.at
            /\ state'.lastScaleDown = state.lastScaleDown
         \/ /\ state'.lastScaleUp = state.lastScaleUp
            /\ state'.lastScaleDown = plan.at
  BY <1>1 DEF ScaleAccepted, StampScale, StateType
<1>4. LastScale' \in Nat /\ LastScale' >= plan.at
  BY <1>1, <1>2, <1>3 DEF LastScale, LaterOf
<1>5. UNCHANGED <<now, deployLag, plan>>
  BY DEF ScaleAccepted
<1>6. now - plan.at <= RequestTime /\ plan.at <= now /\ deployLag <= InformerLag
  BY DEF StaleInv, ScaleAccepted
<1>7. LastScale' # None /\ now' - LastScale' <= deployLag' + RequestTime
  <2>1. PICK l \in Nat : LastScale' = l /\ l >= plan.at
    BY <1>4
  <2>2. l # None /\ now - l <= deployLag + RequestTime
    BY <1>1, <1>6, <2>1 DEF GateBounds
  <2> QED  BY <1>5, <2>1, <2>2
<1> QED  BY <1>3, <1>5, <1>6, <1>7 DEF StaleInv

LEMMA StaleNext ==
    ASSUME TypeOK, GateBounds, CooldownInv, UndisturbedInv, StaleInv, Next
    PROVE  StaleInv'
<1>1. ASSUME UNCHANGED <<now, deployVars, state>>,
             pc' \in {"scale", "status"} => pc' = pc /\ plan' = plan
      PROVE  StaleInv'
  BY <1>1, StaleFrame DEF deployVars
<1>2. \A e \in Events : Spend(e) => e \notin {"human", "lost", "delete"}
  BY UndisturbedSpend
<1>3. CASE Reconcile
  <2>1. ~BeginNotFound /\ ~ScaleUnanswered
    BY <1>2 DEF BeginNotFound, ScaleUnanswered, UndisturbedInv, Events
  <2>2. ASSUME NEW rps \in CurrentRates, NEW predicted \in Forecasts,
               Decide(rps, predicted)
        PROVE  StaleInv'
    BY <2>2, StaleDecide
  <2>3. CASE Begin
    BY <1>1, <2>3 DEF Begin, KillSwitched, BeingDeleted, Conflicting, Proceed, Start, runVars
  <2>4. CASE ListHPAsFailed
    BY <1>1, <2>4 DEF ListHPAsFailed, runVars
  <2>5. CASE ScaleAccepted
    BY <2>5, StaleAccepted
  <2> QED  BY <1>1, <1>3, <2>1, <2>2, <2>3, <2>4, <2>5
           DEF Reconcile, UpdatePhase, InputUnavailable, ScaleFailed, UpdateStatus,
               StatusWriteFailed, Return
<1>4. CASE SyncCR \/ SyncHPA
  BY <1>1, <1>4 DEF SyncCR, SyncHPA, runVars
<1>5. CASE SyncDeployment
  <2>1. deployLag' = 0 /\ deployCache' = deployment' /\ UNCHANGED <<now, pc, plan>>
    BY <1>5 DEF SyncDeployment, runVars
  <2> QED  BY <2>1 DEF StaleInv, GateBounds
<1>6. CASE Crash
  <2>1. deployLag' = 0 /\ deployCache' = deployment' /\ pc' = "idle"
    BY <1>6 DEF Crash
  <2> QED  BY <2>1 DEF StaleInv, GateBounds
<1>7. CASE Tick
  <2>1. /\ now' = now + 1 /\ UNCHANGED <<deployment, deployCache, state, pc, plan>>
        /\ deployLag' = IF Lagging THEN deployLag + 1 ELSE 0
        /\ Lagging => deployLag < InformerLag
    BY <1>7 DEF Tick, runVars
  <2>2. InformerLag # None /\ RequestTime # None
    BY DEF GateBounds
  <2>3. now \in Nat /\ deployLag \in Nat /\ InformerLag \in Nat /\ RequestTime \in Nat
    BY DEF TypeOK, Time, GateBounds
  <2>4. deployLag' <= InformerLag
    BY <2>1, <2>3
  <2>5. pc' \in {"scale", "status"} =>
          plan'.at <= now' /\ now' - plan'.at <= RequestTime
    <3>1. pc \in {"scale", "status"} =>
            plan.at \in Nat /\ plan.at <= now /\ now - plan.at < RequestTime
      BY <1>7, <2>2 DEF Tick, StaleInv, TypeOK, PlanType, Time
    <3> QED  BY <2>1, <2>3, <3>1
  <2>6. ASSUME deployCache.replicas # deployment.replicas
        PROVE  /\ state'.initialized /\ LastScale' # None
               /\ now' - LastScale' <= deployLag' + RequestTime
    <3>1. Lagging
      BY <2>2, <2>6 DEF Lagging
    <3>2. /\ state.initialized /\ LastScale # None
          /\ now - LastScale <= deployLag + RequestTime
      BY <2>6 DEF StaleInv
    <3>3. LastScale \in Nat /\ LastScale' = LastScale
      BY <2>1, <3>2 DEF TypeOK, StateType, LastScale, LaterOf, Optional, Time
    <3> QED  BY <2>1, <2>3, <3>1, <3>2, <3>3
  <2> QED  BY <2>1, <2>4, <2>5, <2>6 DEF StaleInv
<1>8. CASE Others
  <2>1. ~DeleteCR /\ ~CreateCR /\ ~HumanScale
    BY <1>2 DEF DeleteCR, CreateCR, HumanScale, UndisturbedInv, Events
  <2>2. CASE Rollout
    <3>1. deployment'.replicas = deployment.replicas
      BY <2>2 DEF Rollout, TypeOK, DeploymentType
    <3> QED  BY <2>2, <3>1, StaleFrame DEF Rollout, runVars
  <2> QED  BY <1>1, <1>8, <2>1, <2>2
           DEF Others, ToggleKillSwitch, RequestReclassify, EditSpec, ChangeHPAs,
               NotTheObject, runVars
<1>9. CASE Classifier
  BY <1>1, <1>9 DEF Classifier, ClassifierWrite, ClassifierStrip, TakeSignal,
     NotTheObject, runVars
<1> QED  BY <1>3, <1>4, <1>5, <1>6, <1>7, <1>8, <1>9 DEF Next, Own

\* Only a decision takes an observation.
LEMMA GateStep ==
    ASSUME TypeOK, GateBounds, StaleInv, Next, state'.initialized,
           state'.observations # state.observations
    PROVE  deployCache.replicas = deployment.replicas
<1>1. ASSUME NEW rps \in CurrentRates, NEW predicted \in Forecasts,
             Decide(rps, predicted)
      PROVE  deployCache.replicas = deployment.replicas
  BY <1>1, StaleDecide
<1>2. ~BeginNotFound /\ ~Crash
  BY DEF BeginNotFound, Crash, FreshState
<1>3. ~ScaleAccepted
  BY DEF ScaleAccepted, StampScale, TypeOK, StateType
<1>4. state' # state
  OBVIOUS
<1>5. CASE Reconcile
  BY <1>1, <1>2, <1>3, <1>4, <1>5
  DEF Reconcile, Begin, ListHPAsFailed, UpdatePhase, InputUnavailable, ScaleFailed,
      ScaleUnanswered, UpdateStatus, StatusWriteFailed
<1>6. ~(SyncCR \/ SyncDeployment \/ SyncHPA \/ Tick \/ Others \/ Classifier)
  BY <1>4 DEF SyncCR, SyncDeployment, SyncHPA, Tick, Others, ToggleKillSwitch,
     RequestReclassify, EditSpec, DeleteCR, CreateCR, ChangeHPAs, HumanScale, Rollout,
     Classifier, ClassifierWrite, ClassifierStrip, TakeSignal, NotTheObject
<1> QED  BY <1>2, <1>5, <1>6 DEF Next, Own

\* The estimator never divides by a replica count the Deployment no longer
\* has, through restarts, rollouts, failures and edits, as long as a scale
\* request and the cache's delay together take less than two intervals, the
\* Deployment is scaled by the controller alone, each scale is answered and
\* the object is not deleted.
THEOREM GateAlways == GateBounds /\ HSpec => ObservationsUseLiveReplicas
<1> DEFINE I == GateBounds /\ TypeOK /\ CooldownInv /\ GateInv
           A == state'.initialized /\ state'.observations # state.observations =>
                  deployCache.replicas = deployment.replicas
<1>1. GateBounds /\ HInit => I
  <2> SUFFICES ASSUME GateBounds, HInit PROVE I
    OBVIOUS
  <2>1. UndisturbedInv
    BY DEF HInit, Init, NewObject, UndisturbedInv, GateBounds
  <2>2. StaleInv
    BY DEF HInit, Init, StaleInv, GateBounds
  <2> QED  BY <2>1, <2>2, HInitType, CooldownInit DEF GateInv
<1>2. I /\ [HNext]_hvars => I'
  <2> SUFFICES ASSUME I, [HNext]_hvars PROVE I'
    OBVIOUS
  <2>1. TypeOK' /\ CooldownInv'
    BY HNextType, CooldownNext
  <2>2. UNCHANGED hvars => GateInv'
    BY DEF GateInv, UndisturbedInv, StaleInv, LastScale, LaterOf, hvars, vars, crVars,
       deployVars, runVars
  <2>3. HNext => GateInv'
    BY UndisturbedNext, StaleNext DEF HNext, GateInv
  <2> QED  BY <2>1, <2>2, <2>3
<1>3. I /\ [HNext]_hvars => [A]_hvars
  BY GateStep DEF HNext, GateInv
<1> HIDE DEF I
<1> QED  BY <1>1, <1>2, <1>3, PTL DEF HSpec, ObservationsUseLiveReplicas
=============================================================================
