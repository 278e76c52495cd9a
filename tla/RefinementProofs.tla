-------------------------- MODULE RefinementProofs --------------------------
(***************************************************************************)
(* The reconciler implements ScalingContract, for every value of the       *)
(* constants: the initial states are the contract's, and every step is one *)
(* of the contract's or changes nothing it speaks of.                      *)
(***************************************************************************)
EXTENDS HistoryProofs

USE NumbersAssumption, NoneAssumption, RevisionAssumption, InputsAssumption

-----------------------------------------------------------------------------
(* Scale times never run ahead of the clock, and never go back. *)

LEMMA TruncateMonotone ==
    ASSUME NEW t \in Nat, NEW u \in Nat, t <= u
    PROVE  /\ TruncateToSecond(t) \in Nat /\ TruncateToSecond(t) <= t
           /\ TruncateToSecond(t) <= TruncateToSecond(u)
<1> DEFINE T == TicksPerSecond
           p == t \div T
           q == u \div T
<1>1. T \in Nat /\ T > 0
  OBVIOUS
<1> HIDE DEF T
<1>2. /\ p \in Nat /\ t % T \in 0 .. T - 1 /\ t = T * p + (t % T)
      /\ q \in Nat /\ u % T \in 0 .. T - 1 /\ u = T * q + (u % T)
  BY <1>1
<1>3. TruncateToSecond(t) = t - (t % T) /\ TruncateToSecond(u) = u - (u % T)
  BY DEF TruncateToSecond, T
<1> HIDE DEF p, q
<1>4. TruncateToSecond(t) = T * p /\ TruncateToSecond(u) = T * q
  BY <1>1, <1>2, <1>3
<1>5. T * p < T * (q + 1)
  BY <1>1, <1>2
<1>6. p <= q
  BY <1>1, <1>2, <1>5
<1>7. T * p <= T * q /\ T * p \in Nat
  BY <1>1, <1>2, <1>6
<1> QED  BY <1>1, <1>2, <1>4, <1>7

LEMMA AbsentTime == Absent.status.lastScaleTime = None /\ Absent.exists = FALSE
BY DEF Absent, NewObject, EmptyStatus

LEMMA ReachedLater ==
    ASSUME NEW t \in Nat, NEW u \in Nat, t <= u,
           NEW obj \in ObjectType, ReachedBy(t, obj)
    PROVE  ReachedBy(u, obj)
<1>1. obj.status.lastScaleTime \in Optional(Nat)
  BY DEF ObjectType, StatusType, Time
<1>2. /\ TruncateToSecond(t) \in Nat /\ TruncateToSecond(u) \in Nat
      /\ TruncateToSecond(t) <= TruncateToSecond(u)
  BY TruncateMonotone
<1> QED  BY <1>1, <1>2 DEF ReachedBy, Optional

\* A step that makes no plan.
LEMMA PublishFrame ==
    ASSUME PublishInv, TypeOK, TypeOK', now' \in {now, now + 1},
           ReachedBy(now, cr'), ReachedBy(now, crCache'), ReachedBy(now, aas'),
           pc' \in {"scale", "status"} =>
             pc \in {"scale", "status"} /\ UNCHANGED <<plan, aas>>,
           pc' # "idle" /\ aasFresh' =>
             aas'.status.lastScaleTime = cr'.status.lastScaleTime
    PROVE  PublishInv'
<1>1. now \in Nat /\ now' \in Nat /\ now <= now'
  BY DEF TypeOK, Time
<1>2. cr' \in ObjectType /\ crCache' \in ObjectType /\ aas' \in ObjectType
  BY DEF TypeOK
<1>3. ReachedBy(now', cr') /\ ReachedBy(now', crCache') /\ ReachedBy(now', aas')
  BY <1>1, <1>2, ReachedLater
<1>4. ASSUME pc' \in {"scale", "status"}
      PROVE  plan'.at <= now' /\ ReachedBy(plan'.at, aas')
  <2>1. plan' = plan /\ aas' = aas /\ plan.at <= now /\ ReachedBy(plan.at, aas)
    BY <1>4 DEF PublishInv
  <2>2. plan.at \in Nat
    BY <1>4 DEF TypeOK, PlanType, Time
  <2> QED  BY <1>1, <2>1, <2>2
<1> QED  BY <1>3, <1>4 DEF PublishInv

LEMMA PublishNext ==
    TypeOK /\ CacheInv /\ PublishInv /\ [Next]_vars => PublishInv'
<1> SUFFICES ASSUME TypeOK, CacheInv, PublishInv, [Next]_vars PROVE PublishInv'
  OBVIOUS
<1>t. TypeOK'
  BY NextType
<1>o. cr \in ObjectType /\ crCache \in ObjectType /\ aas \in ObjectType /\ now \in Nat
  BY DEF TypeOK, Time
<1>a. ReachedBy(now, Absent)
  BY AbsentTime DEF ReachedBy
<1>i. ReachedBy(now, cr) /\ ReachedBy(now, crCache) /\ ReachedBy(now, aas)
  BY DEF PublishInv
<1>1. ASSUME now' \in {now, now + 1}, UNCHANGED crVars,
             \/ UNCHANGED <<aas, aasFresh, plan>>
                /\ (pc' = pc \/ (pc = "scale" /\ pc' = "status"))
             \/ Return(TRUE)
      PROVE  PublishInv'
  <2>1. ReachedBy(now, cr') /\ ReachedBy(now, crCache') /\ ReachedBy(now, aas')
    BY <1>1, <1>a, <1>i DEF crVars, Return
  <2>2. pc' \in {"scale", "status"} =>
          pc \in {"scale", "status"} /\ UNCHANGED <<plan, aas>>
    BY <1>1 DEF Return
  <2>3. pc' # "idle" /\ aasFresh' => aas'.status.lastScaleTime = cr'.status.lastScaleTime
    BY <1>1 DEF Return, crVars, PublishInv
  <2> QED  BY <1>1, <1>t, <2>1, <2>2, <2>3, PublishFrame
\* The reconciler stores a status.
<1>2. ASSUME now' = now, NEW st, Store([cr EXCEPT !.status = st]), Return(TRUE),
             ReachedBy(now, [cr EXCEPT !.status = st])
      PROVE  PublishInv'
  <2>1. ReachedBy(now, cr') /\ ReachedBy(now, crCache') /\ ReachedBy(now, aas')
    BY <1>2, <1>a, <1>i DEF Store, Return
  <2>2. pc' = "idle"
    BY <1>2 DEF Return
  <2> QED  BY <1>2, <1>t, <2>1, <2>2, PublishFrame
\* Somebody else stores an object with the live scale time, or without one.
<1>3. ASSUME now' = now, UNCHANGED <<pc, aas, plan, crCache>>, NEW obj, cr' = obj,
             obj.status.lastScaleTime \in {cr.status.lastScaleTime, None},
             aasFresh' => aasFresh /\ obj = cr
      PROVE  PublishInv'
  <2>1. ReachedBy(now, cr')
    BY <1>3, <1>i DEF ReachedBy
  <2>2. ReachedBy(now, crCache') /\ ReachedBy(now, aas')
    BY <1>3, <1>i
  <2>3. pc' # "idle" /\ aasFresh' => aas'.status.lastScaleTime = cr'.status.lastScaleTime
    BY <1>3 DEF PublishInv
  <2> QED  BY <1>3, <1>t, <2>1, <2>2, <2>3, PublishFrame
<1>4. CASE Begin
  <2>1. UNCHANGED crVars /\ now' = now /\ pc = "idle"
    BY <1>4 DEF Begin
  <2>2. ASSUME UNCHANGED runVars PROVE PublishInv'
    BY <1>1, <2>1, <2>2 DEF runVars
  <2>3. ASSUME NEW label \in {"phase", "observe"}, NEW st, Start(label, st),
               st.lastScaleTime = crCache.status.lastScaleTime
        PROVE  PublishInv'
    <3>1. aas'.status.lastScaleTime = crCache.status.lastScaleTime
      BY <1>o, <2>3 DEF Start, ObjectType
    <3>2. ReachedBy(now, aas')
      BY <1>i, <3>1 DEF ReachedBy
    <3>3. ReachedBy(now, cr') /\ ReachedBy(now, crCache') /\ pc' \in {"phase", "observe"}
      BY <1>i, <2>1, <2>3 DEF crVars, Start
    <3>4. aasFresh' => aas'.status.lastScaleTime = cr'.status.lastScaleTime
      BY <2>1, <2>3, <3>1 DEF Start, CacheInv, crVars
    <3> QED  BY <1>t, <2>1, <3>2, <3>3, <3>4, PublishFrame
  <2>4. /\ [crCache.status EXCEPT !.phase = "Disabled"].lastScaleTime
             = crCache.status.lastScaleTime
        /\ \A hpa : [crCache.status EXCEPT !.phase = "Conflict",
                        !.conflictReason = hpa].lastScaleTime
             = crCache.status.lastScaleTime
    BY <1>o DEF ObjectType, StatusType
  <2>5. CASE KillSwitched
    BY <2>2, <2>3, <2>4, <2>5 DEF KillSwitched
  <2>6. CASE BeingDeleted
    BY <2>2, <2>6 DEF BeingDeleted
  <2>7. CASE Conflicting
    BY <2>2, <2>3, <2>4, <2>7 DEF Conflicting
  <2>8. CASE Proceed
    BY <2>3, <2>8 DEF Proceed
  <2> QED  BY <1>4, <2>5, <2>6, <2>7, <2>8 DEF Begin
<1>5. CASE UpdatePhase
  <2>1. CASE UpdateAccepted
    <3>1. [cr EXCEPT !.status = aas.status].status = aas.status
      BY <1>o DEF ObjectType
    <3>2. ReachedBy(now, [cr EXCEPT !.status = aas.status])
      BY <1>i, <3>1 DEF ReachedBy
    <3> QED  BY <1>2, <1>5, <2>1, <3>2 DEF UpdatePhase
  <2>2. CASE ~UpdateAccepted
    BY <1>1, <1>5, <2>2 DEF UpdatePhase
  <2> QED  BY <2>1, <2>2
<1>6. CASE UpdateStatus
  <2>1. CASE UpdateAccepted
    <3>1. [cr EXCEPT !.status = NewStatus].status = NewStatus
      BY <1>o DEF ObjectType
    <3>2. plan.at \in Nat /\ plan.at <= now
      BY <1>6 DEF UpdateStatus, TypeOK, PlanType, Time, PublishInv
    <3>3. TruncateToSecond(plan.at) <= TruncateToSecond(now)
      BY <1>o, <3>2, TruncateMonotone
    <3>4. NewStatus.lastScaleTime \in {TruncateToSecond(plan.at), aas.status.lastScaleTime}
      BY DEF NewStatus, StatusWith
    <3>5. ReachedBy(now, [cr EXCEPT !.status = NewStatus])
      BY <1>i, <3>1, <3>3, <3>4 DEF ReachedBy
    <3> QED  BY <1>2, <1>6, <2>1, <3>5 DEF UpdateStatus
  <2>2. CASE ~UpdateAccepted
    BY <1>1, <1>6, <2>2 DEF UpdateStatus
  <2> QED  BY <2>1, <2>2
<1>7. ASSUME NEW rps \in CurrentRates, NEW predicted \in Forecasts,
             Decide(rps, predicted)
      PROVE  PublishInv'
  <2>1. plan'.at = now
    BY <1>7 DEF Decide, PlanFor
  <2>2. UNCHANGED <<now, cr, crCache, aas, aasFresh>> /\ pc = "observe"
    BY <1>7 DEF Decide, crVars
  <2> QED  BY <1>i, <1>o, <2>1, <2>2 DEF PublishInv
<1>8. CASE \/ BeginNotFound \/ ListHPAsFailed \/ InputUnavailable \/ ScaleAccepted
           \/ ScaleFailed \/ ScaleUnanswered \/ StatusWriteFailed
  BY <1>1, <1>8
  DEF BeginNotFound, ListHPAsFailed, InputUnavailable, ScaleAccepted, ScaleFailed,
      ScaleUnanswered, StatusWriteFailed, runVars
<1>9. CASE SyncCR
  <2>1. /\ crCache' = cr /\ UNCHANGED <<now, cr, pc, aas, aasFresh, plan>>
    BY <1>9 DEF SyncCR, runVars
  <2> QED  BY <1>i, <2>1 DEF PublishInv
<1>10. CASE Crash
  <2>1. /\ crCache' = cr /\ aas' = Absent /\ UNCHANGED <<now, cr>>
        /\ pc' = "idle" /\ plan' = None
    BY <1>10 DEF Crash
  <2> QED  BY <1>a, <1>i, <2>1 DEF PublishInv
<1>11. CASE SyncDeployment \/ SyncHPA \/ Tick \/ ChangeHPAs \/ HumanScale \/ Rollout
            \/ TakeSignal
  BY <1>1, <1>11 DEF SyncDeployment, SyncHPA, Tick, ChangeHPAs, HumanScale, Rollout,
     TakeSignal, runVars
<1>12. CASE \/ ToggleKillSwitch \/ RequestReclassify \/ EditSpec \/ DeleteCR
            \/ CreateCR
  <2>1. /\ [cr EXCEPT !.killSwitch = ~@].status = cr.status
        /\ [cr EXCEPT !.reclassify = TRUE].status = cr.status
        /\ [cr EXCEPT !.deleting = TRUE].status = cr.status
        /\ \A s : [cr EXCEPT !.spec = s].status = cr.status
        /\ \A s : NewObject(s).status.lastScaleTime = None
    BY <1>o DEF ObjectType, NewObject, EmptyStatus
  <2>2. ASSUME NEW obj, StoreByOther(obj), UNCHANGED NotTheObject,
               obj.status.lastScaleTime \in {cr.status.lastScaleTime, None}
        PROVE  PublishInv'
    BY <1>3, <2>2 DEF StoreByOther, Store, NotTheObject
  <2> QED  BY <1>12, <2>1, <2>2, AbsentTime
           DEF ToggleKillSwitch, RequestReclassify, EditSpec, DeleteCR, CreateCR
<1>13. CASE ClassifierWrite \/ ClassifierStrip
  <2>1. /\ [cr EXCEPT !.reclassify = FALSE].status = cr.status
        /\ \A c : [cr EXCEPT !.status.classifiedParams = c].status.lastScaleTime
                    = cr.status.lastScaleTime
    BY <1>o DEF ObjectType, StatusType
  <2>2. ASSUME NEW obj, NEW bumped \in BOOLEAN, StoreByClassifier(obj, bumped),
               UNCHANGED NotTheObject,
               obj.status.lastScaleTime \in {cr.status.lastScaleTime, None}
        PROVE  PublishInv'
    BY <1>3, <2>2 DEF StoreByClassifier, NotTheObject
  <2> QED  BY <1>13, <2>1, <2>2 DEF ClassifierWrite, ClassifierStrip
<1>14. CASE UNCHANGED vars
  BY <1>1, <1>14 DEF vars, runVars
<1> QED  BY <1>4, <1>5, <1>6, <1>7, <1>8, <1>9, <1>10, <1>11, <1>12, <1>13, <1>14
         DEF Next, Own, Reconcile, Others, Classifier

-----------------------------------------------------------------------------
(* Every step is the contract's. *)

\* What the contract does not see.
LEMMA Unseen ==
    ASSUME now' = now, deployment'.replicas = deployment.replicas,
           UNCHANGED <<crCache, hpaCache, owed>>,
           cr'.status.lastScaleTime = cr.status.lastScaleTime,
           \/ UNCHANGED <<pc, plan>>
           \/ pc \notin {"observe", "scale"} /\ pc' \notin {"observe", "scale"}
    PROVE  UNCHANGED Contract!cvars
<1>1. UNCHANGED StageOf /\ UNCHANGED RequestOf
  BY DEF StageOf, RequestOf, PlanCooldown
<1>2. UNCHANGED Paused
  BY DEF Paused
<1> QED  BY <1>1, <1>2 DEF Contract!cvars

\* The reconcile ends without having reached the Deployment.
LEMMA GivesUp ==
    ASSUME now' = now, UNCHANGED <<crVars, hpaVars, deployment, owed>>,
           pc' \notin {"observe", "scale"}
    PROVE  Contract!GiveUp
<1>1. StageOf' = "idle" /\ RequestOf' = None
  BY DEF StageOf, RequestOf
<1>2. UNCHANGED Paused
  BY DEF Paused, crVars, hpaVars
<1> QED  BY <1>1, <1>2 DEF Contract!GiveUp, crVars

LEMMA OwedKept ==
    ASSUME Remember, ~Forgotten, ~Acknowledged, ~Restarted
    PROVE  owed' = owed
BY DEF Remember

\* The scale request takes effect.
LEMMA Applies ==
    ASSUME TypeOK, pc = "scale", plan.target >= 0, ApplyScale,
           now' = now, UNCHANGED <<crVars, hpaVars>>,
           owed' = owed \/ owed' = Record(owed),
           pc' \notin {"observe", "scale"}
    PROVE  Contract!Apply
<1>1. StageOf = "sent" /\ StageOf' = "idle" /\ RequestOf' = None
  BY DEF StageOf, RequestOf
<1>2. RequestOf = [ up |-> plan.target > plan.current, to |-> plan.target,
                    at |-> plan.at, cooldown |-> PlanCooldown ]
  BY DEF RequestOf
<1>3. /\ RequestOf.to = plan.target /\ RequestOf.at = plan.at
      /\ RequestOf.up = (plan.target > plan.current)
  BY <1>2
<1>4. UNCHANGED Paused
  BY DEF Paused, crVars, hpaVars
<1>5. deployment'.replicas = plan.target
  BY DEF ApplyScale, TypeOK, DeploymentType
<1>6. \/ owed' = IF RequestOf.up THEN [owed EXCEPT !.up = RequestOf.at]
                ELSE [owed EXCEPT !.down = RequestOf.at]
      \/ owed' = owed
  BY <1>3 DEF Record
<1> QED  BY <1>1, <1>3, <1>4, <1>5, <1>6 DEF Contract!Apply, crVars

LEMMA RefineReconcile ==
    ASSUME TypeOK, CooldownInv, CacheInv, PublishInv, Reconcile, Remember,
           TypeOK', CooldownInv'
    PROVE  [Contract!CNext]_(Contract!cvars)
<1>o. cr \in ObjectType /\ crCache \in ObjectType /\ aas \in ObjectType /\ now \in Nat
  BY DEF TypeOK, Time
<1>b. /\ Spend("fail") \/ Spend("lost") => ~Restarted
      /\ UNCHANGED budget => ~Restarted
  BY SpendOne DEF Restarted, Events
<1>1. CASE BeginNotFound
  <2>1. /\ UNCHANGED <<now, crVars, hpaVars, deployment, pc, plan>>
        /\ Forgotten
    BY <1>1 DEF BeginNotFound, deployVars, runVars, Forgotten
  <2>2. owed' = Nothing
    BY <2>1 DEF Remember
  <2>3. UNCHANGED StageOf /\ UNCHANGED RequestOf /\ UNCHANGED Paused
    BY <2>1 DEF StageOf, RequestOf, PlanCooldown, Paused, crVars, hpaVars
  <2>4. Contract!Forget
    BY <2>1, <2>2, <2>3 DEF Contract!Forget, Contract!Never, Nothing, crVars
  <2> QED  BY <2>4 DEF Contract!CNext
<1>2. CASE Begin
  <2>1. /\ UNCHANGED <<now, crVars, hpaVars, deployVars, budget>>
        /\ pc = "idle" /\ crCache.exists
    BY <1>2 DEF Begin
  <2>2. owed' = owed
    <3>1. ~Forgotten /\ ~Acknowledged /\ ~Restarted
      BY <1>b, <2>1 DEF Forgotten, Acknowledged, crVars
    <3> QED  BY <3>1, OwedKept
  <2>3. CASE Proceed
    <3>1. pc' = "observe" /\ ~Paused
      BY <2>1, <2>3 DEF Proceed, Start, Paused
    <3>2. /\ StageOf = "idle" /\ StageOf' = "cleared"
          /\ RequestOf = None /\ RequestOf' = None
      BY <2>1, <3>1 DEF StageOf, RequestOf
    <3>3. UNCHANGED Paused
      BY <2>1 DEF Paused, crVars, hpaVars
    <3>4. Contract!Clear
      BY <2>1, <2>2, <3>1, <3>2, <3>3 DEF Contract!Clear, crVars, deployVars
    <3> QED  BY <3>4 DEF Contract!CNext
  <2>4. CASE KillSwitched \/ BeingDeleted \/ Conflicting
    <3>1. pc' \in {"idle", "phase"}
      BY <2>1, <2>4 DEF KillSwitched, BeingDeleted, Conflicting, Start, runVars
    <3> QED  BY <2>1, <2>2, <3>1, Unseen DEF crVars, hpaVars, deployVars
  <2> QED  BY <1>2, <2>3, <2>4 DEF Begin
<1>3. CASE ListHPAsFailed
  <2>1. /\ UNCHANGED <<now, crVars, hpaVars, deployVars, runVars>>
        /\ crCache.exists /\ ~Restarted
    BY <1>3, <1>b DEF ListHPAsFailed
  <2>2. owed' = owed
    <3>1. ~Forgotten /\ ~Acknowledged
      BY <2>1 DEF Forgotten, Acknowledged, crVars, runVars
    <3> QED  BY <2>1, <3>1, OwedKept
  <2> QED  BY <2>1, <2>2, Unseen DEF crVars, hpaVars, deployVars, runVars
<1>4. CASE UpdatePhase \/ UpdateStatus
  <2>1. /\ UNCHANGED <<now, hpaVars, deployVars, budget, crCache>>
        /\ pc \in {"phase", "status"} /\ pc' = "idle"
    BY <1>4 DEF UpdatePhase, UpdateStatus, Return, Store, crVars
  <2>2. cr'.exists = cr.exists
    BY <1>4, <1>o DEF UpdatePhase, UpdateStatus, Store, crVars, ObjectType
  <2>3. owed' = owed
    <3>1. ~Forgotten /\ ~Acknowledged /\ ~Restarted
      BY <1>b, <2>1, <2>2 DEF Forgotten, Acknowledged
    <3> QED  BY <3>1, OwedKept
  <2>4. CASE cr'.status.lastScaleTime = cr.status.lastScaleTime
    BY <2>1, <2>3, <2>4, Unseen DEF hpaVars, deployVars
  <2>5. CASE cr'.status.lastScaleTime # cr.status.lastScaleTime
    <3>1. UpdateAccepted /\ UpdateStatus
      <4>1. CASE ~UpdateAccepted
        BY <1>4, <2>5, <4>1 DEF UpdatePhase, UpdateStatus, crVars
      <4>2. CASE UpdateAccepted /\ UpdatePhase
        <5>1. cr'.status = aas.status
          BY <1>o, <4>2 DEF UpdatePhase, Store, ObjectType
        <5>2. aas.status.lastScaleTime = cr.status.lastScaleTime
          BY <2>1, <4>2 DEF UpdateAccepted, PublishInv
        <5> QED  BY <2>5, <5>1, <5>2
      <4> QED  BY <1>4, <4>1, <4>2
    <3>2. cr'.status = NewStatus
      BY <1>o, <3>1 DEF UpdateStatus, Store, ObjectType
    <3>3. aas.status.lastScaleTime = cr.status.lastScaleTime
      BY <2>1, <3>1 DEF UpdateAccepted, PublishInv
    <3>4. cr'.status.lastScaleTime = TruncateToSecond(plan.at)
      BY <2>5, <3>2, <3>3 DEF NewStatus, StatusWith
    <3>5. plan.at \in Nat /\ plan.at <= now /\ ReachedBy(plan.at, aas)
      BY <3>1 DEF UpdateStatus, TypeOK, PlanType, Time, PublishInv
    <3>6. TruncateToSecond(plan.at) \in Nat /\ TruncateToSecond(plan.at) <= now
      BY <1>o, <3>5, TruncateMonotone
    <3>7. /\ cr'.status.lastScaleTime \in Contract!Optional(0 .. now)
          /\ cr'.status.lastScaleTime # None
      BY <1>o, <3>4, <3>6 DEF Contract!Optional
    <3>8. Contract!NotBefore(cr'.status.lastScaleTime, cr.status.lastScaleTime)
      <4>1. cr.status.lastScaleTime \in Optional(Nat)
        BY <1>o DEF ObjectType, StatusType, Time
      <4>2. CASE cr.status.lastScaleTime = None
        BY <4>2 DEF Contract!NotBefore
      <4>3. CASE cr.status.lastScaleTime # None
        <5>1. cr.status.lastScaleTime <= cr'.status.lastScaleTime
          BY <3>3, <3>4, <3>5, <4>3 DEF ReachedBy
        <5> QED  BY <3>4, <3>6, <3>7, <4>1, <4>3, <5>1 DEF Contract!NotBefore, Optional
      <4> QED  BY <4>2, <4>3
    <3>9. UNCHANGED StageOf /\ UNCHANGED RequestOf /\ UNCHANGED Paused
      BY <2>1 DEF StageOf, RequestOf, Paused, hpaVars
    <3>10. Contract!Publish
      BY <2>1, <2>3, <3>7, <3>8, <3>9 DEF Contract!Publish, deployVars
    <3> QED  BY <3>10 DEF Contract!CNext
  <2> QED  BY <2>4, <2>5
<1>5. CASE InputUnavailable \/ ScaleFailed
  <2>1. /\ UNCHANGED <<now, crVars, hpaVars, deployVars>>
        /\ pc # "idle" /\ pc' = "idle" /\ ~Restarted
    BY <1>5, <1>b DEF InputUnavailable, ScaleFailed, Return
  <2>2. owed' = owed
    <3>1. ~Forgotten /\ ~Acknowledged
      BY <2>1 DEF Forgotten, Acknowledged, crVars
    <3> QED  BY <2>1, <3>1, OwedKept
  <2>3. Contract!GiveUp
    BY <2>1, <2>2, GivesUp DEF deployVars
  <2> QED  BY <2>3 DEF Contract!CNext
<1>6. ASSUME NEW rps \in CurrentRates, NEW predicted \in Forecasts,
             Decide(rps, predicted)
      PROVE  [Contract!CNext]_(Contract!cvars)
  <2>1. /\ UNCHANGED <<now, crVars, hpaVars, deployVars, budget>>
        /\ pc = "observe" /\ pc' \in {"scale", "status"}
    BY <1>6 DEF Decide
  <2>2. owed' = owed
    <3>1. ~Forgotten /\ ~Acknowledged /\ ~Restarted
      BY <1>b, <2>1 DEF Forgotten, Acknowledged, crVars
    <3> QED  BY <3>1, OwedKept
  <2>3. CASE pc' = "status"
    <3>1. Contract!GiveUp
      BY <2>1, <2>2, <2>3, GivesUp DEF deployVars
    <3> QED  BY <3>1 DEF Contract!CNext
  <2>4. CASE pc' = "scale"
    <3>1. /\ plan' \in PlanType /\ plan'.at = now
          /\ plan'.target \in Int /\ plan'.current \in Int
          /\ plan'.cooldownUp \in Nat /\ plan'.cooldownDown \in Nat
      <4>1. plan' \in PlanType
        BY <2>4 DEF TypeOK
      <4>2. plan'.at = now
        BY <1>6 DEF Decide, PlanFor
      <4> QED  BY <4>1, <4>2 DEF PlanType, Int32, MinInt32, Nat32
    <3>2. PlanCooldown' \in Nat
      BY <3>1 DEF PlanCooldown
    <3>3. RequestOf' = [ up |-> plan'.target > plan'.current, to |-> plan'.target,
                         at |-> plan'.at, cooldown |-> PlanCooldown' ]
      BY <2>4 DEF RequestOf
    <3>4. /\ RequestOf'.to = plan'.target /\ RequestOf'.at = now
          /\ RequestOf'.up = (plan'.target > plan'.current)
          /\ RequestOf'.cooldown = PlanCooldown'
      BY <3>1, <3>3
    <3>5. RequestOf' \in Contract!Request
      BY <1>o, <3>1, <3>2, <3>3 DEF Contract!Request, Contract!Time
    <3>6. plan'.target >= 0 => Elapsed(plan'.at, LastOf(owed)', PlanCooldown')
      <4>1. CooldownHonoured'
        BY CooldownEnough, PTL
      <4> QED  BY <2>4, <4>1 DEF CooldownHonoured
    <3>7. RequestOf'.to >= 0 =>
            Contract!Elapsed(now, Contract!Latest(owed, RequestOf'.up), RequestOf'.cooldown)
      <4>1. LastOf(owed)' = Contract!Latest(owed, RequestOf'.up)
        BY <2>2, <3>4 DEF LastOf, Contract!Latest
      <4> QED  BY <3>1, <3>4, <3>6, <4>1 DEF Elapsed, Contract!Elapsed
    <3>8. StageOf = "cleared" /\ StageOf' = "sent" /\ UNCHANGED Paused
      BY <2>1, <2>4 DEF StageOf, Paused, crVars, hpaVars
    <3>9. Contract!Ask
      BY <2>1, <2>2, <3>4, <3>5, <3>7, <3>8 DEF Contract!Ask, crVars, deployVars
    <3> QED  BY <3>9 DEF Contract!CNext
  <2> QED  BY <2>1, <2>3, <2>4
<1>7. CASE ScaleAccepted
  <2>1. owed' = Record(owed)
    BY <1>7 DEF Remember, Acknowledged, Forgotten, ScaleAccepted, crVars
  <2>2. Contract!Apply
    BY <1>7, <2>1, Applies DEF ScaleAccepted
  <2> QED  BY <2>2 DEF Contract!CNext
<1>8. CASE ScaleUnanswered
  <2>1. ~Forgotten /\ ~Acknowledged /\ ~Restarted
    BY <1>8, <1>b DEF ScaleUnanswered, Return, Forgotten, Acknowledged, crVars
  <2>2. Contract!Apply
    BY <1>8, <2>1, OwedKept, Applies DEF ScaleUnanswered, Return
  <2> QED  BY <2>2 DEF Contract!CNext
<1>9. CASE StatusWriteFailed
  <2>1. /\ UNCHANGED <<now, crVars, hpaVars, deployVars>>
        /\ pc \in {"phase", "status"} /\ pc' = "idle" /\ ~Restarted
    BY <1>9, <1>b DEF StatusWriteFailed, Return
  <2>2. owed' = owed
    <3>1. ~Forgotten /\ ~Acknowledged
      BY <2>1 DEF Forgotten, Acknowledged, crVars
    <3> QED  BY <2>1, <3>1, OwedKept
  <2> QED  BY <2>1, <2>2, Unseen DEF crVars, hpaVars, deployVars
<1> QED  BY <1>1, <1>2, <1>3, <1>4, <1>5, <1>6, <1>7, <1>8, <1>9 DEF Reconcile

\* A restart recovers of each scale what was published of it; of a deleted
\* object nothing was.
LEMMA RefineCrash ==
    ASSUME TypeOK, CooldownInv, Crash, Remember
    PROVE  Contract!Restart
<1>1. /\ UNCHANGED <<now, cr, deployment>> /\ pc' = "idle" /\ queued' = cr.exists
  BY DEF Crash
<1>2. Restarted
  BY DEF Crash, Spend, Restarted, TypeOK, Events
<1>3. ~Acknowledged
  BY <1>1 DEF Acknowledged
<1>4. /\ owed.up \in Optional(Nat) /\ owed.down \in Optional(Nat)
      /\ cr.status.lastScaleTime \in Optional(Nat)
  BY DEF CooldownInv, TypeOK, ObjectType, StatusType, Time
<1>5. \A t \in Optional(Nat) :
        /\ Contract!Kept(t) = Persisted(t)
        /\ cr.status.lastScaleTime = None => Contract!Kept(t) = None
  <2> TAKE t \in Optional(Nat)
  <2>1. CASE t = None
    BY <2>1 DEF Contract!Kept, Persisted
  <2>2. CASE t # None
    <3>1. t \in Nat
      BY <2>2 DEF Optional
    <3>2. /\ TruncateToSecond(t) \in Nat
          /\ Contract!TruncateToSecond(t) = TruncateToSecond(t)
      BY <3>1, TruncateMonotone DEF TruncateToSecond, Contract!TruncateToSecond
    <3>3. TruncateToSecond(t) # None
      BY <3>2
    <3> QED  BY <2>2, <3>2, <3>3 DEF Contract!Kept, Contract!NotBefore, Persisted
  <2> QED  BY <2>1, <2>2
<1>6. owed' = [up |-> Contract!Kept(owed.up), down |-> Contract!Kept(owed.down)]
  <2>1. CASE Forgotten
    <3>1. ~cr.exists
      BY <1>1, <2>1 DEF Forgotten
    <3>2. cr.status.lastScaleTime = None
      BY <3>1 DEF CooldownInv
    <3> QED  BY <1>4, <1>5, <2>1, <3>2 DEF Remember, Nothing
  <2>2. CASE ~Forgotten
    BY <1>2, <1>3, <1>4, <1>5, <2>2 DEF Remember
  <2> QED  BY <2>1, <2>2
<1>7. StageOf' = "idle" /\ RequestOf' = None
  BY <1>1 DEF StageOf, RequestOf
<1>8. Paused' \in BOOLEAN
  BY DEF Paused
<1> QED  BY <1>1, <1>6, <1>7, <1>8 DEF Contract!Restart

LEMMA RefineOutside ==
    ASSUME TypeOK, CooldownInv, Remember,
           SyncCR \/ SyncDeployment \/ SyncHPA \/ Tick \/ Crash \/ Others \/ Classifier
    PROVE  [Contract!CNext]_(Contract!cvars)
<1>o. cr \in ObjectType /\ now \in Nat
  BY DEF TypeOK, Time
<1>1. CASE Crash
  BY <1>1, RefineCrash DEF Contract!CNext
\* No other step acknowledges a scale, restarts the controller or takes the
\* key of a deleted object from the queue.
<1>b. ASSUME NEW e \in Events \ {"crash"}, Spend(e) PROVE ~Restarted
  BY <1>b, SpendOne DEF Restarted, Events
<1>c. Classifier => ~Restarted
  BY ClassifierBudget DEF Restarted
<1>2. ASSUME ~Restarted, pc' = pc, queued' = queued \/ queued' = TRUE,
             cr.exists => cr'.exists
      PROVE  owed' = owed
  <2>1. ~Forgotten /\ ~Acknowledged
    BY <1>2 DEF Forgotten, Acknowledged
  <2> QED  BY <1>2, <2>1, OwedKept
<1>3. CASE SyncCR
  <2>1. UNCHANGED <<now, cr, hpaVars, deployment, budget, pc, plan>> /\ queued' = TRUE
    BY <1>3 DEF SyncCR, deployVars, runVars
  <2>2. owed' = owed
    BY <1>2, <2>1 DEF Restarted
  <2>3. UNCHANGED StageOf /\ UNCHANGED RequestOf /\ Paused' \in BOOLEAN
    BY <2>1 DEF StageOf, RequestOf, PlanCooldown, Paused
  <2>4. Contract!PauseOrResume
    BY <2>1, <2>2, <2>3 DEF Contract!PauseOrResume
  <2> QED  BY <2>4 DEF Contract!CNext
<1>4. CASE SyncHPA
  <2>1. UNCHANGED <<now, crVars, deployment, budget, pc, plan, queued>>
    BY <1>4 DEF SyncHPA, deployVars, runVars
  <2>2. owed' = owed
    BY <1>2, <2>1 DEF Restarted, crVars
  <2>3. UNCHANGED StageOf /\ UNCHANGED RequestOf /\ Paused' \in BOOLEAN
    BY <2>1 DEF StageOf, RequestOf, PlanCooldown, Paused
  <2>4. Contract!PauseOrResume
    BY <2>1, <2>2, <2>3 DEF Contract!PauseOrResume, crVars
  <2> QED  BY <2>4 DEF Contract!CNext
<1>5. CASE Tick
  <2>1. /\ UNCHANGED <<crVars, hpaVars, deployment, budget, pc, plan, queued>>
        /\ now' = now + 1
    BY <1>5 DEF Tick, runVars
  <2>2. owed' = owed
    BY <1>2, <2>1 DEF Restarted, crVars
  <2>3. UNCHANGED StageOf /\ UNCHANGED RequestOf /\ UNCHANGED Paused
    BY <2>1 DEF StageOf, RequestOf, PlanCooldown, Paused, crVars, hpaVars
  <2>4. Contract!Advance
    BY <2>1, <2>2, <2>3 DEF Contract!Advance, crVars
  <2> QED  BY <2>4 DEF Contract!CNext
<1>6. CASE SyncDeployment \/ ChangeHPAs \/ Rollout \/ TakeSignal
  <2>1. UNCHANGED <<now, crVars, hpaCache, pc, plan, queued>>
    BY <1>6 DEF SyncDeployment, ChangeHPAs, Rollout, TakeSignal, hpaVars, runVars
  <2>2. deployment'.replicas = deployment.replicas
    BY <1>6 DEF SyncDeployment, ChangeHPAs, Rollout, TakeSignal, deployVars, TypeOK,
       DeploymentType
  <2>3. ~Restarted
    BY <1>6, <1>b, <1>c
    DEF SyncDeployment, ChangeHPAs, Rollout, Classifier, Restarted, Events
  <2>4. owed' = owed
    BY <1>2, <2>1, <2>3 DEF crVars
  <2> QED  BY <2>1, <2>2, <2>4, Unseen DEF crVars
<1>7. CASE HumanScale
  <2>1. UNCHANGED <<now, crVars, hpaVars, pc, plan, queued>> /\ ~Restarted
    BY <1>7, <1>b DEF HumanScale, runVars, Events
  <2>2. owed' = owed
    BY <1>2, <2>1 DEF crVars
  <2>3. deployment'.replicas \in Nat
    BY <1>7 DEF HumanScale, TypeOK, DeploymentType, Nat32
  <2>4. UNCHANGED StageOf /\ UNCHANGED RequestOf /\ UNCHANGED Paused
    BY <2>1 DEF StageOf, RequestOf, PlanCooldown, Paused, crVars, hpaVars
  <2>5. Contract!ScaledByOthers
    BY <2>1, <2>2, <2>3, <2>4 DEF Contract!ScaledByOthers, crVars
  <2> QED  BY <2>5 DEF Contract!CNext
\* The object changes and keeps its scale time.
<1>8. ASSUME NEW obj, cr' = obj, UNCHANGED <<crCache, NotTheObject>>, ~Restarted,
             obj.status.lastScaleTime = cr.status.lastScaleTime,
             cr.exists => obj.exists
      PROVE  UNCHANGED Contract!cvars
  <2>1. owed' = owed
    BY <1>2, <1>8 DEF NotTheObject
  <2> QED  BY <1>8, <2>1, Unseen DEF NotTheObject, hpaVars, deployVars
\* The object goes.
<1>9. ASSUME cr' = Absent, cr.exists, UNCHANGED <<crCache, NotTheObject>>
      PROVE  Contract!Forget
  <2>1. owed' = Nothing /\ cr'.status.lastScaleTime = None
    BY <1>9, AbsentTime DEF Remember, Forgotten
  <2>2. UNCHANGED StageOf /\ UNCHANGED RequestOf /\ UNCHANGED Paused
    BY <1>9 DEF StageOf, RequestOf, PlanCooldown, Paused, NotTheObject, hpaVars
  <2> QED  BY <1>9, <2>1, <2>2
           DEF Contract!Forget, Contract!Never, Nothing, NotTheObject, deployVars
<1>10. CASE ToggleKillSwitch \/ RequestReclassify \/ EditSpec
  <2>1. \A s : LET edits == { [cr EXCEPT !.killSwitch = ~@], [cr EXCEPT !.reclassify = TRUE],
                              [cr EXCEPT !.spec = s] }
               IN  \A obj \in edits : obj.status = cr.status /\ obj.exists = cr.exists
    BY <1>o DEF ObjectType
  <2>2. /\ UNCHANGED <<crCache, NotTheObject>> /\ ~Restarted
    BY <1>10, <1>b
    DEF ToggleKillSwitch, RequestReclassify, EditSpec, StoreByOther, Store, Events
  <2>3. cr'.status = cr.status /\ cr'.exists = cr.exists
    BY <1>10, <2>1
    DEF ToggleKillSwitch, RequestReclassify, EditSpec, StoreByOther, Store
  <2> QED  BY <1>8, <2>2, <2>3
<1>11. CASE DeleteCR
  <2>1. UNCHANGED <<crCache, NotTheObject>> /\ cr.exists
    BY <1>11 DEF DeleteCR, StoreByOther, Store
  <2>2. ~Restarted
    BY <1>11, <1>b DEF DeleteCR, Events, Restarted
  <2>3. CASE cr' = Absent
    BY <1>9, <2>1, <2>3 DEF Contract!CNext
  <2>4. CASE cr' = [cr EXCEPT !.deleting = TRUE]
    <3>1. cr'.status = cr.status /\ cr'.exists = cr.exists
      BY <1>o, <2>4 DEF ObjectType
    <3> QED  BY <1>8, <2>1, <2>2, <3>1
  <2> QED  BY <1>11, <2>3, <2>4 DEF DeleteCR, StoreByOther, Store
<1>12. CASE CreateCR
  <2>1. UNCHANGED <<crCache, NotTheObject>> /\ ~cr.exists /\ ~Restarted
    BY <1>12, <1>b DEF CreateCR, StoreByOther, Store, Events
  <2>2. cr'.status.lastScaleTime = None
    <3>1. PICK s \in Admitted(Specs) : cr' = NewObject(s)
      BY <1>12 DEF CreateCR, StoreByOther, Store
    <3> QED  BY <3>1 DEF NewObject, EmptyStatus
  <2>3. cr.status.lastScaleTime = None
    BY <2>1 DEF CooldownInv
  <2> QED  BY <1>8, <2>1, <2>2, <2>3
<1>13. CASE ClassifierWrite \/ ClassifierStrip
  <2>1. UNCHANGED <<crCache, NotTheObject>> /\ ~Restarted
    BY <1>13, <1>c DEF ClassifierWrite, ClassifierStrip, StoreByClassifier, Classifier
  <2>2. /\ cr'.status.lastScaleTime = cr.status.lastScaleTime /\ cr'.exists = cr.exists
    BY <1>13, <1>o
    DEF ClassifierWrite, ClassifierStrip, StoreByClassifier, ObjectType, StatusType
  <2> QED  BY <1>8, <2>1, <2>2
<1> QED  BY <1>1, <1>3, <1>4, <1>5, <1>6, <1>7, <1>10, <1>11, <1>12, <1>13
         DEF Others, Classifier

\* The reconciler, with its caches, refused and lost writes, concurrent
\* writers and restarts, implements the contract, whatever the specs,
\* forecasts, delays and events.
THEOREM ReconcilerKeepsContract == HSpec => KeepsContract
<1> DEFINE IInv == TypeOK /\ CooldownInv /\ CacheInv /\ PublishInv
<1>1. HInit => IInv
  <2> SUFFICES ASSUME HInit PROVE IInv
    OBVIOUS
  <2>1. cr.status.lastScaleTime = None /\ aas.status.lastScaleTime = None
    <3>1. PICK s \in Admitted(Specs) : cr = NewObject(s)
      BY DEF HInit, Init
    <3>2. cr.status.lastScaleTime = None
      BY <3>1 DEF NewObject, EmptyStatus
    <3> QED  BY <3>2, AbsentTime DEF HInit, Init
  <2>2. CacheInv /\ PublishInv
    BY <2>1 DEF HInit, Init, CacheInv, PublishInv, ReachedBy
  <2> QED  BY <2>2, HInitType, CooldownInit
<1>2. IInv /\ [HNext]_hvars => IInv'
  <2>1. [HNext]_hvars => [Next]_vars
    BY DEF HNext, hvars
  <2> QED  BY <2>1, HNextType, CooldownNext, CacheNext, PublishNext
<1>3. HInit => Contract!CInit
  <2> SUFFICES ASSUME HInit PROVE Contract!CInit
    OBVIOUS
  <2>1. /\ deployment.replicas \in Nat /\ cr.status.lastScaleTime = None
        /\ crCache.exists = TRUE /\ crCache.killSwitch = FALSE
        /\ crCache.deleting = FALSE
    <3>1. PICK s \in Admitted(Specs) : cr = NewObject(s)
      BY DEF HInit, Init
    <3>2. crCache = NewObject(s)
      BY <3>1 DEF HInit, Init
    <3>3. deployment.replicas \in Nat
      BY HInitType DEF TypeOK, DeploymentType, Nat32
    <3> QED  BY <3>1, <3>2, <3>3 DEF NewObject, EmptyStatus
  <2>2. Paused = FALSE
    BY <2>1 DEF HInit, Init, Paused
  <2>3. StageOf = "idle" /\ RequestOf = None
    BY DEF HInit, Init, StageOf, RequestOf
  <2> QED  BY <2>1, <2>2, <2>3
           DEF HInit, Init, Nothing, Contract!CInit, Contract!Never
<1>4. IInv /\ IInv' /\ [HNext]_hvars => [Contract!CNext]_(Contract!cvars)
  <2> SUFFICES ASSUME IInv, IInv', [HNext]_hvars
               PROVE  [Contract!CNext]_(Contract!cvars)
    OBVIOUS
  <2>1. CASE HNext
    BY <2>1, RefineReconcile, RefineOutside DEF HNext, Next, Own
  <2>2. CASE UNCHANGED hvars
    BY <2>2, Unseen DEF hvars, vars, crVars, hpaVars, deployVars, runVars
  <2> QED  BY <2>1, <2>2
<1> QED  BY <1>1, <1>2, <1>3, <1>4, PTL DEF HSpec, KeepsContract, Contract!CSpec
=============================================================================
