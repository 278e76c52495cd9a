--------------------------- MODULE ExplainerProofs ---------------------------
(***************************************************************************)
(* The hand-over of decisions to the ExplainWorker, for any number of      *)
(* AgenticAutoscalers, decisions and inputs: the most recent decision is   *)
(* never lost between Notify's two selects, and the worker receives        *)
(* decisions in their order, each at most once.                            *)
(***************************************************************************)
EXTENDS Explainer, TLAPS

USE NumbersAssumption, NoneAssumption, ExplainerAssumption

\* A decision that changes the count carries one of the four move tokens.
LEMMA MoveReason ==
    ASSUME NEW in \in CapInputs, ApplyCapAndCooldown(in).target # in.current
    PROVE  ApplyCapAndCooldown(in).reason \in Reasons
BY DEF ApplyCapAndCooldown, MoveUp, MoveDown, Reasons

LEMMA DecideRequest ==
    ASSUME NEW cr \in CRs, NEW in \in CapInputs, sent \in Nat, Decide(cr, in)
    PROVE  notify' \in Requests
<1>1. ApplyCapAndCooldown(in).reason \in Reasons
  BY MoveReason DEF Decide
<1>2. sent + 1 \in Nat
  OBVIOUS
<1>3. notify' = [ cr |-> cr, id |-> sent + 1,
                  reason |-> ApplyCapAndCooldown(in).reason ]
  BY DEF Decide
<1> QED  BY <1>1, <1>2, <1>3 DEF Requests

LEMMA InitTypeOK == Init => TypeOK
<1> SUFFICES ASSUME Init PROVE TypeOK
  OBVIOUS
<1>1. [c \in CRs |-> 0] \in [CRs -> Nat]
  OBVIOUS
<1>2. live \subseteq CRs /\ sent \in Nat /\ taken \in Nat /\ drained \in BOOLEAN
  BY DEF Init
<1>3. notify = None /\ ch = None /\ req = None /\ step = "wait"
  BY DEF Init
<1> QED  BY <1>1, <1>2, <1>3 DEF Init, TypeOK, Optional

LEMMA NextTypeOK == TypeOK /\ [Next]_vars => TypeOK'
<1> SUFFICES ASSUME TypeOK, [Next]_vars PROVE TypeOK'
  OBVIOUS
<1>1. ASSUME NEW cr \in CRs, NEW in \in CapInputs, Decide(cr, in) PROVE TypeOK'
  <2>1. notify' \in Requests
    BY <1>1, DecideRequest DEF TypeOK
  <2>2. sent' \in Nat
    BY <1>1 DEF Decide, TypeOK
  <2> QED  BY <1>1, <2>1, <2>2 DEF Decide, TypeOK, Optional, workerVars
<1>2. CASE NotifyDrain
  BY <1>2 DEF NotifyDrain, TypeOK, Optional, workerVars
<1>3. CASE NotifySend
  BY <1>3 DEF NotifySend, TypeOK, Optional, workerVars
<1>4. CASE Receive
  <2>1. ch \in Requests /\ ch.cr \in CRs /\ ch.id \in Nat
    BY <1>4 DEF Receive, TypeOK, Optional, Requests
  <2>2. req' \in Requests /\ ch' = None /\ step' = "chat" /\ taken' \in Nat
    BY <1>4, <2>1 DEF Receive
  <2> QED  BY <1>4, <2>2 DEF Receive, TypeOK, Optional, notifyVars
<1>5. CASE Chat
  BY <1>5 DEF Chat, TypeOK, notifyVars
<1>6. CASE EmitEvent
  <2>1. req \in Requests /\ req.cr \in CRs /\ req.id \in Nat
    BY <1>6 DEF EmitEvent, TypeOK, Requests
  <2>2. explained' \in [CRs -> Nat]
    BY <1>6, <2>1 DEF EmitEvent, TypeOK
  <2> QED  BY <1>6, <2>2 DEF EmitEvent, TypeOK, notifyVars
<1>7. CASE BackoffEnds
  BY <1>7 DEF BackoffEnds, TypeOK, notifyVars
<1>8. ASSUME NEW cr \in CRs, DeleteCR(cr) PROVE TypeOK'
  BY <1>8 DEF DeleteCR, TypeOK, notifyVars, workerVars
<1>9. CASE UNCHANGED vars
  BY <1>9 DEF vars, TypeOK, notifyVars, workerVars
<1> QED  BY <1>1, <1>2, <1>3, <1>4, <1>5, <1>6, <1>7, <1>8, <1>9 DEF Next, Worker

\* Every variable keeps its type; the worker holds a request exactly while
\* it is calling the model or emitting the event.
THEOREM ExplainerTypes == Spec => []TypeOK
BY InitTypeOK, NextTypeOK, PTL DEF Spec

-----------------------------------------------------------------------------

LEMMA InitOrderInv == Init => OrderInv
BY DEF Init, OrderInv, LatestSurvives

LEMMA NextOrderInv == TypeOK /\ OrderInv /\ [Next]_vars => OrderInv'
<1> SUFFICES ASSUME TypeOK, OrderInv, [Next]_vars PROVE OrderInv'
  OBVIOUS
<1>0. sent \in Nat /\ taken \in Nat /\ (ch # None => ch.id \in Nat)
  BY DEF TypeOK, Optional, Requests
<1>1. ASSUME NEW cr \in CRs, NEW in \in CapInputs, Decide(cr, in) PROVE OrderInv'
  <2>1. /\ notify' # None /\ notify'.id = sent + 1 /\ sent' = sent + 1
        /\ ch' = ch /\ taken' = taken /\ ~drained'
    BY <1>0, <1>1, DecideRequest DEF Decide, workerVars
  <2>2. step' = step /\ req' = req /\ explained' = explained
    BY <1>1 DEF Decide, workerVars
  <2> QED  BY <1>0, <2>1, <2>2 DEF OrderInv, LatestSurvives
<1>2. CASE NotifyDrain
  BY <1>0, <1>2 DEF NotifyDrain, OrderInv, LatestSurvives, workerVars
<1>3. CASE NotifySend
  BY <1>0, <1>3 DEF NotifySend, OrderInv, LatestSurvives, workerVars
<1>4. CASE Receive
  <2>1. /\ ch # None /\ ch' = None /\ req' = ch /\ taken' = ch.id
        /\ sent' = sent /\ notify' = notify /\ drained' = drained
        /\ explained' = explained
    BY <1>4 DEF Receive, notifyVars
  <2>2. \A c \in CRs : explained[c] \in Nat /\ explained[c] < taken'
    BY <1>0, <2>1 DEF OrderInv, TypeOK
  <2> QED  BY <1>0, <2>1, <2>2 DEF OrderInv, LatestSurvives
<1>5. CASE Chat
  BY <1>5 DEF Chat, OrderInv, LatestSurvives, notifyVars
<1>6. CASE EmitEvent
  <2>1. req.cr \in CRs /\ req.id = taken
    BY <1>6 DEF EmitEvent, TypeOK, OrderInv, Requests
  <2>2. \A c \in CRs : explained'[c] = explained[c] \/ explained'[c] = taken
    BY <1>6, <2>1 DEF EmitEvent, TypeOK
  <2>3. \A c \in CRs : explained'[c] <= taken
    BY <1>0, <2>2 DEF OrderInv
  <2> QED  BY <1>6, <2>3 DEF EmitEvent, OrderInv, LatestSurvives, notifyVars
<1>7. CASE BackoffEnds
  BY <1>7 DEF BackoffEnds, OrderInv, LatestSurvives, notifyVars
<1>8. ASSUME NEW cr \in CRs, DeleteCR(cr) PROVE OrderInv'
  BY <1>8 DEF DeleteCR, OrderInv, LatestSurvives, notifyVars, workerVars
<1>9. CASE UNCHANGED vars
  BY <1>9 DEF vars, OrderInv, LatestSurvives, notifyVars, workerVars
<1> QED  BY <1>1, <1>2, <1>3, <1>4, <1>5, <1>6, <1>7, <1>8, <1>9 DEF Next, Worker

\* ChannelNotifier.Notify: once it has returned, the most recent decision is
\* in the channel or has been received, however the worker's receives fall
\* between the two selects.
THEOREM LatestAlwaysSurvives == Spec => []LatestSurvives
<1>1. OrderInv => LatestSurvives
  BY DEF OrderInv
<1> QED  BY <1>1, InitTypeOK, NextTypeOK, InitOrderInv, NextOrderInv, PTL DEF Spec

\* handleRequest and emitEvent: the events on each object come in the order
\* of its decisions, so that none is explained twice or after a later one.
THEOREM EventsInOrder == Spec => ExplainedInOrder
<1>1. TypeOK /\ OrderInv /\ [Next]_vars
        => [step = "emit" /\ step' = "wait" => req.id > explained[req.cr]]_vars
  <2> SUFFICES ASSUME TypeOK, OrderInv, step = "emit"
               PROVE  req.id > explained[req.cr]
    OBVIOUS
  <2>1. req.cr \in CRs /\ req.id = taken /\ taken \in Nat
    BY DEF TypeOK, OrderInv, Requests
  <2>2. explained[req.cr] \in Nat /\ explained[req.cr] < taken
    BY <2>1 DEF TypeOK, OrderInv
  <2> QED  BY <2>1, <2>2
<1> QED  BY <1>1, InitTypeOK, NextTypeOK, InitOrderInv, NextOrderInv, PTL
         DEF Spec, ExplainedInOrder
=============================================================================
