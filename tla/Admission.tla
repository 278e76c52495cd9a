------------------------------ MODULE Admission ------------------------------
(***************************************************************************)
(* How a spec gets into the API server: the CRD's structural schema checks *)
(* the minima and fills in defaults, then the validating webhook checks    *)
(* the fields against each other.  The webhook rejects with a list of      *)
(* problems; here it yields whether the list is empty.                     *)
(***************************************************************************)
EXTENDS Decision

Forecasters == {"prophet", "linear_extrap", "gbdt_quantile", "auto"}

Pos32 == 1 .. MaxInt32
Nat32 == 0 .. MaxInt32

\* Specs inside the CRD schema.  An absent optional field is None.
SpecType ==
    [ minReplicas : Optional(Pos32), maxReplicas : Optional(Pos32),
      rpsPerPodMin : Optional(Pos32), rpsPerPodMax : Optional(Pos32),
      maxStepSize : Optional(Pos32), scaleUpCooldown : Optional(Nat32),
      scaleDownCooldown : Optional(Nat32),
      preferredForecaster : Optional(Forecasters) ]

\* The schema's default values; the scaling-behaviour fields have none.
Defaulted(s) ==
    [s EXCEPT !.minReplicas = Deref(@, 2), !.maxReplicas = Deref(@, 10),
              !.rpsPerPodMin = Deref(@, 50), !.rpsPerPodMax = Deref(@, 500)]

\* Checks that pass when a field is absent.
AtLeast(p, least) == p # None => p >= least
Precedes(p, q) == p # None /\ q # None => p < q

\* ValidateSpec, run on every create and update of the object (not of its
\* status).
ValidateSpec(s) ==
    /\ AtLeast(s.minReplicas, 1)
    /\ Precedes(s.minReplicas, s.maxReplicas)
    /\ AtLeast(s.rpsPerPodMin, 1)
    /\ Precedes(s.rpsPerPodMin, s.rpsPerPodMax)
    /\ AtLeast(s.maxStepSize, 1)
    /\ s.maxStepSize # None /\ s.minReplicas # None /\ s.maxReplicas # None
         => s.maxStepSize <= s.maxReplicas - s.minReplicas
    /\ AtLeast(s.scaleUpCooldown, 0)
    /\ AtLeast(s.scaleDownCooldown, 0)
    /\ s.preferredForecaster # None => s.preferredForecaster \in Forecasters

\* The specs that are stored when an operator applies a member of S.
Admitted(S) == {Defaulted(s) : s \in {t \in S : ValidateSpec(Defaulted(t))}}
=============================================================================
