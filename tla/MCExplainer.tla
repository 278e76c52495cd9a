----------------------------- MODULE MCExplainer -----------------------------
(***************************************************************************)
(* Constants for the instances of the explainer.                           *)
(***************************************************************************)
EXTENDS Explainer

\* No earlier scale and no cooldown, unless said otherwise.
Input(recommended, current, maxStep, bindingReason) ==
    [ recommended |-> recommended, current |-> current, maxStep |-> maxStep,
      cooldownUp |-> 0, cooldownDown |-> 0, lastScaleUp |-> None,
      lastScaleDown |-> None, now |-> 0, bindingReason |-> bindingReason ]

\* A free move, one the step cap cuts, one the bound limits, one held back.
Moves == { Input(4, 2, 3, ""), Input(9, 2, 3, "max_replicas_binding"),
           Input(1, 3, 3, "min_replicas_binding"),
           [Input(4, 2, 3, "") EXCEPT !.cooldownUp = 1, !.lastScaleUp = 0] }
=============================================================================
