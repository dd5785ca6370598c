---------------------------- MODULE MCPlanApply ----------------------------
(* A plan of each kind, for TLC: they share documents. *)
EXTENDS PlanApply, TLC

CONSTANTS transform, move, fix, f1, f2

MCKind == transform :> "transform" @@ move :> "move" @@ fix :> "fix"
MCSteps == transform :> <<f1, f2>> @@ move :> <<f2, f1>> @@ fix :> <<f1>>
Symmetry == Permutations(Appliers)
=============================================================================
