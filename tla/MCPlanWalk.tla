------------------------------ MODULE MCPlanWalk ------------------------------
(***************************************************************************)
(* PlanWalk at the depth of the code; no operator tells the pieces apart.  *)
(***************************************************************************)
EXTENDS PlanWalk, TLC

MCSymmetry == Permutations(Types)
=============================================================================
