-------------------------- MODULE MCGoalAccounting --------------------------
(* Instances of GoalAccounting for TLC; the .cfg files give the sets. *)
EXTENDS GoalAccounting, TLC

\* The slots for tool calls are only compared.
ToolSymmetry == Permutations(Tool)
=============================================================================
