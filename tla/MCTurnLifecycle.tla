-------------------------- MODULE MCTurnLifecycle --------------------------
(* Instances of TurnLifecycle for TLC; the .cfg files give the sets. *)
EXTENDS TurnLifecycle, TLC

\* Turn ids are only compared, so safety runs may permute them.
TurnSymmetry == Permutations(Turn)
=============================================================================
