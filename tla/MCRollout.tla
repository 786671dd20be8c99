------------------------------ MODULE MCRollout ------------------------------
(* Rollout for TLC: commands are interchangeable in runs without liveness. *)
EXTENDS Rollout, TLC

Symmetry == Permutations(Rollouts) \cup Permutations(Rollbacks)
=============================================================================
