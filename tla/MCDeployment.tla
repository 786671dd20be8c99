---------------------------- MODULE MCDeployment ----------------------------
(* Deployment for TLC: rollouts are interchangeable. *)
EXTENDS Deployment, TLC

Symmetry == Permutations(Rollouts)
=============================================================================
