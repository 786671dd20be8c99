----------------------------- MODULE MCControlAPI -----------------------------
(* ControlAPI for TLC: callers are interchangeable. *)
EXTENDS ControlAPI, TLC

Symmetry == Permutations(Callers)
=============================================================================
