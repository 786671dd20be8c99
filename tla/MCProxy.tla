------------------------------- MODULE MCProxy -------------------------------
(* Proxy for TLC: container ports, and connections interchangeable. *)
EXTENDS Proxy, TLC

\* Listen port 80 is bound to container port 8080, and 443 to 8443.
MCTargetPort == [l \in Ports |-> 8000 + l]
Symmetry == Permutations(Conns)
=============================================================================
