---------------------------- MODULE MCDesiredState ----------------------------
(* The desired-state cache on small instances. *)
EXTENDS DesiredState

Symmetry == Permutations(Hosts) \cup Permutations(Consoles) \cup Permutations(Ops)
=============================================================================
