------------------------------- MODULE MCServer -------------------------------
(* Instances of ServerLifecycle small enough for TLC. *)
EXTENDS ServerLifecycle, TLC

CONSTANTS p1, p2, p3, o1, o2

Symmetry == Permutations(Pids) \cup Permutations(Ops)
=============================================================================
