----------------------------- MODULE MCSessions -----------------------------
(* Sessions on a small instance, for TLC. *)
EXTENDS Sessions, TLC

Symmetry == Permutations(Requests)
=============================================================================
