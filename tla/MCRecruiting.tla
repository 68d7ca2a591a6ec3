---------------------------- MODULE MCRecruiting ----------------------------
(* Recruiting on a small instance, for TLC. *)
EXTENDS Recruiting, TLC

Symmetry == Permutations(Handlers)
=============================================================================
