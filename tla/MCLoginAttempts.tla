--------------------------- MODULE MCLoginAttempts ---------------------------
(* LoginAttempts on a small instance, for TLC. *)
EXTENDS LoginAttempts
=============================================================================
