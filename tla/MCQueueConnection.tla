-------------------------- MODULE MCQueueConnection --------------------------
(* QueueConnection on a small instance, for TLC. *)
EXTENDS QueueConnection, TLC
=============================================================================
