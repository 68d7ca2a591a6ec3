----------------------------- MODULE MCReports -----------------------------
(* Reports on a small instance, for TLC. *)
EXTENDS Reports
=============================================================================
