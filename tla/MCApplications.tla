--------------------------- MODULE MCApplications ---------------------------
(* Applications on a small instance, for TLC.  Liveness allows no symmetry   *)
(* sets, so the initial states are cut down by hand: of two behaviours that   *)
(* differ only by the names of requests or users one is enough.              *)
EXTENDS Applications

Representative ==
  LET first == CHOOSE r \in Requests : TRUE
  IN  /\ call[first].user = CHOOSE u \in Users : TRUE
      /\ call[first].kind = "createWithCv" =>
           \A r \in Requests : call[r].kind = "createWithCv"

MCInit == Init /\ Representative

MCSpec == MCInit /\ [][Next]_vars /\ Fairness
=============================================================================
