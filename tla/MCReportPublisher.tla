-------------------------- MODULE MCReportPublisher --------------------------
(***************************************************************************)
(* The requests TLC checks ReportPublisher with: two for the first         *)
(* version, and two that compete for its successor, one of which uses a    *)
(* key of the first version again.                                         *)
(***************************************************************************)
EXTENDS ReportPublisher

MCRequests ==
  {[key |-> "k1", version |-> 1, base |-> NoBase], [key |-> "k2", version |-> 1, base |-> NoBase],
   [key |-> "k3", version |-> 2, base |-> 1], [key |-> "k1", version |-> 2, base |-> 1]}
=============================================================================
