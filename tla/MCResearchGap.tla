--------------------------- MODULE MCResearchGap ---------------------------
(***************************************************************************)
(* Three sourced candidates of whom two are ranked first, one without      *)
(* sources, and two branches beside competitor research.                   *)
(***************************************************************************)
EXTENDS ResearchGap

MCCandidate(i, score, fresh, resolved) ==
  [id |-> i, score |-> score, fresh |-> fresh, sources |-> 1, resolved |-> resolved]
First == MCCandidate(1, 4, 1, TRUE)
Second == MCCandidate(2, 5, 0, TRUE)
Tied == MCCandidate(3, 4, 1, TRUE)
Unsourced == MCCandidate(4, 1, 0, FALSE)
MCDiscoveries ==
  {[candidates |-> {First, Second, Tied}, varied |-> TRUE],
   [candidates |-> {First, Second}, varied |-> FALSE],
   [candidates |-> {First, Second, Unsourced}, varied |-> TRUE]}
MCPlain == {<<"users", 0>>, <<"market", 0>>}
MCOtherNodes == MCPlain \cup {Verifier, Gap}
=============================================================================
