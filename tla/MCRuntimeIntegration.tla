------------------------ MODULE MCRuntimeIntegration ------------------------
(***************************************************************************)
(* What the host of a checked RuntimeIntegration changes: nodes below the  *)
(* projection, the producer of the score among them or not.                *)
(***************************************************************************)
EXTENDS RuntimeIntegration, TLC

ReportNodes == {"fact_provenance", "chart_rendering"}
ScoringNode == {"scoring"}
Interchangeable == Permutations(Keys) \cup Permutations(Contents)
ChartNode == {"chart_rendering"}
=============================================================================
