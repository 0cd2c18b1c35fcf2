-------------------------- MODULE MCRunOperations --------------------------
(***************************************************************************)
(* Instances of RunOperations for TLC, by the operations they name.        *)
(***************************************************************************)
EXTENDS RunOperations

\* One mutation of each shape: a plain request, a request with a Decision, a
\* Gate opened by the host, an Artifact with sources, a staged completion that
\* brings sources and two Events.
EveryMutation ==
  {"pause_run", "submit_gate_decision", "open_human_gate", "write_typed_artifact",
   "complete_business_attempt"}
EveryEvents == [m \in EveryMutation |-> IF m = "complete_business_attempt" THEN 2 ELSE 1]
=============================================================================
