--------------------------- MODULE MCIdeaShaping ---------------------------
(***************************************************************************)
(* What the Host LLM may propose to a checked IdeaShaping: nothing; an     *)
(* anchor, the value and a first mechanism; or the withdrawal of the       *)
(* anchor, with unknowns in its place.                                     *)
(***************************************************************************)
EXTENDS IdeaShaping

MCProposals ==
  {[seeded |-> FALSE],
   [level |-> ("problem" :> "HIGH" @@ "value" :> "HIGH" @@ "mechanism" :> "LOW")],
   [level |-> ("problem" :> "UNKNOWN"), unknown |-> {"problem", "user", "scenario"},
    researchable |-> TRUE]}
=============================================================================
