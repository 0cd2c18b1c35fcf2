---------------------------- MODULE MCRunKernel ----------------------------
(***************************************************************************)
(* Instances of RunKernel for TLC.  The nodes carry the ids of             *)
(* contracts/0.3.0/workflow.yaml, which each instance cuts to the shapes   *)
(* its runs are about.                                                     *)
(***************************************************************************)
EXTENDS RunKernel

Among(set, table, default) ==
  [n \in set |-> IF n \in DOMAIN table THEN table[n] ELSE default]

\* An interactive root, a required Subgraph beside a plain skill, a join.
ResearchNodes == {"idea", "competitor", "discovery", "ranking", "users", "synthesis"}
ResearchKind == [n \in ResearchNodes |-> IF n = "competitor" THEN "subgraph" ELSE "skill"]
ResearchParent ==
  [n \in ResearchNodes |-> IF n \in {"discovery", "ranking"} THEN "competitor" ELSE None]
ResearchDependsOn ==
  Among(ResearchNodes,
        [competitor |-> {"idea"}, users |-> {"idea"}, ranking |-> {"discovery"},
         synthesis |-> {"competitor", "users"}], {})
ResearchOrder ==
  [idea |-> 1, competitor |-> 2, discovery |-> 3, ranking |-> 4, users |-> 5, synthesis |-> 6]
NoConditions == [n \in Nodes |-> {}]

\* A chain with two Gates, a node its decision selects, an External Input that
\* follows it, and a verifier a terminal event may start early.
GateNodes ==
  {"contract", "gate_direction", "research_gap", "proof_result", "gate_scope", "build_readiness"}
GateKind ==
  Among(GateNodes,
        [gate_direction |-> "human_gate", gate_scope |-> "human_gate",
         proof_result |-> "external_input", build_readiness |-> "verifier"], "skill")
GateDependsOn ==
  Among(GateNodes,
        [gate_direction |-> {"contract"}, research_gap |-> {"gate_direction"},
         proof_result |-> {"research_gap"}, gate_scope |-> {"gate_direction", "proof_result"},
         build_readiness |-> {"gate_scope"}], {})
GateConditions ==
  Among(GateNodes,
        [research_gap |-> {[node |-> "gate_direction", field |-> "gate_decision",
                            expected |-> {"REQUEST_MORE_RESEARCH"}]},
         proof_result |-> {[node |-> "research_gap", field |-> "node_status",
                            expected |-> {"VERIFIED"}]}], {})
GateOrder ==
  [contract |-> 1, gate_direction |-> 2, research_gap |-> 3, proof_result |-> 4,
   gate_scope |-> 5, build_readiness |-> 6]
AllTop == [n \in Nodes |-> None]
\* The smallest Workflow in which parked Attempts compete for slots.
TeamNodes == {"idea", "users", "market"}
TeamKind == [n \in TeamNodes |-> "skill"]
TeamDependsOn == Among(TeamNodes, [users |-> {"idea"}, market |-> {"idea"}], {})
TeamOrder == [idea |-> 1, users |-> 2, market |-> 3]

\* One of everything, for the driven run.
DrivenNodes ==
  {"idea", "gate_research", "competitor", "discovery", "ranking", "users",
   "research_gap", "synthesis", "proof_result"}
DrivenKind ==
  Among(DrivenNodes,
        [gate_research |-> "human_gate", competitor |-> "subgraph",
         proof_result |-> "external_input"], "skill")
DrivenParent ==
  [n \in DrivenNodes |-> IF n \in {"discovery", "ranking"} THEN "competitor" ELSE None]
DrivenDependsOn ==
  Among(DrivenNodes,
        [gate_research |-> {"idea"}, competitor |-> {"gate_research"}, users |-> {"gate_research"},
         ranking |-> {"discovery"}, research_gap |-> {"gate_research"},
         synthesis |-> {"competitor", "users", "research_gap"},
         proof_result |-> {"synthesis"}], {})
DrivenConditions ==
  Among(DrivenNodes,
        [research_gap |-> {[node |-> "gate_research", field |-> "gate_decision",
                            expected |-> {"REQUEST_MORE_RESEARCH"}]}], {})
DrivenOrder ==
  [idea |-> 1, gate_research |-> 2, competitor |-> 3, discovery |-> 4, ranking |-> 5,
   users |-> 6, research_gap |-> 7, synthesis |-> 8, proof_result |-> 9]
=============================================================================
