----------------------------- MODULE RunKernel -----------------------------
(***************************************************************************)
(* One Run of the SkillGraph Runtime: the RunSnapshot and every kernel     *)
(* operation that replaces it (kernel.py, runtime_state.py, scheduler.py,  *)
(* attempts.py, invalidation.py, transitions.py).  Each action loads the   *)
(* committed Snapshot, computes its successor and commits it, so an action *)
(* is one _persist; how a commit reaches the disk is RunStorage's subject. *)
(***************************************************************************)
EXTENDS Naturals, FiniteSets

CONSTANTS
  Nodes,                  \* node addresses of the Workflow and its Subgraphs
  None,                   \* Python's None
  Kind,                   \* [Nodes -> NodeKind]
  Parent,                 \* the Subgraph node a child belongs to, or None
  DependsOn,              \* [Nodes -> SUBSET Nodes], within one graph
  Required, Enabled,      \* nodes whose Profile mode makes them so
  Interactive,            \* nodes whose Skill has an interaction contract
  Condition,              \* [Nodes -> set of predicates], {} = no condition
  AnyOf,                  \* nodes whose condition is any_of, not all_of
  OnTerminalEvent,        \* nodes with trigger_on_terminal_events
  ContractNode,           \* the node whose Skill writes research_contract
  SortKey,                \* [Nodes -> Nat], the scheduler's total order
  Declared,               \* [Nodes -> Nat], the order of node_states
  MaxParallel,            \* run_policy.max_parallel, after the host's limit
  MaxRetriesPerNode,
  MaxGlobalResearchCycles,
  Decisions,              \* allowed_actions of the saved Gate requests
  FailureActions,         \* ErrorActions an Executor may report
  UsageReports,           \* may a report exhaust the time budget: BOOLEAN
  Proposing, Manual,      \* nodes a proposing or the manual adapter may execute
  Writing,                \* nodes whose host writes Artifacts ahead of completion
  ChangedNodes,           \* nodes whose dependents a host may invalidate
  LateWrites,             \* may a host write an Artifact of a finished Attempt
  MaxAttempts             \* bound on the Attempts of one node

ExecutableKinds == {"skill", "verifier", "router"}
NodeKinds == ExecutableKinds \cup {"subgraph", "human_gate", "external_input"}
NodeStatuses ==
  {"PENDING", "READY", "RUNNING", "COMPLETED", "VERIFYING", "VERIFIED",
   "WAITING_FOR_USER", "WAITING_FOR_EXTERNAL", "APPROVED", "BLOCKED",
   "FAILED", "RETRY_READY", "SKIPPED", "INVALIDATED"}
\* A Subgraph child has no NodeState until its Subgraph is activated.
Statuses == NodeStatuses \cup {"ABSENT"}
WorkflowStatuses ==
  {"CREATED", "RUNNING", "WAITING_FOR_USER", "WAITING_FOR_EXTERNAL",
   "PAUSED", "COMPLETED", "CANCELLED", "FAILED"}
TerminalWorkflow == {"COMPLETED", "CANCELLED", "FAILED"}
LiveStatuses == {"RUNNING", "WAITING_FOR_USER", "WAITING_FOR_EXTERNAL"}
AttemptStatuses == LiveStatuses \cup {"COMPLETED", "FAILED", "INVALIDATED"}
GateDecisions ==
  {"APPROVE", "MODIFY", "CANCEL", "SELECT_OTHER", "REQUEST_MORE_RESEARCH",
   "PARTIAL_ACCEPTED"}
\* Codes whose outcome is alike share a name: REPAIR_INPUT and a non-critical
\* OFFER_EVIDENCE_WAIVER act as BLOCK_NODE, a critical one as PAUSE_AUTOMATION.
ErrorActions ==
  {"RETRY_NODE", "OPEN_RESEARCH_GAP", "BLOCK_NODE", "MARK_NOT_READY",
   "PAUSE_AUTOMATION", "FAIL_WORKFLOW", "WAIT_FOR_USER", "WAIT_FOR_EXTERNAL"}

Ordinals == 1 .. MaxAttempts
AttemptId == Nodes \X Ordinals
\* What wrote an Artifact: an Attempt while it ran (1) or as it completed (2);
\* ordinal 0 is an external proof, which may cite either of two documents.
ArtifactRef == Nodes \X (0 .. MaxAttempts) \X {1, 2}
Attempt ==
  [status : AttemptStatuses \cup {"NONE"}, verified : BOOLEAN, wrote : BOOLEAN,
   inputs : SUBSET ArtifactRef, contract : ArtifactRef \cup {None}]
NoAttempt ==
  [status |-> "NONE", verified |-> FALSE, wrote |-> FALSE,
   inputs |-> {}, contract |-> None]

ASSUME GraphAssumption ==
  /\ Kind \in [Nodes -> NodeKinds]
  /\ Parent \in [Nodes -> Nodes \cup {None}]
  /\ DependsOn \in [Nodes -> SUBSET Nodes]
  /\ \A n \in Nodes : \A d \in DependsOn[n] : Parent[d] = Parent[n]
  /\ \A n \in Nodes : Parent[n] # None => Kind[Parent[n]] = "subgraph"
  /\ \A n \in Nodes : Kind[n] = "human_gate" => Parent[n] = None
  /\ Interactive \subseteq {n \in Nodes : Kind[n] = "skill" /\ Parent[n] = None}
  /\ ContractNode \in Nodes \cup {None}
  /\ SortKey \in [Nodes -> Nat] /\ Declared \in [Nodes -> Nat]
  /\ \A m, n \in Nodes : SortKey[m] = SortKey[n] => m = n  \* it ends in the address
  /\ IsFiniteSet(Nodes)
ASSUME NoneAssumption == None \notin Nodes \cup AttemptId \cup ArtifactRef \cup STRING
ASSUME BoundAssumption ==
  /\ MaxAttempts \in Nat \ {0} /\ MaxParallel \in Nat \ {0}
  /\ MaxRetriesPerNode \in Nat /\ MaxGlobalResearchCycles \in Nat
ASSUME InputAssumption ==
  /\ Decisions \subseteq GateDecisions /\ FailureActions \subseteq ErrorActions
  /\ Proposing \cup Manual \cup Writing \cup ChangedNodes \subseteq Nodes
  /\ UsageReports \subseteq BOOLEAN /\ LateWrites \in BOOLEAN
\* compile_bundle rejects a cycle and the contract validator a condition on a
\* node outside depends_on.
ASSUME WellFormedAssumption ==
  /\ \A S \in SUBSET Nodes :
       S # {} => \E n \in S : DependsOn[n] \cap S = {}
  /\ \A n \in Nodes : \A p \in Condition[n] : p.node \in DependsOn[n]

VARIABLES
  workflow_status,
  status,                 \* node_states[n].status
  active_attempt,         \* node_states[n].active_attempt_id, 0 = None
  attempt_count,
  artifact_refs,
  gate_decision,
  attempts,               \* the Attempt log, per node and ordinal
  current_gate,
  gate_request,           \* the gate current_gate_request_ref was saved for
  gate_modification,      \* likewise current_gate_modification_ref
  current_interaction,    \* the waiting Attempt, or None
  global_research_cycle,
  not_ready,              \* readiness_status = NOT_READY
  research_contract_ref,
  budget_exhausted        \* automated time has reached the policy's timeout

gateVars == <<current_gate, gate_request, gate_modification>>
nodeVars == <<status, active_attempt, attempt_count, artifact_refs, gate_decision>>
ledgerVars == <<global_research_cycle, not_ready, research_contract_ref, budget_exhausted>>
vars == <<workflow_status, nodeVars, attempts, gateVars, current_interaction, ledgerVars>>

-----------------------------------------------------------------------------
Executable == {n \in Nodes : Kind[n] \in ExecutableKinds}
Children(n) == {c \in Nodes : Parent[c] = n}
TopLevel == {n \in Nodes : Parent[n] = None}

\* _dependencies_state and _subgraph_is_complete use the same two notions.
SuccessStatuses == {"VERIFIED", "APPROVED"}
ResolvedStatuses == SuccessStatuses \cup {"SKIPPED", "FAILED", "BLOCKED"}
SatisfiedBySuccessOnly(n, st) == st[n] \in SuccessStatuses      \* mutant
Satisfied(n, st) == st[n] \in SuccessStatuses \/ (st[n] = "SKIPPED" /\ n \notin Required)
DependenciesSatisfied(n, st) == \A d \in DependsOn[n] : Satisfied(d, st)
DependenciesResolved(n, st) == \A d \in DependsOn[n] : st[d] \in ResolvedStatuses
SubgraphComplete(n, st) == \A c \in Children(n) : Satisfied(c, st)

\* _condition_state is three-valued.  Of the result fields only gate_decision
\* is ever set by an operation; node_status is the node's own status.
PredicateHolds(p, st) ==
  \/ p.field = "node_status" /\ st[p.node] \in p.expected
  \/ p.field = "gate_decision" /\ gate_decision[p.node] \in p.expected
PredicateFails(p, st) ==
  /\ ~PredicateHolds(p, st)
  /\ \/ p.field = "node_status"
     \/ p.field = "gate_decision" /\ gate_decision[p.node] # None
     \/ st[p.node] \in ResolvedStatuses
ConditionTrue(n, st) ==
  IF n \in AnyOf THEN \E p \in Condition[n] : PredicateHolds(p, st)
                 ELSE \A p \in Condition[n] : PredicateHolds(p, st)
ConditionFalse(n, st) ==
  IF n \in AnyOf THEN \A p \in Condition[n] : PredicateFails(p, st)
                 ELSE \E p \in Condition[n] : PredicateFails(p, st)

RunningAttempts(log) == {a \in AttemptId : log[a[1]][a[2]].status = "RUNNING"}
\* _workflow_status_from_runtime, and the last lines of schedule_snapshot.
WorkflowFrom(st, log, fallback) ==
  IF RunningAttempts(log) # {} THEN "RUNNING"
  ELSE IF \E n \in Nodes : st[n] = "WAITING_FOR_USER" THEN "WAITING_FOR_USER"
  ELSE IF \E n \in Nodes : st[n] = "WAITING_FOR_EXTERNAL" THEN "WAITING_FOR_EXTERNAL"
  ELSE fallback

\* The host's reported usage can only bring the time budget nearer its limit.
ReportUsage == \E exhausting \in UsageReports : budget_exhausted' = (budget_exhausted \/ exhausting)

-----------------------------------------------------------------------------
\* What the scheduling loop makes of node n, which had status before, while the
\* other nodes stand at st.  The loop visits the nodes one by one and repeats
\* until nothing moves; every move is monotone, so Settle may visit them all at
\* once and reach the same end (RunKernelProofs!VisitsEndAtSettle).
EnteredNeverDone(n, st) ==                                      \* mutant
  CASE Kind[n] = "subgraph"       -> "RUNNING"
    [] Kind[n] = "human_gate"     -> "WAITING_FOR_USER"
    [] Kind[n] = "external_input" -> "WAITING_FOR_EXTERNAL"
    [] OTHER                      -> "READY"
Entered(n, st) ==
  CASE Kind[n] = "subgraph"       -> IF SubgraphComplete(n, st) THEN "VERIFIED" ELSE "RUNNING"
    [] Kind[n] = "human_gate"     -> "WAITING_FOR_USER"
    [] Kind[n] = "external_input" -> "WAITING_FOR_EXTERNAL"
    [] OTHER                      -> "READY"
Considered(n, st, terminal) ==
  IF n \notin Enabled THEN "SKIPPED"
  ELSE IF ~DependenciesSatisfied(n, st) /\ ~(terminal /\ n \in OnTerminalEvent) THEN "PENDING"
  ELSE IF ConditionFalse(n, st) /\ DependenciesResolved(n, st) THEN "SKIPPED"
  ELSE IF ConditionTrue(n, st) THEN Entered(n, st) ELSE "PENDING"
Activated(n, st) == Parent[n] # None /\ st[Parent[n]] \in {"RUNNING", "VERIFIED"}
Decide(before, st, terminal, n) ==
  CASE before[n] = "PENDING" -> Considered(n, st, terminal)
    [] before[n] = "ABSENT" /\ Activated(n, st) -> Considered(n, st, terminal)
    [] before[n] = "READY" -> Entered(n, st)
    [] before[n] = "RUNNING" /\ Kind[n] = "subgraph" -> Entered(n, st)
    [] OTHER -> before[n]
Round(before, st, terminal) == [n \in Nodes |-> Decide(before, st, terminal, n)]
Settle(before, terminal) ==
  LET settle[st \in [Nodes -> Statuses]] ==
        LET moved == Round(before, st, terminal)
        IN  IF moved = st THEN st ELSE settle[moved]
  IN  settle[before]

\* _input_refs: the Artifacts of the dependencies; the entry nodes of a
\* Subgraph take those of every finished top-level node.
InputRefs(n, st) ==
  LET producers == IF Parent[n] # None /\ DependsOn[n] = {}
                   THEN {m \in TopLevel : st[m] \in SuccessStatuses}
                   ELSE DependsOn[n]
  IN  UNION {artifact_refs[m] : m \in producers}

\* plan_attempt: an equal input fingerprint of a verified Attempt is only
\* offered for reuse, no Attempt starts and the node stays READY.
ReuseCandidate(n, st) ==
  \E k \in Ordinals : /\ attempts[n][k].status = "COMPLETED" /\ attempts[n][k].verified
                      /\ attempts[n][k].inputs = InputRefs(n, st)
                      /\ attempts[n][k].contract = research_contract_ref

SlotsForgetActive == MaxParallel                                \* mutant
AvailableSlots ==
  LET active == Cardinality(RunningAttempts(attempts))
  IN  IF active < MaxParallel THEN MaxParallel - active ELSE 0
\* The Attempts a scheduling call starts: the first of the requested ready
\* nodes, in the sort order, that the free slots admit.
Started(st, requested) ==
  LET candidates == {n \in Executable \cap requested :
                       st[n] \in {"READY", "RETRY_READY"} /\ ~ReuseCandidate(n, st)}
  IN  {n \in candidates :
         Cardinality({m \in candidates : SortKey[m] < SortKey[n]}) < AvailableSlots}

NewAttempt(n, st) ==
  [status |-> "RUNNING", verified |-> FALSE, wrote |-> FALSE,
   inputs |-> InputRefs(n, st), contract |-> research_contract_ref]

WaitingGates(st) ==
  {g \in TopLevel : Kind[g] = "human_gate" /\ st[g] = "WAITING_FOR_USER"}
FirstGate(st) ==
  IF WaitingGates(st) = {} THEN None
  ELSE CHOOSE g \in WaitingGates(st) :
         \A h \in WaitingGates(st) : Declared[g] <= Declared[h]

Schedulable == workflow_status \notin TerminalWorkflow \cup {"PAUSED"}

\* The Snapshot once the loop has settled at after and the Attempts of started run.
Launch(after, started) ==
  /\ \A n \in started : attempt_count[n] < MaxAttempts
  /\ status' = [n \in Nodes |-> IF n \in started THEN "RUNNING" ELSE after[n]]
  /\ active_attempt' = [n \in Nodes |->
       IF n \in started THEN attempt_count[n] + 1 ELSE active_attempt[n]]
  /\ attempt_count' = [n \in Nodes |->
       IF n \in started THEN attempt_count[n] + 1 ELSE attempt_count[n]]
  /\ attempts' = [n \in Nodes |-> [k \in Ordinals |->
       IF n \in started /\ k = attempt_count[n] + 1
       THEN NewAttempt(n, after) ELSE attempts[n][k]]]
  /\ workflow_status' = WorkflowFrom(status', attempts', workflow_status)
  /\ current_gate' = FirstGate(status')

\* schedule_persisted, when the call changes anything.
Schedule(requested, terminal) ==
  /\ Schedulable /\ ~budget_exhausted
  /\ \E after \in {Settle(status, terminal)} :
       /\ after = Round(status, after, terminal)     \* the loop's exit test
       /\ Launch(after, Started(after, requested))
  /\ <<status, workflow_status>> # <<status', workflow_status'>>
  /\ UNCHANGED <<artifact_refs, gate_decision, gate_request, gate_modification,
                 current_interaction, ledgerVars>>

\* The same call once the Run has used up its automated time.
ScheduleOutOfTime ==
  /\ Schedulable /\ budget_exhausted
  /\ workflow_status' = "PAUSED"
  /\ UNCHANGED <<nodeVars, attempts, gateVars, current_interaction, ledgerVars>>

-----------------------------------------------------------------------------
\* The Executor's side.  validate_executor_result and apply_executor_result
\* accept a result only of the Attempt its running node holds.
Active(n) ==
  /\ status[n] = "RUNNING" /\ active_attempt[n] # 0
  /\ attempts[n][active_attempt[n]].status = "RUNNING"
SetEveryAttempt(n, state) ==                                    \* mutant
  [attempts EXCEPT ![n] = [k \in Ordinals |->
     IF @[k].status = "NONE" THEN @[k] ELSE [@[k] EXCEPT !.status = state]]]
SetAttempt(n, state) == [attempts EXCEPT ![n][active_attempt[n]].status = state]

Verified(attempt) == [attempt EXCEPT !.status = "COMPLETED", !.verified = TRUE]

\* complete_persisted_business_attempt: the Kernel's own Skills finish and are
\* verified in one commit; the node keeps what it wrote before.
CompleteBusiness(n) ==
  LET ref == <<n, active_attempt[n], 2>> IN
  /\ Active(n)
  /\ status' = [status EXCEPT ![n] = "VERIFIED"]
  /\ active_attempt' = [active_attempt EXCEPT ![n] = 0]
  /\ attempts' = [attempts EXCEPT ![n][active_attempt[n]] = Verified(@)]
  /\ artifact_refs' = [artifact_refs EXCEPT ![n] = @ \cup {ref}]
  /\ research_contract_ref' = IF n = ContractNode THEN ref ELSE research_contract_ref
  /\ workflow_status' = WorkflowFrom(status', attempts', "RUNNING")
  /\ UNCHANGED <<attempt_count, gate_decision, gateVars, current_interaction,
                 global_research_cycle, not_ready, budget_exhausted>>

\* apply_persisted_executor_result, status COMPLETED: the refs are the payload's.
ApplyCompleted(n) ==
  /\ Active(n)
  /\ status' = [status EXCEPT ![n] = "COMPLETED"]
  /\ active_attempt' = [active_attempt EXCEPT ![n] = 0]
  /\ attempts' = SetAttempt(n, "COMPLETED")
  /\ \E refs \in {{}, artifact_refs[n]} : artifact_refs' = [artifact_refs EXCEPT ![n] = refs]
  /\ workflow_status' = WorkflowFrom(status', attempts', "RUNNING")
  /\ ReportUsage
  /\ UNCHANGED <<attempt_count, gate_decision, gateVars, current_interaction,
                 global_research_cycle, not_ready, research_contract_ref>>

RetriesUsed(n) == IF attempt_count[n] = 0 THEN 0 ELSE attempt_count[n] - 1
FailureTarget(n, action) ==
  CASE action = "RETRY_NODE" /\ RetriesUsed(n) < MaxRetriesPerNode -> "RETRY_READY"
    [] action = "FAIL_WORKFLOW" -> "FAILED"
    [] OTHER -> "BLOCKED"
ResearchCyclesOverspent == global_research_cycle > MaxGlobalResearchCycles   \* mutant
ResearchCyclesSpent == global_research_cycle >= MaxGlobalResearchCycles
ForcedWorkflow(action) ==
  CASE action = "PAUSE_AUTOMATION" -> "PAUSED"
    [] action = "OPEN_RESEARCH_GAP" /\ ResearchCyclesSpent -> "PAUSED"
    [] action = "FAIL_WORKFLOW" -> "FAILED"
    [] action = "WAIT_FOR_USER" -> "WAITING_FOR_USER"
    [] action = "WAIT_FOR_EXTERNAL" -> "WAITING_FOR_EXTERNAL"
    [] OTHER -> None

\* apply_persisted_executor_result, status FAILED (_apply_failure).
ApplyFailed(n, action) ==
  /\ Active(n)
  /\ status' = [status EXCEPT ![n] = FailureTarget(n, action)]
  /\ active_attempt' = [active_attempt EXCEPT ![n] = 0]
  /\ attempts' = SetAttempt(n, "FAILED")
  /\ workflow_status' = IF ForcedWorkflow(action) # None THEN ForcedWorkflow(action)
                        ELSE WorkflowFrom(status', attempts', "RUNNING")
  /\ global_research_cycle' = IF action = "OPEN_RESEARCH_GAP" /\ ~ResearchCyclesSpent
                              THEN global_research_cycle + 1 ELSE global_research_cycle
  /\ not_ready' = (not_ready \/ action = "MARK_NOT_READY")
  /\ ReportUsage
  /\ UNCHANGED <<attempt_count, artifact_refs, gate_decision, gateVars,
                 current_interaction, research_contract_ref>>

RequestFromFirstAttempt(n) ==                                   \* mutant
  /\ Active(n) /\ n \in Interactive
  /\ status' = [status EXCEPT ![n] = "WAITING_FOR_USER"]
  /\ attempts' = SetAttempt(n, "WAITING_FOR_USER")
  /\ workflow_status' = "WAITING_FOR_USER"
  /\ current_interaction' = <<n, 1>>
  /\ current_gate' = None /\ gate_request' = None
  /\ ReportUsage
  /\ UNCHANGED <<active_attempt, attempt_count, artifact_refs, gate_decision,
                 gate_modification, global_research_cycle, not_ready, research_contract_ref>>
\* A result WAITING_FOR_USER (persist_idea_interaction): the Attempt keeps its
\* identity while its question is open.
RequestInteraction(n) ==
  /\ Active(n) /\ n \in Interactive
  /\ status' = [status EXCEPT ![n] = "WAITING_FOR_USER"]
  /\ attempts' = SetAttempt(n, "WAITING_FOR_USER")
  /\ workflow_status' = "WAITING_FOR_USER"
  /\ current_interaction' = <<n, active_attempt[n]>>
  /\ current_gate' = None /\ gate_request' = None
  /\ ReportUsage
  /\ UNCHANGED <<active_attempt, attempt_count, artifact_refs, gate_decision,
                 gate_modification, global_research_cycle, not_ready, research_contract_ref>>

\* submit_interaction_response and resume_interaction; a repeated answer changes
\* nothing.
AnswerInteraction(n) ==
  /\ n \in Interactive /\ status[n] = "WAITING_FOR_USER" /\ active_attempt[n] # 0
  /\ current_interaction \in {<<n, k>> : k \in Ordinals}
  /\ attempts[n][active_attempt[n]].status = "WAITING_FOR_USER"
  /\ status' = [status EXCEPT ![n] = "RUNNING"]
  /\ attempts' = SetAttempt(n, "RUNNING")
  /\ workflow_status' = "RUNNING"
  /\ current_interaction' = None
  /\ current_gate' = None /\ gate_request' = None
  /\ UNCHANGED <<active_attempt, attempt_count, artifact_refs, gate_decision,
                 gate_modification, ledgerVars>>

\* The manual adapter parks its Attempt outside and takes it up again.
OpenManualWait(n) ==
  /\ status[n] = "RUNNING"
  /\ \E k \in Ordinals :
       /\ attempts[n][k].status = "RUNNING"
       /\ attempts' = [attempts EXCEPT ![n][k].status = "WAITING_FOR_EXTERNAL"]
       /\ active_attempt' = [active_attempt EXCEPT ![n] = k]
  /\ status' = [status EXCEPT ![n] = "WAITING_FOR_EXTERNAL"]
  /\ workflow_status' = "WAITING_FOR_EXTERNAL"
  /\ UNCHANGED <<attempt_count, artifact_refs, gate_decision, gateVars,
                 current_interaction, ledgerVars>>

ResumeManual(n) ==
  /\ status[n] = "WAITING_FOR_EXTERNAL"
  /\ \E k \in Ordinals :
       /\ attempts[n][k].status = "WAITING_FOR_EXTERNAL"
       /\ attempts' = [attempts EXCEPT ![n][k].status = "RUNNING"]
       /\ active_attempt' = [active_attempt EXCEPT ![n] = k]
  /\ status' = [status EXCEPT ![n] = "RUNNING"]
  /\ workflow_status' = "RUNNING"
  /\ UNCHANGED <<attempt_count, artifact_refs, gate_decision, gateVars,
                 current_interaction, ledgerVars>>

\* write_artifact and write_typed_artifact ask only that the Attempt exists; its
\* node takes the new ref whatever has become of the Attempt since.  One such
\* Artifact per Attempt is enough to tell the node's refs apart.
WriteArtifact(n, k) ==
  /\ attempts[n][k].status # "NONE" /\ ~attempts[n][k].wrote
  /\ LateWrites \/ attempts[n][k].status = "RUNNING"
  /\ artifact_refs' = [artifact_refs EXCEPT ![n] = @ \cup {<<n, k, 1>>}]
  /\ attempts' = [attempts EXCEPT ![n][k].wrote = TRUE]
  /\ UNCHANGED <<workflow_status, status, active_attempt, attempt_count, gate_decision,
                 gateVars, current_interaction, ledgerVars>>

-----------------------------------------------------------------------------
\* The user's side: Human Gates and External Inputs.
OpenGate(n) ==
  /\ Kind[n] = "human_gate" /\ status[n] \in {"READY", "WAITING_FOR_USER"}
  /\ status[n] = "WAITING_FOR_USER" => gate_request = None
  /\ status' = [status EXCEPT ![n] = "WAITING_FOR_USER"]
  /\ workflow_status' = "WAITING_FOR_USER"
  /\ current_gate' = n /\ gate_request' = n
  /\ current_interaction' = None
  /\ UNCHANGED <<active_attempt, attempt_count, artifact_refs, gate_decision, attempts,
                 gate_modification, ledgerVars>>

GateAwaitsDecision(n) ==
  /\ Kind[n] = "human_gate" /\ status[n] = "WAITING_FOR_USER"
  /\ current_gate = n /\ gate_request # None

DecisionKeepsModification(n, decision) ==                       \* mutant
  /\ GateAwaitsDecision(n) /\ decision # "MODIFY"
  /\ status' = [status EXCEPT ![n] = "APPROVED"]
  /\ gate_decision' = [gate_decision EXCEPT ![n] = decision]
  /\ workflow_status' = IF decision = "CANCEL" THEN "CANCELLED"
                        ELSE WorkflowFrom(status', attempts, "RUNNING")
  /\ current_gate' = None /\ gate_request' = None
  /\ UNCHANGED <<active_attempt, attempt_count, artifact_refs, attempts, gate_modification,
                 current_interaction, ledgerVars>>
SubmitGateDecision(n, decision) ==
  /\ GateAwaitsDecision(n) /\ decision # "MODIFY"
  /\ status' = [status EXCEPT ![n] = "APPROVED"]
  /\ gate_decision' = [gate_decision EXCEPT ![n] = decision]
  /\ workflow_status' = IF decision = "CANCEL" THEN "CANCELLED"
                        ELSE WorkflowFrom(status', attempts, "RUNNING")
  /\ current_gate' = None /\ gate_request' = None /\ gate_modification' = None
  /\ UNCHANGED <<active_attempt, attempt_count, artifact_refs, attempts,
                 current_interaction, ledgerVars>>

\* MODIFY saves the pending modification; the Gate goes on waiting.
ModifyGate(n) ==
  /\ GateAwaitsDecision(n) /\ "MODIFY" \in Decisions
  /\ gate_modification' = n
  /\ UNCHANGED <<workflow_status, nodeVars, attempts, current_gate, gate_request,
                 current_interaction, ledgerVars>>

\* submit_external_proof; the effects it defers are never carried out.
SubmitProof(n) ==
  /\ Kind[n] = "external_input" /\ status[n] = "WAITING_FOR_EXTERNAL"
  /\ status' = [status EXCEPT ![n] = "VERIFIED"]
  /\ active_attempt' = [active_attempt EXCEPT ![n] = 0]
  /\ \E document \in {1, 2} : artifact_refs' = [artifact_refs EXCEPT ![n] = {<<n, 0, document>>}]
  /\ workflow_status' = WorkflowFrom(status', attempts, "RUNNING")
  /\ UNCHANGED <<attempt_count, gate_decision, attempts, gateVars, current_interaction, ledgerVars>>

-----------------------------------------------------------------------------
\* Run control.
SetWorkflow(target) ==
  /\ workflow_status' = target
  /\ UNCHANGED <<nodeVars, attempts, gateVars, current_interaction, ledgerVars>>
PauseRun == workflow_status \notin TerminalWorkflow /\ SetWorkflow("PAUSED")
ResumeRun == workflow_status = "PAUSED" /\ SetWorkflow("RUNNING")
CancelRun == workflow_status \notin TerminalWorkflow /\ SetWorkflow("CANCELLED")

RetryableOrVerified == {"BLOCKED", "FAILED", "RETRY_READY", "VERIFIED"}               \* mutant
RetryableOrWaiting == {"BLOCKED", "FAILED", "RETRY_READY", "WAITING_FOR_EXTERNAL"}    \* mutant
Retryable == {"BLOCKED", "FAILED", "RETRY_READY"}
RetryForgetsCount(n) ==                                           \* mutant
  /\ status[n] \in Retryable
  /\ status' = [status EXCEPT ![n] = "PENDING"]
  /\ active_attempt' = [active_attempt EXCEPT ![n] = 0]
  /\ workflow_status' = "RUNNING"
  /\ attempt_count' = [attempt_count EXCEPT ![n] = 0]
  /\ UNCHANGED <<artifact_refs, gate_decision, attempts, gateVars,
                 current_interaction, ledgerVars>>
RetryNode(n) ==
  /\ status[n] \in Retryable
  /\ status' = [status EXCEPT ![n] = "PENDING"]
  /\ active_attempt' = [active_attempt EXCEPT ![n] = 0]
  /\ workflow_status' = "RUNNING"
  /\ UNCHANGED <<attempt_count, artifact_refs, gate_decision, attempts, gateVars,
                 current_interaction, ledgerVars>>

\* _reverse_dependencies, followed to the end: the least set that holds every
\* node depending on the root or on a member.
Dependents(root) ==
  LET closed(S) == \A n \in Nodes : DependsOn[n] \cap (S \cup {root}) # {} => n \in S
  IN  {n \in Nodes : \A S \in SUBSET Nodes : closed(S) => n \in S}
DirectDependents == [root \in Nodes |-> {n \in Nodes : root \in DependsOn[n]}]   \* mutant
DependentsOf == [root \in Nodes |-> Dependents(root)]

\* invalidate_downstream: the root itself stays current.
InvalidateDownstream(root) ==
  LET targets == DependentsOf[root] IN
  /\ status[root] # "ABSENT" /\ targets # {}
  /\ \A n \in targets : \A k \in Ordinals : attempts[n][k].status # "RUNNING"
  /\ status' = [n \in Nodes |-> IF n \in targets THEN "INVALIDATED" ELSE status[n]]
  /\ active_attempt' = [n \in Nodes |-> IF n \in targets THEN 0 ELSE active_attempt[n]]
  /\ artifact_refs' = [n \in Nodes |-> IF n \in targets THEN {} ELSE artifact_refs[n]]
  /\ gate_decision' = [n \in Nodes |-> IF n \in targets THEN None ELSE gate_decision[n]]
  /\ attempts' = [n \in Nodes |-> [k \in Ordinals |->
       IF n \in targets /\ attempts[n][k].status \in LiveStatuses
       THEN [attempts[n][k] EXCEPT !.status = "INVALIDATED"] ELSE attempts[n][k]]]
  /\ current_gate' = IF current_gate \in targets THEN None ELSE current_gate
  /\ gate_request' = IF current_gate' = None THEN None ELSE gate_request
  /\ gate_modification' = IF current_gate' = None THEN None ELSE gate_modification
  /\ current_interaction' = IF current_interaction \in targets \X Ordinals
                            THEN None ELSE current_interaction
  /\ workflow_status' = IF workflow_status \in {"WAITING_FOR_USER", "WAITING_FOR_EXTERNAL"}
                        THEN "RUNNING" ELSE workflow_status
  /\ UNCHANGED <<attempt_count, ledgerVars>>

ResumeAsVerified ==                                             \* mutant
  /\ \E n \in Nodes : status[n] = "INVALIDATED"
  /\ status' = [n \in Nodes |-> IF status[n] # "INVALIDATED" THEN status[n]
                 ELSE IF \E k \in Ordinals : attempts[n][k].verified THEN "VERIFIED" ELSE "PENDING"]
  /\ UNCHANGED <<workflow_status, active_attempt, attempt_count, artifact_refs, gate_decision,
                 attempts, gateVars, current_interaction, ledgerVars>>
ResumeInvalidated ==
  /\ \E n \in Nodes : status[n] = "INVALIDATED"
  /\ status' = [n \in Nodes |-> IF status[n] = "INVALIDATED" THEN "PENDING" ELSE status[n]]
  /\ UNCHANGED <<workflow_status, active_attempt, attempt_count, artifact_refs, gate_decision,
                 attempts, gateVars, current_interaction, ledgerVars>>

-----------------------------------------------------------------------------
\* create_persisted_run.
Init ==
  /\ workflow_status = "CREATED"
  /\ status = [n \in Nodes |-> IF Parent[n] = None THEN "PENDING" ELSE "ABSENT"]
  /\ active_attempt = [n \in Nodes |-> 0]
  /\ attempt_count = [n \in Nodes |-> 0]
  /\ artifact_refs = [n \in Nodes |-> {}]
  /\ gate_decision = [n \in Nodes |-> None]
  /\ attempts = [n \in Nodes |-> [k \in Ordinals |-> NoAttempt]]
  /\ current_gate = None /\ gate_request = None /\ gate_modification = None
  /\ current_interaction = None
  /\ global_research_cycle = 0 /\ not_ready = FALSE
  /\ research_contract_ref = None /\ budget_exhausted = FALSE

\* _persist validates the Snapshot against workflow-state.schema.json first: an
\* open question leaves no current_gate and holds the Run in WAITING_FOR_USER.
\* What breaks that is refused and leaves the committed Snapshot as it was.
WireValid ==
  current_interaction # None => current_gate = None /\ workflow_status = "WAITING_FOR_USER"

Requests == {Nodes} \cup {{n} : n \in Executable}
Scheduling ==
  \/ \E requested \in Requests, terminal \in BOOLEAN : Schedule(requested, terminal)
  \/ ScheduleOutOfTime
Executing ==
  \E n \in Nodes :
    \/ CompleteBusiness(n)
    \/ n \in Proposing /\ ApplyCompleted(n)
    \/ \E action \in FailureActions : ApplyFailed(n, action)
    \/ RequestInteraction(n)
    \/ n \in Manual /\ OpenManualWait(n)
    \/ ResumeManual(n)
    \/ n \in Writing /\ \E k \in Ordinals : WriteArtifact(n, k)
Deciding ==
  \E n \in Nodes :
    \/ AnswerInteraction(n) \/ OpenGate(n) \/ ModifyGate(n) \/ SubmitProof(n)
    \/ \E decision \in Decisions : SubmitGateDecision(n, decision)
Operating ==
  \/ PauseRun \/ ResumeRun \/ CancelRun \/ ResumeInvalidated
  \/ \E n \in Nodes : RetryNode(n)
  \/ \E n \in ChangedNodes : InvalidateDownstream(n)

Next == (Scheduling \/ Executing \/ Deciding \/ Operating) /\ WireValid'
Spec == Init /\ [][Next]_vars

-----------------------------------------------------------------------------
\* What every operation leaves in the Snapshot is well typed, and the counters it
\* advances (Attempts, Research Gap cycles) stay within their limits.
TypeOK ==
  /\ workflow_status \in WorkflowStatuses
  /\ status \in [Nodes -> Statuses]
  /\ active_attempt \in [Nodes -> 0 .. MaxAttempts]
  /\ attempt_count \in [Nodes -> 0 .. MaxAttempts]
  /\ artifact_refs \in [Nodes -> SUBSET ArtifactRef]
  /\ gate_decision \in [Nodes -> GateDecisions \cup {None}]
  /\ attempts \in [Nodes -> [Ordinals -> Attempt]]
  /\ current_gate \in Nodes \cup {None}
  /\ gate_request \in Nodes \cup {None}
  /\ gate_modification \in Nodes \cup {None}
  /\ current_interaction \in AttemptId \cup {None}
  /\ global_research_cycle \in 0 .. MaxGlobalResearchCycles
  /\ not_ready \in BOOLEAN /\ budget_exhausted \in BOOLEAN
  /\ research_contract_ref \in ArtifactRef \cup {None}

\* A node and its Attempts agree: the one live Attempt is the one the node
\* holds, in the status the node shows, and no executable node runs or waits
\* without one.
NodeAttemptAgreement ==
  \A n \in Nodes :
    /\ \A k \in Ordinals :
         attempts[n][k].status \in LiveStatuses =>
           active_attempt[n] = k /\ status[n] = attempts[n][k].status
    /\ n \in Executable /\ status[n] \in LiveStatuses =>
         /\ active_attempt[n] # 0
         /\ attempts[n][active_attempt[n]].status = status[n]

\* attempt_count survives retries and invalidations, so the next ordinal it
\* gives is never that of an Attempt already in the log.
AttemptsCounted ==
  \A n \in Nodes : \A k \in Ordinals :
    attempts[n][k].status # "NONE" <=> k <= attempt_count[n]

EnteredStatuses == Statuses \ {"ABSENT", "PENDING", "SKIPPED", "INVALIDATED"}
\* Whatever the order of retries, invalidations and scheduling, a node that has
\* been entered stands on dependencies that are satisfied now.
DependencyClosure ==
  \A n \in Nodes \ OnTerminalEvent :
    status[n] \in EnteredStatuses => DependenciesSatisfied(n, status)

\* What a node is being computed from, or was verified from, is what its
\* dependencies hold now (a Subgraph's entry node reads the whole Run instead).
InputsCurrent ==
  \A n \in Executable \ OnTerminalEvent : \A k \in Ordinals :
    /\ DependsOn[n] # {}
    /\ \/ attempts[n][k].status \in LiveStatuses
       \/ status[n] = "VERIFIED" /\ k = attempt_count[n]
    => attempts[n][k].inputs = InputRefs(n, status)

\* A verified node is backed by its last Attempt, completed and verified, and
\* still carries what that Attempt produced.
VerifiedIsBacked ==
  \A n \in Executable : status[n] = "VERIFIED" =>
    /\ attempt_count[n] # 0
    /\ attempts[n][attempt_count[n]].status = "COMPLETED"
    /\ attempts[n][attempt_count[n]].verified
    /\ <<n, attempt_count[n], 2>> \in artifact_refs[n]

\* Whoever waits for the user can be served: an open question belongs to the
\* waiting Attempt, a waiting Gate can be supplied or decided.
WaitsAreAnswerable ==
  \A n \in Nodes : status[n] = "WAITING_FOR_USER" =>
    /\ n \in Executable => current_interaction = <<n, active_attempt[n]>>
    /\ Kind[n] = "human_gate" =>
         /\ gate_request # None => current_gate = n /\ gate_request = n

\* The saved request, the pending modification and current_gate are those of
\* one Gate that is waiting.
GateRecordsAgree ==
  /\ current_gate # None => status[current_gate] = "WAITING_FOR_USER"
  /\ gate_request # None => current_gate = gate_request
  /\ gate_modification # None => gate_request = gate_modification

RunningCount == Cardinality(RunningAttempts(attempts))
AttemptStarted == \E n \in Nodes : attempt_count'[n] > attempt_count[n]
\* A call that starts Attempts leaves at most MaxParallel running.
StartsWithinQuota == [][AttemptStarted => RunningCount' <= MaxParallel]_vars

\* ... and has first moved every node it could: none is left that only waits to
\* be looked at, no Subgraph is left running whose children are all done.
MovedAll ==
  \A n \in Nodes :
    /\ status[n] = "PENDING" /\ n \in Enabled /\ Condition[n] = {} => ~DependenciesSatisfied(n, status)
    /\ Kind[n] = "subgraph" /\ status[n] = "RUNNING" => ~SubgraphComplete(n, status)
StartsLast == [][AttemptStarted => MovedAll']_vars

\* Scheduling that goes on, executors and users that answer: what the documented
\* driver of a Run supplies while nobody intervenes in it.
Driver ==
  /\ \/ Schedule(Nodes, FALSE)
     \/ \E n \in Nodes : \/ CompleteBusiness(n) \/ RequestInteraction(n) \/ AnswerInteraction(n)
                         \/ \E action \in FailureActions : ApplyFailed(n, action)
                         \/ n \in Manual /\ OpenManualWait(n)
                         \/ ResumeManual(n)
                         \/ OpenGate(n) \/ SubmitProof(n)
                         \/ \E decision \in Decisions : SubmitGateDecision(n, decision)
  /\ WireValid'
DriverFairness ==
  /\ WF_vars(Schedule(Nodes, FALSE) /\ WireValid')
  /\ \A n \in Nodes :
       /\ SF_vars(CompleteBusiness(n) /\ WireValid')
       /\ WF_vars(AnswerInteraction(n) /\ WireValid') /\ WF_vars(ResumeManual(n) /\ WireValid')
       /\ WF_vars(OpenGate(n) /\ WireValid') /\ WF_vars(SubmitProof(n) /\ WireValid')
       /\ WF_vars((\E decision \in Decisions : SubmitGateDecision(n, decision)) /\ WireValid')
DriverSpec == Init /\ [][Driver]_vars /\ DriverFairness
\* Such a Run comes to its end: every node is resolved or, where the retries of
\* one have run out, at least nothing is left ready, running or waiting.
AtRest ==
  \A n \in Nodes : Kind[n] # "subgraph" =>
    status[n] \notin LiveStatuses \cup {"READY", "RETRY_READY", "FAILED"}
Finishes ==
  <>[](\/ \A n \in Nodes : status[n] \in ResolvedStatuses
       \/ AtRest /\ \E n \in Nodes : status[n] = "BLOCKED")

\* The log as its readers see it; what is verified is listed as such.
LedgerLog ==
  [n \in Nodes |-> [k \in Ordinals |->
     IF attempts[n][k].verified THEN "VERIFIED" ELSE attempts[n][k].status]]
Ledger == INSTANCE AttemptLedger WITH log <- LedgerLog
\* The Attempt log keeps the promise AttemptLedger states.
ImplementsLedger == Ledger!Spec
=============================================================================
