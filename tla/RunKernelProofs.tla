-------------------------- MODULE RunKernelProofs --------------------------
(***************************************************************************)
(* What RunKernel's runs check on small Workflows, proved for every        *)
(* Workflow, policy and bound that satisfies the assumptions of RunKernel: *)
(* types, the agreement of nodes and Attempts, Attempt counts and the      *)
(* refinement of AttemptLedger; and, of the scheduling loop, that it ends  *)
(* and where.                                                              *)
(***************************************************************************)
EXTENDS RunKernel, WellFoundedInduction, FiniteSetTheorems, TLAPS

\* A non-empty set of Gates has one that the document declares first.
LEMMA FirstDeclared ==
  ASSUME NEW S \in SUBSET Nodes, S # {}
  PROVE  \E g \in S : \A h \in S : Declared[g] <= Declared[h]
<1> DEFINE T == {Declared[g] : g \in S}
           Less == {p \in Nat \X Nat : p[1] < p[2]}
<1>1. T \subseteq Nat /\ T # {}
  BY GraphAssumption DEF GraphAssumption
<1>2. IsWellFoundedOn(Less, Nat)
  BY NatLessThanWellFounded DEF OpToRel
<1>3. \E x \in T : \A y \in T : ~ (<<y, x>> \in Less)
  <2> HIDE DEF T, Less
  <2> QED
    BY <1>1, <1>2, WFMin
<1>4. PICK x \in T : \A y \in T : ~ (<<y, x>> \in Less)
  BY <1>3
<1>5. \A i \in Nat, j \in Nat : <<i, j>> \notin Less => j <= i
  OBVIOUS
<1>6. \A y \in T : x <= y
  <2> HIDE DEF T, Less
  <2> QED
    BY <1>1, <1>4, <1>5
<1> QED
  BY <1>6

\* The Gate the scheduler opens next is a node, if any waits.
LEMMA FirstGateType ==
  ASSUME NEW st
  PROVE  FirstGate(st) \in Nodes \cup {None}
<1>1. CASE WaitingGates(st) = {}
  BY <1>1 DEF FirstGate
<1>2. CASE WaitingGates(st) # {}
  <2>1. WaitingGates(st) \in SUBSET Nodes
    BY DEF WaitingGates, TopLevel
  <2>2. \E g \in WaitingGates(st) : \A h \in WaitingGates(st) : Declared[g] <= Declared[h]
    BY <1>2, <2>1, FirstDeclared
  <2>3. FirstGate(st) \in WaitingGates(st)
    BY <1>2, <2>2 DEF FirstGate
  <2> QED
    BY <2>1, <2>3
<1> QED
  BY <1>1, <1>2

\* A node the loop considers gets a status of the table.
LEMMA DecideType ==
  ASSUME NEW before \in [Nodes -> Statuses], NEW st, NEW terminal, NEW n \in Nodes
  PROVE  Decide(before, st, terminal, n) \in Statuses
BY DEF Decide, Considered, Entered, Statuses, NodeStatuses

\* A round of the loop gives every node a status.
LEMMA RoundType ==
  ASSUME NEW before \in [Nodes -> Statuses], NEW st, NEW terminal
  PROVE  Round(before, st, terminal) \in [Nodes -> Statuses]
BY DecideType DEF Round

\* The status derived for the Run is one of the enumeration.
LEMMA WorkflowFromType ==
  ASSUME NEW st, NEW log, NEW fallback \in WorkflowStatuses
  PROVE  WorkflowFrom(st, log, fallback) \in WorkflowStatuses
BY DEF WorkflowFrom, WorkflowStatuses

\* Replacing one entry of the log by an Attempt leaves a log.
LEMMA LogUpdate ==
  ASSUME NEW log \in [Nodes -> [Ordinals -> Attempt]],
         NEW n \in Nodes, NEW k \in Ordinals, NEW a \in Attempt
  PROVE  [log EXCEPT ![n][k] = a] \in [Nodes -> [Ordinals -> Attempt]]
OBVIOUS

\* Giving one entry another status leaves a log that differs in that alone.
LEMMA LogStatus ==
  ASSUME NEW log \in [Nodes -> [Ordinals -> Attempt]],
         NEW n \in Nodes, NEW k \in Ordinals, NEW s \in AttemptStatuses
  PROVE  LET after == [log EXCEPT ![n][k].status = s] IN
         /\ after \in [Nodes -> [Ordinals -> Attempt]]
         /\ \A m \in Nodes : \A j \in Ordinals :
              /\ after[m][j].status = IF m = n /\ j = k THEN s ELSE log[m][j].status
              /\ after[m][j].verified = log[m][j].verified
              /\ after[m][j].inputs = log[m][j].inputs
<1> DEFINE after == [log EXCEPT ![n][k].status = s]
<1>1. log[n][k] \in Attempt
  OBVIOUS
<1>2. [log[n][k] EXCEPT !.status = s] \in Attempt
  BY <1>1 DEF Attempt
<1>3. after = [log EXCEPT ![n][k] = [log[n][k] EXCEPT !.status = s]]
  OBVIOUS
<1>4. after \in [Nodes -> [Ordinals -> Attempt]]
  BY <1>2, <1>3, LogUpdate
<1>5. /\ [log[n][k] EXCEPT !.status = s].status = s
      /\ [log[n][k] EXCEPT !.status = s].verified = log[n][k].verified
      /\ [log[n][k] EXCEPT !.status = s].inputs = log[n][k].inputs
  BY <1>1 DEF Attempt
<1>6. ASSUME NEW m \in Nodes, NEW j \in Ordinals
      PROVE  /\ after[m][j].status = IF m = n /\ j = k THEN s ELSE log[m][j].status
             /\ after[m][j].verified = log[m][j].verified
             /\ after[m][j].inputs = log[m][j].inputs
  BY <1>3, <1>5
<1> QED
  BY <1>4, <1>6

\* The inputs of a node are Artifact references.
LEMMA RefsType ==
  ASSUME TypeOK, NEW n \in Nodes, NEW st
  PROVE  InputRefs(n, st) \in SUBSET ArtifactRef
<1> DEFINE producers == IF Parent[n] # None /\ DependsOn[n] = {}
                        THEN {m \in TopLevel : st[m] \in SuccessStatuses}
                        ELSE DependsOn[n]
<1>1. producers \subseteq Nodes
  BY GraphAssumption DEF GraphAssumption, TopLevel
<1>2. \A m \in producers : artifact_refs[m] \subseteq ArtifactRef
  BY <1>1 DEF TypeOK
<1> QED
  BY <1>2 DEF InputRefs

\* The Attempt a scheduling call starts is an entry of the log.
LEMMA NewAttemptType ==
  ASSUME TypeOK, NEW n \in Nodes, NEW st
  PROVE  NewAttempt(n, st) \in Attempt
BY RefsType DEF NewAttempt, Attempt, AttemptStatuses, LiveStatuses, TypeOK

\* The Attempt an active node holds is one of its log.
LEMMA ActiveOrdinal ==
  ASSUME TypeOK, NEW n \in Nodes, Active(n)
  PROVE  active_attempt[n] \in Ordinals
BY BoundAssumption DEF TypeOK, Active, Ordinals, BoundAssumption

\* A node's own fields keep their types.
LEMMA SetAttemptType ==
  ASSUME TypeOK, NEW n \in Nodes, active_attempt[n] \in Ordinals, NEW s \in AttemptStatuses
  PROVE  SetAttempt(n, s) \in [Nodes -> [Ordinals -> Attempt]]
BY LogStatus DEF SetAttempt, TypeOK

\* A verified completion changes its own entry alone, to a completed one.
LEMMA LogVerified ==
  ASSUME NEW log \in [Nodes -> [Ordinals -> Attempt]], NEW n \in Nodes, NEW k \in Ordinals
  PROVE  LET after == [log EXCEPT ![n][k] = Verified(@)] IN
         /\ after \in [Nodes -> [Ordinals -> Attempt]]
         /\ \A m \in Nodes : \A j \in Ordinals :
              /\ after[m][j].status = IF m = n /\ j = k THEN "COMPLETED" ELSE log[m][j].status
              /\ m = n /\ j = k => after[m][j].verified
              /\ m # n \/ j # k => after[m][j].verified = log[m][j].verified
              /\ after[m][j].inputs = log[m][j].inputs
<1> DEFINE done == Verified(log[n][k])
           after == [log EXCEPT ![n][k] = Verified(@)]
<1>1. log[n][k] \in Attempt
  OBVIOUS
<1>2. /\ done \in Attempt /\ done.status = "COMPLETED" /\ done.verified = TRUE
      /\ done.inputs = log[n][k].inputs
  BY <1>1 DEF Attempt, AttemptStatuses, Verified
<1>3. after = [log EXCEPT ![n][k] = done]
  OBVIOUS
<1> HIDE DEF done, after
<1>4. after \in [Nodes -> [Ordinals -> Attempt]]
  BY <1>2, <1>3, LogUpdate
<1>5. \A m \in Nodes : \A j \in Ordinals :
        /\ after[m][j].status = IF m = n /\ j = k THEN "COMPLETED" ELSE log[m][j].status
        /\ m = n /\ j = k => after[m][j].verified
        /\ m # n \/ j # k => after[m][j].verified = log[m][j].verified
        /\ after[m][j].inputs = log[m][j].inputs
  BY <1>2, <1>3
<1> QED
  BY <1>4, <1>5 DEF after

\* Writing an Artifact leaves every status in the log alone.
LEMMA LogWrote ==
  ASSUME NEW log \in [Nodes -> [Ordinals -> Attempt]], NEW n \in Nodes, NEW k \in Ordinals
  PROVE  LET after == [log EXCEPT ![n][k].wrote = TRUE] IN
         /\ after \in [Nodes -> [Ordinals -> Attempt]]
         /\ \A m \in Nodes : \A j \in Ordinals :
              /\ after[m][j].status = log[m][j].status
              /\ after[m][j].verified = log[m][j].verified
              /\ after[m][j].inputs = log[m][j].inputs
<1> DEFINE written == [log[n][k] EXCEPT !.wrote = TRUE]
           after == [log EXCEPT ![n][k].wrote = TRUE]
<1>0. log[n][k] \in Attempt
  OBVIOUS
<1>1. /\ written \in Attempt
      /\ written.status = log[n][k].status /\ written.verified = log[n][k].verified
      /\ written.inputs = log[n][k].inputs
  BY <1>0 DEF Attempt
<1>2. after = [log EXCEPT ![n][k] = written]
  OBVIOUS
<1> HIDE DEF written, after
<1>3. after \in [Nodes -> [Ordinals -> Attempt]]
  BY <1>1, <1>2, LogUpdate
<1>4. \A m \in Nodes : \A j \in Ordinals :
        /\ after[m][j].status = log[m][j].status
        /\ after[m][j].verified = log[m][j].verified
        /\ after[m][j].inputs = log[m][j].inputs
  BY <1>1, <1>2
<1> QED
  BY <1>3, <1>4 DEF after

-----------------------------------------------------------------------------
\* The initial Snapshot has the declared types.
LEMMA InitType == Init => TypeOK
<1> SUFFICES ASSUME Init PROVE TypeOK
  OBVIOUS
<1>1. NoAttempt \in Attempt
  BY DEF NoAttempt, Attempt
<1>2. attempts \in [Nodes -> [Ordinals -> Attempt]]
  BY <1>1 DEF Init
<1>3. status \in [Nodes -> Statuses] /\ workflow_status \in WorkflowStatuses
  BY DEF Init, Statuses, NodeStatuses, WorkflowStatuses
<1>4. /\ active_attempt \in [Nodes -> 0 .. MaxAttempts]
      /\ attempt_count \in [Nodes -> 0 .. MaxAttempts]
      /\ global_research_cycle \in 0 .. MaxGlobalResearchCycles
  BY BoundAssumption DEF Init, BoundAssumption
<1>5. /\ artifact_refs \in [Nodes -> SUBSET ArtifactRef]
      /\ gate_decision \in [Nodes -> GateDecisions \cup {None}]
  BY DEF Init
<1> QED
  BY <1>2, <1>3, <1>4, <1>5 DEF Init, TypeOK

\* What the other proofs need of a scheduling call: where the loop settles is a
\* round of its own, and the started nodes are ready executable ones.
LEMMA ScheduleStep ==
  ASSUME TypeOK, NEW requested, NEW terminal, Schedule(requested, terminal)
  PROVE  \E after \in [Nodes -> Statuses], started \in SUBSET Nodes :
           /\ after = Round(status, after, terminal)
           /\ \A n \in started : n \in Executable /\ after[n] \in {"READY", "RETRY_READY"}
           /\ Launch(after, started)
<1>1. PICK after : after = Round(status, after, terminal) /\ Launch(after, Started(after, requested))
  BY DEF Schedule
<1>2. after \in [Nodes -> Statuses]
  BY <1>1, RoundType DEF TypeOK
<1>3. \A n \in Started(after, requested) :
         n \in Nodes /\ n \in Executable /\ after[n] \in {"READY", "RETRY_READY"}
  BY DEF Started, Executable
<1> QED
  BY <1>1, <1>2, <1>3

\* A scheduling call keeps the types.
LEMMA ScheduleType ==
  ASSUME TypeOK, NEW requested, NEW terminal, Schedule(requested, terminal)
  PROVE  TypeOK'
<1>1. PICK after \in [Nodes -> Statuses], started \in SUBSET Nodes : Launch(after, started)
  BY ScheduleStep
<1>2. status' \in [Nodes -> Statuses]
  BY <1>1 DEF Launch, Statuses, NodeStatuses
<1>3. attempt_count' \in [Nodes -> 0 .. MaxAttempts] /\ active_attempt' \in [Nodes -> 0 .. MaxAttempts]
  BY <1>1, BoundAssumption DEF TypeOK, BoundAssumption, Launch
<1>4. attempts' \in [Nodes -> [Ordinals -> Attempt]]
  BY <1>1, NewAttemptType DEF TypeOK, Launch
<1>5. workflow_status' \in WorkflowStatuses
  BY <1>1, WorkflowFromType DEF TypeOK, Launch
<1>6. current_gate' \in Nodes \cup {None}
  BY <1>1, FirstGateType DEF Launch
<1> QED
  BY <1>2, <1>3, <1>4, <1>5, <1>6 DEF TypeOK, Schedule, ledgerVars

\* Every operation of the Executor's side keeps the types.
LEMMA ExecutingType ==
  ASSUME TypeOK, Executing
  PROVE  TypeOK'
<1> USE DEF nodeVars, gateVars, ledgerVars
<1>1. ASSUME NEW n \in Nodes, CompleteBusiness(n) PROVE TypeOK'
  <2>1. active_attempt[n] \in Ordinals
    BY <1>1, ActiveOrdinal DEF CompleteBusiness
  <2>2. <<n, active_attempt[n], 2>> \in ArtifactRef
    BY <2>1, BoundAssumption DEF ArtifactRef, Ordinals, BoundAssumption
  <2>3. attempts' \in [Nodes -> [Ordinals -> Attempt]]
    BY <1>1, <2>1, LogVerified DEF CompleteBusiness, TypeOK
  <2>4. status' \in [Nodes -> Statuses] /\ workflow_status' \in WorkflowStatuses
    BY <1>1, WorkflowFromType DEF CompleteBusiness, TypeOK, Statuses, NodeStatuses, WorkflowStatuses
  <2>5. artifact_refs' \in [Nodes -> SUBSET ArtifactRef] /\ research_contract_ref' \in ArtifactRef \cup {None}
    BY <1>1, <2>2 DEF CompleteBusiness, TypeOK
  <2>6. active_attempt' \in [Nodes -> 0 .. MaxAttempts]
    BY <1>1, BoundAssumption DEF CompleteBusiness, TypeOK, BoundAssumption
  <2> QED
    BY <1>1, <2>3, <2>4, <2>5, <2>6 DEF CompleteBusiness, TypeOK
<1>2. ASSUME NEW n \in Nodes, ApplyCompleted(n) PROVE TypeOK'
  <2>1. attempts' \in [Nodes -> [Ordinals -> Attempt]]
    BY <1>2, ActiveOrdinal, SetAttemptType DEF ApplyCompleted, AttemptStatuses
  <2>2. status' \in [Nodes -> Statuses] /\ workflow_status' \in WorkflowStatuses
    BY <1>2, WorkflowFromType DEF ApplyCompleted, TypeOK, Statuses, NodeStatuses, WorkflowStatuses
  <2>3. artifact_refs' \in [Nodes -> SUBSET ArtifactRef]
    BY <1>2 DEF ApplyCompleted, TypeOK
  <2>4. active_attempt' \in [Nodes -> 0 .. MaxAttempts] /\ budget_exhausted' \in BOOLEAN
    BY <1>2, BoundAssumption, InputAssumption
    DEF ApplyCompleted, ReportUsage, TypeOK, BoundAssumption, InputAssumption
  <2> QED
    BY <1>2, <2>1, <2>2, <2>3, <2>4 DEF ApplyCompleted, TypeOK
<1>3. ASSUME NEW n \in Nodes, NEW action, ApplyFailed(n, action) PROVE TypeOK'
  <2>1. attempts' \in [Nodes -> [Ordinals -> Attempt]]
    BY <1>3, ActiveOrdinal, SetAttemptType DEF ApplyFailed, AttemptStatuses
  <2>2. status' \in [Nodes -> Statuses]
    BY <1>3 DEF ApplyFailed, FailureTarget, TypeOK, Statuses, NodeStatuses
  <2>3. ForcedWorkflow(action) \in WorkflowStatuses \cup {None}
    BY DEF ForcedWorkflow, WorkflowStatuses
  <2>4. workflow_status' \in WorkflowStatuses
    BY <1>3, <2>3, WorkflowFromType DEF ApplyFailed, WorkflowStatuses
  <2>5. global_research_cycle' \in 0 .. MaxGlobalResearchCycles
    BY <1>3, BoundAssumption DEF ApplyFailed, ResearchCyclesSpent, TypeOK, BoundAssumption
  <2>6. active_attempt' \in [Nodes -> 0 .. MaxAttempts] /\ budget_exhausted' \in BOOLEAN
    BY <1>3, BoundAssumption, InputAssumption
    DEF ApplyFailed, ReportUsage, TypeOK, BoundAssumption, InputAssumption
  <2>7. not_ready' \in BOOLEAN
    BY <1>3 DEF ApplyFailed, TypeOK
  <2> QED
    BY <1>3, <2>1, <2>2, <2>4, <2>5, <2>6, <2>7 DEF ApplyFailed, TypeOK
<1>4. ASSUME NEW n \in Nodes, RequestInteraction(n) PROVE TypeOK'
  <2>1. attempts' \in [Nodes -> [Ordinals -> Attempt]]
    BY <1>4, ActiveOrdinal, SetAttemptType DEF RequestInteraction, AttemptStatuses, LiveStatuses
  <2>2. current_interaction' \in AttemptId
    BY <1>4, ActiveOrdinal DEF RequestInteraction, AttemptId
  <2>3. status' \in [Nodes -> Statuses] /\ workflow_status' \in WorkflowStatuses
    BY <1>4 DEF RequestInteraction, TypeOK, Statuses, NodeStatuses, WorkflowStatuses
  <2>4. budget_exhausted' \in BOOLEAN
    BY <1>4, InputAssumption DEF RequestInteraction, ReportUsage, TypeOK, InputAssumption
  <2> QED
    BY <1>4, <2>1, <2>2, <2>3, <2>4 DEF RequestInteraction, TypeOK
<1>5. ASSUME NEW n \in Nodes, OpenManualWait(n) PROVE TypeOK'
  <2>0. PICK k \in Ordinals : attempts' = [attempts EXCEPT ![n][k].status = "WAITING_FOR_EXTERNAL"]
    BY <1>5 DEF OpenManualWait
  <2>1. attempts' \in [Nodes -> [Ordinals -> Attempt]]
    BY <2>0, LogStatus DEF TypeOK, AttemptStatuses, LiveStatuses
  <2>2. status' \in [Nodes -> Statuses] /\ workflow_status' \in WorkflowStatuses
    BY <1>5 DEF OpenManualWait, TypeOK, Statuses, NodeStatuses, WorkflowStatuses
  <2>3. active_attempt' \in [Nodes -> 0 .. MaxAttempts]
    BY <1>5, BoundAssumption DEF OpenManualWait, TypeOK, Ordinals, BoundAssumption
  <2> QED
    BY <1>5, <2>1, <2>2, <2>3 DEF OpenManualWait, TypeOK
<1>6. ASSUME NEW n \in Nodes, ResumeManual(n) PROVE TypeOK'
  <2>0. PICK k \in Ordinals : attempts' = [attempts EXCEPT ![n][k].status = "RUNNING"]
    BY <1>6 DEF ResumeManual
  <2>1. attempts' \in [Nodes -> [Ordinals -> Attempt]]
    BY <2>0, LogStatus DEF TypeOK, AttemptStatuses, LiveStatuses
  <2>2. status' \in [Nodes -> Statuses] /\ workflow_status' \in WorkflowStatuses
    BY <1>6 DEF ResumeManual, TypeOK, Statuses, NodeStatuses, WorkflowStatuses
  <2>3. active_attempt' \in [Nodes -> 0 .. MaxAttempts]
    BY <1>6, BoundAssumption DEF ResumeManual, TypeOK, Ordinals, BoundAssumption
  <2> QED
    BY <1>6, <2>1, <2>2, <2>3 DEF ResumeManual, TypeOK
<1>7. ASSUME NEW n \in Nodes, NEW k \in Ordinals, WriteArtifact(n, k) PROVE TypeOK'
  <2>1. attempts' \in [Nodes -> [Ordinals -> Attempt]]
    BY <1>7, LogWrote DEF WriteArtifact, TypeOK
  <2>2. <<n, k, 1>> \in ArtifactRef
    BY BoundAssumption DEF ArtifactRef, Ordinals, BoundAssumption
  <2>3. artifact_refs' \in [Nodes -> SUBSET ArtifactRef]
    BY <1>7, <2>2 DEF WriteArtifact, TypeOK
  <2> QED
    BY <1>7, <2>1, <2>3 DEF WriteArtifact, TypeOK
<1> QED
  BY <1>1, <1>2, <1>3, <1>4, <1>5, <1>6, <1>7 DEF Executing

\* So does every answer of the user ...
LEMMA DecidingType ==
  ASSUME TypeOK, Deciding
  PROVE  TypeOK'
<1> USE DEF nodeVars, gateVars, ledgerVars
<1>1. ASSUME NEW n \in Nodes, AnswerInteraction(n) PROVE TypeOK'
  <2>1. active_attempt[n] \in Ordinals
    BY <1>1, BoundAssumption DEF AnswerInteraction, TypeOK, Ordinals, BoundAssumption
  <2>2. attempts' \in [Nodes -> [Ordinals -> Attempt]]
    BY <1>1, <2>1, SetAttemptType DEF AnswerInteraction, AttemptStatuses, LiveStatuses
  <2>3. status' \in [Nodes -> Statuses] /\ workflow_status' \in WorkflowStatuses
    BY <1>1 DEF AnswerInteraction, TypeOK, Statuses, NodeStatuses, WorkflowStatuses
  <2> QED
    BY <1>1, <2>2, <2>3 DEF AnswerInteraction, TypeOK
<1>2. ASSUME NEW n \in Nodes, OpenGate(n) PROVE TypeOK'
  <2>1. status' \in [Nodes -> Statuses] /\ workflow_status' \in WorkflowStatuses
    BY <1>2 DEF OpenGate, TypeOK, Statuses, NodeStatuses, WorkflowStatuses
  <2> QED
    BY <1>2, <2>1 DEF OpenGate, TypeOK
<1>3. ASSUME NEW n \in Nodes, ModifyGate(n) PROVE TypeOK'
  BY <1>3 DEF ModifyGate, TypeOK
<1>4. ASSUME NEW n \in Nodes, SubmitProof(n) PROVE TypeOK'
  <2>1. status' \in [Nodes -> Statuses] /\ workflow_status' \in WorkflowStatuses
    BY <1>4, WorkflowFromType DEF SubmitProof, TypeOK, Statuses, NodeStatuses, WorkflowStatuses
  <2>2. active_attempt' \in [Nodes -> 0 .. MaxAttempts]
    BY <1>4, BoundAssumption DEF SubmitProof, TypeOK, BoundAssumption
  <2>3. artifact_refs' \in [Nodes -> SUBSET ArtifactRef]
    BY <1>4, BoundAssumption DEF SubmitProof, TypeOK, ArtifactRef, BoundAssumption
  <2> QED
    BY <1>4, <2>1, <2>2, <2>3 DEF SubmitProof, TypeOK
<1>5. ASSUME NEW n \in Nodes, NEW decision \in Decisions, SubmitGateDecision(n, decision)
      PROVE  TypeOK'
  <2>1. status' \in [Nodes -> Statuses] /\ workflow_status' \in WorkflowStatuses
    BY <1>5, WorkflowFromType DEF SubmitGateDecision, TypeOK, Statuses, NodeStatuses, WorkflowStatuses
  <2>2. gate_decision' \in [Nodes -> GateDecisions \cup {None}]
    BY <1>5, InputAssumption DEF SubmitGateDecision, TypeOK, InputAssumption
  <2> QED
    BY <1>5, <2>1, <2>2 DEF SubmitGateDecision, TypeOK
<1> QED
  BY <1>1, <1>2, <1>3, <1>4, <1>5 DEF Deciding

\* ... and every control operation.
LEMMA OperatingType ==
  ASSUME TypeOK, Operating
  PROVE  TypeOK'
<1> USE DEF nodeVars, gateVars, ledgerVars
<1>1. ASSUME NEW target \in WorkflowStatuses, SetWorkflow(target) PROVE TypeOK'
  BY <1>1 DEF SetWorkflow, TypeOK
<1>2. CASE PauseRun \/ ResumeRun \/ CancelRun
  BY <1>1, <1>2 DEF PauseRun, ResumeRun, CancelRun, WorkflowStatuses
<1>3. CASE ResumeInvalidated
  <2>1. status' \in [Nodes -> Statuses]
    BY <1>3 DEF ResumeInvalidated, TypeOK, Statuses, NodeStatuses
  <2> QED
    BY <1>3, <2>1 DEF ResumeInvalidated, TypeOK
<1>4. ASSUME NEW n \in Nodes, RetryNode(n) PROVE TypeOK'
  <2>1. status' \in [Nodes -> Statuses] /\ workflow_status' \in WorkflowStatuses
    BY <1>4 DEF RetryNode, TypeOK, Statuses, NodeStatuses, WorkflowStatuses
  <2>2. active_attempt' \in [Nodes -> 0 .. MaxAttempts]
    BY <1>4, BoundAssumption DEF RetryNode, TypeOK, BoundAssumption
  <2> QED
    BY <1>4, <2>1, <2>2 DEF RetryNode, TypeOK
<1>5. ASSUME NEW root \in Nodes, InvalidateDownstream(root) PROVE TypeOK'
  <2> DEFINE targets == DependentsOf[root]
  <2>1. status' \in [Nodes -> Statuses] /\ workflow_status' \in WorkflowStatuses
    BY <1>5 DEF InvalidateDownstream, TypeOK, Statuses, NodeStatuses, WorkflowStatuses
  <2>2. active_attempt' \in [Nodes -> 0 .. MaxAttempts]
    BY <1>5, BoundAssumption DEF InvalidateDownstream, TypeOK, BoundAssumption
  <2>3. artifact_refs' \in [Nodes -> SUBSET ArtifactRef]
    BY <1>5 DEF InvalidateDownstream, TypeOK
  <2>4. gate_decision' \in [Nodes -> GateDecisions \cup {None}]
    BY <1>5 DEF InvalidateDownstream, TypeOK
  <2>5. \A n \in Nodes : \A k \in Ordinals :
          [attempts[n][k] EXCEPT !.status = "INVALIDATED"] \in Attempt
    <3>1. \A a \in Attempt : [a EXCEPT !.status = "INVALIDATED"] \in Attempt
      BY DEF Attempt, AttemptStatuses
    <3> QED
      BY <3>1 DEF TypeOK
  <2>6. attempts' \in [Nodes -> [Ordinals -> Attempt]]
    BY <1>5, <2>5 DEF InvalidateDownstream, TypeOK
  <2>7. /\ current_gate' \in Nodes \cup {None} /\ gate_request' \in Nodes \cup {None}
        /\ gate_modification' \in Nodes \cup {None}
        /\ current_interaction' \in AttemptId \cup {None}
    BY <1>5 DEF InvalidateDownstream, TypeOK
  <2> QED
    BY <1>5, <2>1, <2>2, <2>3, <2>4, <2>6, <2>7 DEF InvalidateDownstream, TypeOK
<1> QED
  BY <1>2, <1>3, <1>4, <1>5, InputAssumption DEF Operating, InputAssumption

\* TypeOK is inductive.
LEMMA TypeStep == TypeOK /\ [Next]_vars => TypeOK'
<1> SUFFICES ASSUME TypeOK, [Next]_vars PROVE TypeOK'
  OBVIOUS
<1>1. CASE Scheduling
  <2>1. CASE ScheduleOutOfTime
    BY <2>1 DEF ScheduleOutOfTime, TypeOK, WorkflowStatuses, nodeVars, gateVars, ledgerVars
  <2> QED
    BY <1>1, <2>1, ScheduleType DEF Scheduling
<1>2. CASE UNCHANGED vars
  BY <1>2 DEF vars, nodeVars, gateVars, ledgerVars, TypeOK
<1> QED
  BY <1>1, <1>2, ExecutingType, DecidingType, OperatingType DEF Next

\* Every reachable Snapshot has the declared types: no ordinal outgrows the log,
\* no reference points outside it, the cycle stays within the policy's limit.
THEOREM TypeCorrect == Spec => []TypeOK
BY InitType, TypeStep, PTL DEF Spec

-----------------------------------------------------------------------------
(***************************************************************************)
(* Nodes and their Attempts.  NodeAttemptAgreement is not inductive alone: *)
(* a new Attempt must find its place in the log empty, which the counts    *)
(* say, and what ends a wait of a node that has no Executor must find no   *)
(* Attempt of it.                                                          *)
(***************************************************************************)
AgreementInv ==
  /\ TypeOK
  /\ NodeAttemptAgreement
  /\ AttemptsCounted
  /\ \A n \in Nodes \ Executable : attempt_count[n] = 0

\* The loop neither takes an executable node out of a live status nor into one.
LEMMA DecideExecutable ==
  ASSUME NEW before \in [Nodes -> Statuses], NEW st, NEW terminal, NEW n \in Executable
  PROVE  LET decided == Decide(before, st, terminal, n) IN
         /\ before[n] \in LiveStatuses => decided = before[n]
         /\ decided \in LiveStatuses => decided = before[n]
<1>1. n \in Nodes /\ Kind[n] \in ExecutableKinds
  BY DEF Executable
<1>2. Entered(n, st) = "READY"
  BY <1>1 DEF Entered, ExecutableKinds
<1>3. Considered(n, st, terminal) \in {"SKIPPED", "PENDING", "READY"}
  BY <1>2 DEF Considered
<1> QED
  BY <1>1, <1>2, <1>3 DEF Decide, LiveStatuses, ExecutableKinds

\* A node none of whose Attempts is live has a free place for the next one.
LEMMA ScheduleAgreement ==
  ASSUME AgreementInv, NEW requested, NEW terminal, Schedule(requested, terminal)
  PROVE  AgreementInv'
<1>1. PICK after \in [Nodes -> Statuses], started \in SUBSET Nodes :
        /\ after = Round(status, after, terminal)
        /\ \A n \in started : n \in Executable /\ after[n] \in {"READY", "RETRY_READY"}
        /\ Launch(after, started)
  BY ScheduleStep DEF AgreementInv
<1>2. \A n \in Executable : /\ status[n] \in LiveStatuses => after[n] = status[n]
                            /\ after[n] \in LiveStatuses => after[n] = status[n]
  <2> SUFFICES ASSUME NEW n \in Executable
               PROVE  /\ status[n] \in LiveStatuses => after[n] = status[n]
                      /\ after[n] \in LiveStatuses => after[n] = status[n]
    OBVIOUS
  <2>1. after[n] = Decide(status, after, terminal, n)
    BY <1>1 DEF Round, Executable
  <2> QED
    BY <2>1, DecideExecutable DEF AgreementInv, TypeOK
<1>3. TypeOK'
  BY ScheduleType DEF AgreementInv
<1>4. \A n \in started : attempt_count[n] + 1 \in Ordinals
  BY <1>1, BoundAssumption DEF Launch, AgreementInv, TypeOK, Ordinals, BoundAssumption
<1>5. \A n \in Nodes : \A k \in Ordinals :
        attempts'[n][k].status = IF n \in started /\ k = attempt_count[n] + 1
                                 THEN "RUNNING" ELSE attempts[n][k].status
  BY <1>1 DEF Launch, NewAttempt
<1>6. NodeAttemptAgreement'
  <2> SUFFICES ASSUME NEW n \in Nodes
               PROVE  /\ \A k \in Ordinals :
                           attempts'[n][k].status \in LiveStatuses =>
                             active_attempt'[n] = k /\ status'[n] = attempts'[n][k].status
                      /\ n \in Executable /\ status'[n] \in LiveStatuses =>
                           /\ active_attempt'[n] # 0
                           /\ attempts'[n][active_attempt'[n]].status = status'[n]
    BY DEF NodeAttemptAgreement
  <2>1. CASE n \in started
    <3>1. status[n] \notin LiveStatuses
      BY <1>1, <1>2, <2>1 DEF LiveStatuses
    <3>2. \A k \in Ordinals : attempts[n][k].status \notin LiveStatuses
      BY <3>1 DEF AgreementInv, NodeAttemptAgreement
    <3>3. status'[n] = "RUNNING" /\ active_attempt'[n] = attempt_count[n] + 1
      BY <1>1, <2>1 DEF Launch
    <3> QED
      BY <1>4, <1>5, <2>1, <3>2, <3>3 DEF Ordinals
  <2>2. CASE n \notin started
    <3>1. /\ status'[n] = after[n] /\ active_attempt'[n] = active_attempt[n]
          /\ \A k \in Ordinals : attempts'[n][k] = attempts[n][k]
      BY <1>1, <2>2 DEF Launch
    <3>2. active_attempt[n] # 0 => active_attempt[n] \in Ordinals
      BY BoundAssumption DEF AgreementInv, TypeOK, Ordinals, BoundAssumption
    <3>3. CASE n \in Executable
      BY <1>2, <3>1, <3>2, <3>3 DEF AgreementInv, NodeAttemptAgreement
    <3>4. CASE n \notin Executable
      <4>1. \A k \in Ordinals : attempts[n][k].status = "NONE"
        BY <3>4 DEF AgreementInv, AttemptsCounted, Ordinals
      <4> QED
        BY <3>1, <3>4, <4>1 DEF LiveStatuses
    <3> QED
      BY <3>3, <3>4
  <2> QED
    BY <2>1, <2>2
<1>7. AttemptsCounted'
  <2> SUFFICES ASSUME NEW n \in Nodes, NEW k \in Ordinals
               PROVE  attempts'[n][k].status # "NONE" <=> k <= attempt_count'[n]
    BY DEF AttemptsCounted
  <2>1. attempts[n][k].status # "NONE" <=> k <= attempt_count[n]
    BY DEF AgreementInv, AttemptsCounted
  <2>2. attempt_count'[n] = IF n \in started THEN attempt_count[n] + 1 ELSE attempt_count[n]
    BY <1>1 DEF Launch
  <2>3. attempt_count[n] \in Nat /\ k \in Nat
    BY BoundAssumption DEF AgreementInv, TypeOK, Ordinals, BoundAssumption
  <2> QED
    BY <1>5, <2>1, <2>2, <2>3
<1>8. \A n \in Nodes \ Executable : attempt_count'[n] = 0
  BY <1>1 DEF Launch, AgreementInv
<1> QED
  BY <1>3, <1>6, <1>7, <1>8 DEF AgreementInv

\* One entry of the log and its node move together: both to the same live
\* status, or both out of every live status.
MovesTogether(n, k, s, a) ==
  /\ attempts[n][k].status \in LiveStatuses
  /\ status' = [status EXCEPT ![n] = s]
  /\ \A m \in Nodes : \A j \in Ordinals :
       attempts'[m][j].status = IF m = n /\ j = k THEN a ELSE attempts[m][j].status
  /\ \A m \in Nodes \ {n} : active_attempt'[m] = active_attempt[m]
  /\ \/ s = a /\ active_attempt'[n] = k
     \/ s \notin LiveStatuses /\ a \notin LiveStatuses
  /\ attempt_count' = attempt_count

\* A node and its live Attempt that change status together go on agreeing.
LEMMA MoveTogether ==
  ASSUME AgreementInv, TypeOK', NEW n \in Nodes, NEW k \in Ordinals,
         NEW s \in Statuses, NEW a \in AttemptStatuses, MovesTogether(n, k, s, a)
  PROVE  AgreementInv'
<1> USE DEF MovesTogether
<1>1. NodeAttemptAgreement'
  <2> SUFFICES ASSUME NEW m \in Nodes
               PROVE  /\ \A j \in Ordinals :
                           attempts'[m][j].status \in LiveStatuses =>
                             active_attempt'[m] = j /\ status'[m] = attempts'[m][j].status
                      /\ m \in Executable /\ status'[m] \in LiveStatuses =>
                           /\ active_attempt'[m] # 0
                           /\ attempts'[m][active_attempt'[m]].status = status'[m]
    BY DEF NodeAttemptAgreement
  <2>1. status'[m] = IF m = n THEN s ELSE status[m]
    BY DEF AgreementInv, TypeOK
  <2>2. CASE m = n
    <3>1. \A j \in Ordinals \ {k} : attempts[n][j].status \notin LiveStatuses
      BY DEF AgreementInv, NodeAttemptAgreement
    <3> QED
      BY <2>1, <2>2, <3>1 DEF Ordinals
  <2>3. CASE m # n
    <3>1. active_attempt[m] # 0 => active_attempt[m] \in Ordinals
      BY BoundAssumption DEF AgreementInv, TypeOK, Ordinals, BoundAssumption
    <3> QED
      BY <2>1, <2>3, <3>1 DEF AgreementInv, NodeAttemptAgreement
  <2> QED
    BY <2>2, <2>3
<1>2. AttemptsCounted'
  BY DEF AgreementInv, AttemptsCounted, AttemptStatuses, LiveStatuses
<1> QED
  BY <1>1, <1>2 DEF AgreementInv

\* The Attempt a node holds is live while the node shows a live status.
LEMMA HeldAttempt ==
  ASSUME AgreementInv, NEW n \in Nodes, active_attempt[n] # 0
  PROVE  active_attempt[n] \in Ordinals
BY BoundAssumption DEF AgreementInv, TypeOK, Ordinals, BoundAssumption

\* Every result keeps node and Attempt together.
LEMMA ExecutingAgreement ==
  ASSUME AgreementInv, Executing
  PROVE  AgreementInv'
<1>1. TypeOK'
  BY ExecutingType DEF AgreementInv
<1> USE DEF LiveStatuses, AttemptStatuses, Statuses, NodeStatuses
<1>2. ASSUME NEW n \in Nodes, CompleteBusiness(n) PROVE AgreementInv'
  <2> DEFINE k == active_attempt[n]
  <2>1. k \in Ordinals /\ attempts[n][k].status = "RUNNING"
    BY <1>2, HeldAttempt DEF CompleteBusiness, Active
  <2>2. attempts' = [attempts EXCEPT ![n][k] = Verified(@)]
    BY <1>2 DEF CompleteBusiness
  <2>3. attempts \in [Nodes -> [Ordinals -> Attempt]]
    BY DEF AgreementInv, TypeOK
  <2>4. \A m \in Nodes \ {n} : active_attempt'[m] = active_attempt[m]
    BY <1>2 DEF CompleteBusiness, AgreementInv, TypeOK
  <2> HIDE DEF k
  <2>5. \A m \in Nodes : \A j \in Ordinals :
          attempts'[m][j].status = IF m = n /\ j = k THEN "COMPLETED" ELSE attempts[m][j].status
    BY <2>1, <2>2, <2>3, LogVerified
  <2>6. MovesTogether(n, k, "VERIFIED", "COMPLETED")
    BY <1>2, <2>1, <2>4, <2>5 DEF CompleteBusiness, MovesTogether
  <2> QED
    BY <1>1, <2>1, <2>6, MoveTogether
<1>3. ASSUME NEW n \in Nodes, ApplyCompleted(n) PROVE AgreementInv'
  <2>1. active_attempt[n] \in Ordinals
    BY <1>3, HeldAttempt DEF ApplyCompleted, Active
  <2>2. \A m \in Nodes : \A j \in Ordinals :
          attempts'[m][j].status = IF m = n /\ j = active_attempt[n] THEN "COMPLETED"
                                   ELSE attempts[m][j].status
    BY <1>3, <2>1, LogStatus DEF ApplyCompleted, SetAttempt, AgreementInv, TypeOK
  <2>3. \A m \in Nodes \ {n} : active_attempt'[m] = active_attempt[m]
    BY <1>3 DEF ApplyCompleted, AgreementInv, TypeOK
  <2>9. MovesTogether(n, active_attempt[n], "COMPLETED", "COMPLETED")
    BY <1>3, <2>1, <2>2, <2>3 DEF ApplyCompleted, Active, MovesTogether
  <2> QED
    BY <1>1, <2>1, <2>9, MoveTogether
<1>4. ASSUME NEW n \in Nodes, NEW action, ApplyFailed(n, action) PROVE AgreementInv'
  <2>1. active_attempt[n] \in Ordinals
    BY <1>4, HeldAttempt DEF ApplyFailed, Active
  <2>2. \A m \in Nodes : \A j \in Ordinals :
          attempts'[m][j].status = IF m = n /\ j = active_attempt[n] THEN "FAILED"
                                   ELSE attempts[m][j].status
    BY <1>4, <2>1, LogStatus DEF ApplyFailed, SetAttempt, AgreementInv, TypeOK
  <2>3. \A m \in Nodes \ {n} : active_attempt'[m] = active_attempt[m]
    BY <1>4 DEF ApplyFailed, AgreementInv, TypeOK
  <2>4. FailureTarget(n, action) \in Statuses \ LiveStatuses
    BY DEF FailureTarget
  <2>9. MovesTogether(n, active_attempt[n], FailureTarget(n, action), "FAILED")
    BY <1>4, <2>1, <2>2, <2>3, <2>4 DEF ApplyFailed, Active, MovesTogether
  <2> QED
    BY <1>1, <2>1, <2>9, <2>4, MoveTogether
<1>5. ASSUME NEW n \in Nodes, RequestInteraction(n) PROVE AgreementInv'
  <2>1. active_attempt[n] \in Ordinals
    BY <1>5, HeldAttempt DEF RequestInteraction, Active
  <2>2. \A m \in Nodes : \A j \in Ordinals :
          attempts'[m][j].status = IF m = n /\ j = active_attempt[n] THEN "WAITING_FOR_USER"
                                   ELSE attempts[m][j].status
    BY <1>5, <2>1, LogStatus DEF RequestInteraction, SetAttempt, AgreementInv, TypeOK
  <2>9. MovesTogether(n, active_attempt[n], "WAITING_FOR_USER", "WAITING_FOR_USER")
    BY <1>5, <2>1, <2>2 DEF RequestInteraction, Active, MovesTogether
  <2> QED
    BY <1>1, <2>1, <2>9, MoveTogether
<1>6. ASSUME NEW n \in Nodes, OpenManualWait(n) PROVE AgreementInv'
  <2>1. PICK k \in Ordinals :
          /\ attempts[n][k].status = "RUNNING"
          /\ attempts' = [attempts EXCEPT ![n][k].status = "WAITING_FOR_EXTERNAL"]
          /\ active_attempt' = [active_attempt EXCEPT ![n] = k]
    BY <1>6 DEF OpenManualWait
  <2>2. \A m \in Nodes : \A j \in Ordinals :
          attempts'[m][j].status = IF m = n /\ j = k THEN "WAITING_FOR_EXTERNAL"
                                   ELSE attempts[m][j].status
    BY <2>1, LogStatus DEF AgreementInv, TypeOK
  <2>3. active_attempt'[n] = k /\ \A m \in Nodes \ {n} : active_attempt'[m] = active_attempt[m]
    BY <2>1 DEF AgreementInv, TypeOK
  <2>9. MovesTogether(n, k, "WAITING_FOR_EXTERNAL", "WAITING_FOR_EXTERNAL")
    BY <1>6, <2>1, <2>2, <2>3 DEF OpenManualWait, MovesTogether
  <2> QED
    BY <1>1, <2>1, <2>9, MoveTogether
<1>7. ASSUME NEW n \in Nodes, ResumeManual(n) PROVE AgreementInv'
  <2>1. PICK k \in Ordinals :
          /\ attempts[n][k].status = "WAITING_FOR_EXTERNAL"
          /\ attempts' = [attempts EXCEPT ![n][k].status = "RUNNING"]
          /\ active_attempt' = [active_attempt EXCEPT ![n] = k]
    BY <1>7 DEF ResumeManual
  <2>2. \A m \in Nodes : \A j \in Ordinals :
          attempts'[m][j].status = IF m = n /\ j = k THEN "RUNNING" ELSE attempts[m][j].status
    BY <2>1, LogStatus DEF AgreementInv, TypeOK
  <2>3. active_attempt'[n] = k /\ \A m \in Nodes \ {n} : active_attempt'[m] = active_attempt[m]
    BY <2>1 DEF AgreementInv, TypeOK
  <2>9. MovesTogether(n, k, "RUNNING", "RUNNING")
    BY <1>7, <2>1, <2>2, <2>3 DEF ResumeManual, MovesTogether
  <2> QED
    BY <1>1, <2>1, <2>9, MoveTogether
<1>8. ASSUME NEW n \in Nodes, NEW k \in Ordinals, WriteArtifact(n, k) PROVE AgreementInv'
  <2>1. \A m \in Nodes : \A j \in Ordinals : attempts'[m][j].status = attempts[m][j].status
    BY <1>8, LogWrote DEF WriteArtifact, AgreementInv, TypeOK
  <2>2. \A m \in Nodes : active_attempt[m] # 0 => active_attempt[m] \in Ordinals
    BY HeldAttempt
  <2> QED
    BY <1>1, <1>8, <2>1, <2>2
    DEF WriteArtifact, AgreementInv, NodeAttemptAgreement, AttemptsCounted
<1> QED
  BY <1>2, <1>3, <1>4, <1>5, <1>6, <1>7, <1>8 DEF Executing

\* A status change of a node without live Attempts, to no live status or of a
\* node that has no Executor, disturbs nothing.
LEMMA MoveAlone ==
  ASSUME AgreementInv, TypeOK', attempts' = attempts, attempt_count' = attempt_count,
         \A n \in Nodes :
           \/ status'[n] = status[n] /\ active_attempt'[n] = active_attempt[n]
           \/ n \notin Executable
           \/ status[n] \notin LiveStatuses /\ status'[n] \notin LiveStatuses
  PROVE  AgreementInv'
<1>1. NodeAttemptAgreement'
  <2> SUFFICES ASSUME NEW n \in Nodes
               PROVE  /\ \A k \in Ordinals :
                           attempts'[n][k].status \in LiveStatuses =>
                             active_attempt'[n] = k /\ status'[n] = attempts'[n][k].status
                      /\ n \in Executable /\ status'[n] \in LiveStatuses =>
                           /\ active_attempt'[n] # 0
                           /\ attempts'[n][active_attempt'[n]].status = status'[n]
    BY DEF NodeAttemptAgreement
  <2>1. CASE n \notin Executable
    <3>1. \A k \in Ordinals : attempts[n][k].status = "NONE"
      BY <2>1 DEF AgreementInv, AttemptsCounted, Ordinals
    <3> QED
      BY <2>1, <3>1 DEF LiveStatuses
  <2>2. CASE n \in Executable
    BY <2>2 DEF AgreementInv, NodeAttemptAgreement
  <2> QED
    BY <2>1, <2>2
<1> QED
  BY <1>1 DEF AgreementInv, AttemptsCounted

\* So does every answer of the user ...
LEMMA DecidingAgreement ==
  ASSUME AgreementInv, Deciding
  PROVE  AgreementInv'
<1>1. TypeOK'
  BY DecidingType DEF AgreementInv
<1>2. ASSUME NEW n \in Nodes, AnswerInteraction(n) PROVE AgreementInv'
  <2>1. active_attempt[n] \in Ordinals
    BY <1>2, HeldAttempt DEF AnswerInteraction
  <2>2. \A m \in Nodes : \A j \in Ordinals :
          attempts'[m][j].status = IF m = n /\ j = active_attempt[n] THEN "RUNNING"
                                   ELSE attempts[m][j].status
    BY <1>2, <2>1, LogStatus
    DEF AnswerInteraction, SetAttempt, AgreementInv, TypeOK, AttemptStatuses, LiveStatuses
  <2>9. MovesTogether(n, active_attempt[n], "RUNNING", "RUNNING")
    BY <1>2, <2>1, <2>2 DEF AnswerInteraction, LiveStatuses, AttemptStatuses, Statuses, NodeStatuses, MovesTogether
  <2> QED
    BY <1>1, <2>1, <2>9, MoveTogether DEF AttemptStatuses, LiveStatuses, Statuses, NodeStatuses
<1>3. ASSUME NEW n \in Nodes, OpenGate(n) PROVE AgreementInv'
  <2>1. n \notin Executable
    BY <1>3 DEF OpenGate, Executable, ExecutableKinds
  <2> QED
    BY <1>1, <1>3, <2>1, MoveAlone DEF OpenGate, AgreementInv, TypeOK
<1>4. ASSUME NEW n \in Nodes, ModifyGate(n) PROVE AgreementInv'
  BY <1>1, <1>4, MoveAlone DEF ModifyGate, nodeVars
<1>5. ASSUME NEW n \in Nodes, SubmitProof(n) PROVE AgreementInv'
  <2>1. n \notin Executable
    BY <1>5 DEF SubmitProof, Executable, ExecutableKinds
  <2> QED
    BY <1>1, <1>5, <2>1, MoveAlone DEF SubmitProof, AgreementInv, TypeOK
<1>6. ASSUME NEW n \in Nodes, NEW decision \in Decisions, SubmitGateDecision(n, decision)
      PROVE  AgreementInv'
  <2>1. n \notin Executable
    BY <1>6 DEF SubmitGateDecision, GateAwaitsDecision, Executable, ExecutableKinds
  <2> QED
    BY <1>1, <1>6, <2>1, MoveAlone DEF SubmitGateDecision, AgreementInv, TypeOK
<1> QED
  BY <1>2, <1>3, <1>4, <1>5, <1>6 DEF Deciding

\* ... and every control operation.
LEMMA OperatingAgreement ==
  ASSUME AgreementInv, Operating
  PROVE  AgreementInv'
<1>1. TypeOK'
  BY OperatingType DEF AgreementInv
<1>2. CASE PauseRun \/ ResumeRun \/ CancelRun
  BY <1>1, <1>2, MoveAlone DEF PauseRun, ResumeRun, CancelRun, SetWorkflow, nodeVars
<1>3. CASE ResumeInvalidated
  BY <1>1, <1>3, MoveAlone DEF ResumeInvalidated, LiveStatuses
<1>4. ASSUME NEW n \in Nodes, RetryNode(n) PROVE AgreementInv'
  <2>1. /\ status[n] \notin LiveStatuses /\ status'[n] = "PENDING"
        /\ \A m \in Nodes \ {n} : status'[m] = status[m] /\ active_attempt'[m] = active_attempt[m]
    BY <1>4 DEF RetryNode, Retryable, LiveStatuses, AgreementInv, TypeOK
  <2> QED
    BY <1>1, <1>4, <2>1, MoveAlone DEF RetryNode, LiveStatuses
<1>5. ASSUME NEW root \in Nodes, InvalidateDownstream(root) PROVE AgreementInv'
  <2> DEFINE targets == DependentsOf[root]
  <2>1. \A n \in Nodes : \A k \in Ordinals :
          attempts'[n][k].status = IF n \in targets /\ attempts[n][k].status \in LiveStatuses
                                   THEN "INVALIDATED" ELSE attempts[n][k].status
    <3>1. \A a \in Attempt : [a EXCEPT !.status = "INVALIDATED"].status = "INVALIDATED"
      BY DEF Attempt
    <3> QED
      BY <1>5, <3>1 DEF InvalidateDownstream, AgreementInv, TypeOK
  <2>2. \A n \in Nodes :
          IF n \in targets THEN status'[n] = "INVALIDATED"
          ELSE status'[n] = status[n] /\ active_attempt'[n] = active_attempt[n]
    BY <1>5 DEF InvalidateDownstream
  <2>3. \A n \in Nodes : active_attempt[n] # 0 => active_attempt[n] \in Ordinals
    BY HeldAttempt
  <2>4. attempt_count' = attempt_count
    BY <1>5 DEF InvalidateDownstream
  <2> HIDE DEF targets
  <2>5. NodeAttemptAgreement'
    BY <2>1, <2>2, <2>3 DEF AgreementInv, NodeAttemptAgreement, LiveStatuses
  <2>6. AttemptsCounted'
    BY <2>1, <2>4 DEF AgreementInv, AttemptsCounted, LiveStatuses
  <2> QED
    BY <1>1, <2>4, <2>5, <2>6 DEF AgreementInv
<1> QED
  BY <1>2, <1>3, <1>4, <1>5, InputAssumption DEF Operating, InputAssumption

\* AgreementInv is inductive.
LEMMA AgreementStep == AgreementInv /\ [Next]_vars => AgreementInv'
<1> SUFFICES ASSUME AgreementInv, [Next]_vars PROVE AgreementInv'
  OBVIOUS
<1>1. TypeOK'
  BY TypeStep DEF AgreementInv
<1>2. CASE Scheduling
  BY <1>1, <1>2, ScheduleAgreement, MoveAlone DEF Scheduling, ScheduleOutOfTime, nodeVars
<1>3. CASE UNCHANGED vars
  BY <1>1, <1>3, MoveAlone DEF vars, nodeVars
<1> QED
  BY <1>2, <1>3, ExecutingAgreement, DecidingAgreement, OperatingAgreement DEF Next

\* A new Run has no Attempts to agree with.
LEMMA InitAgreement == Init => AgreementInv
<1> SUFFICES ASSUME Init PROVE AgreementInv
  OBVIOUS
<1>1. \A n \in Nodes : \A k \in Ordinals : attempts[n][k].status = "NONE"
  BY DEF Init, NoAttempt
<1>2. NodeAttemptAgreement
  BY <1>1 DEF Init, NodeAttemptAgreement, LiveStatuses
<1>3. AttemptsCounted
  BY <1>1 DEF Init, AttemptsCounted, Ordinals
<1> QED
  BY <1>2, <1>3, InitType DEF Init, AgreementInv, Executable

\* Whatever the order of results, waits, retries and invalidations, a node and
\* its one live Attempt never part.
THEOREM AgreementCorrect == Spec => []NodeAttemptAgreement
<1>1. AgreementInv => NodeAttemptAgreement
  BY DEF AgreementInv
<1> QED
  BY <1>1, InitAgreement, AgreementStep, PTL DEF Spec

\* The count of a node's Attempts is the length of its log, always.
THEOREM CountCorrect == Spec => []AttemptsCounted
<1>1. AgreementInv => AttemptsCounted
  BY DEF AgreementInv
<1> QED
  BY <1>1, InitAgreement, AgreementStep, PTL DEF Spec

-----------------------------------------------------------------------------
(* RunKernel implements AttemptLedger: every operation that replaces the   *)
(* Snapshot starts at most one Attempt of a node, moves its live one along *)
(* the Attempt table, or leaves the node's log as it is.                   *)

\* A log entry is verified only as it completes, and stays so.
VerifiedCompleted ==
  \A n \in Nodes : \A k \in Ordinals :
    attempts[n][k].verified => attempts[n][k].status = "COMPLETED"
LedgerInv == AgreementInv /\ VerifiedCompleted

\* Entry k of node n becomes a, and verified as v; all others stay.
EntryMoves(n, k, a, v) ==
  \A m \in Nodes : \A j \in Ordinals :
    IF m = n /\ j = k THEN attempts'[m][j].status = a /\ (attempts'[m][j].verified <=> v)
    ELSE /\ attempts'[m][j].status = attempts[m][j].status
         /\ attempts'[m][j].verified = attempts[m][j].verified
EntriesStay ==
  \A m \in Nodes : \A j \in Ordinals :
    /\ attempts'[m][j].status = attempts[m][j].status
    /\ attempts'[m][j].verified = attempts[m][j].verified
\* What a step must do: keep VerifiedCompleted and be a step of the ledger.
LedgerStep == VerifiedCompleted' /\ (Ledger!Next \/ LedgerLog' = LedgerLog)

\* What the log shows its readers are entries of the ledger.
LEMMA LedgerTyped == TypeOK => LedgerLog \in [Nodes -> [Ordinals -> Ledger!Entries]]
<1> SUFFICES ASSUME TypeOK, NEW n \in Nodes, NEW k \in Ordinals
             PROVE  (IF attempts[n][k].verified THEN "VERIFIED" ELSE attempts[n][k].status)
                      \in Ledger!Entries
  BY DEF LedgerLog
<1>1. attempts[n][k].status \in AttemptStatuses \cup {"NONE"}
  BY DEF TypeOK, Attempt
<1> QED
  BY <1>1 DEF AttemptStatuses, LiveStatuses, Ledger!Entries, Ledger!Live, Ledger!Finished

\* Without a live entry, what is in use of a node's log is finished.
LEMMA FinishedOrFree ==
  ASSUME LedgerInv, NEW n \in Nodes, NEW k \in Ordinals,
         attempts[n][k].status \notin LiveStatuses
  PROVE  IF k <= attempt_count[n] THEN LedgerLog[n][k] \in Ledger!Finished
                                  ELSE LedgerLog[n][k] = "NONE"
<1>1. attempts[n][k].status \in AttemptStatuses \cup {"NONE"}
  BY DEF LedgerInv, AgreementInv, TypeOK, Attempt
<1>2. attempts[n][k].status # "NONE" <=> k <= attempt_count[n]
  BY DEF LedgerInv, AgreementInv, AttemptsCounted
<1>3. LedgerLog[n][k] = IF attempts[n][k].verified THEN "VERIFIED" ELSE attempts[n][k].status
  BY DEF LedgerLog
<1>4. attempts[n][k].verified => attempts[n][k].status = "COMPLETED"
  BY DEF LedgerInv, VerifiedCompleted
<1> QED
  BY <1>1, <1>2, <1>3, <1>4 DEF AttemptStatuses, LiveStatuses, Ledger!Finished

\* Nothing changes that the ledger shows.
LEMMA StayStep ==
  ASSUME LedgerInv, EntriesStay
  PROVE  LedgerStep
BY DEF LedgerStep, LedgerInv, VerifiedCompleted, EntriesStay, LedgerLog

\* One live entry moves along the Attempt table.
LEMMA MoveStep ==
  ASSUME LedgerInv, TypeOK', NEW n \in Nodes, NEW k \in Ordinals,
         NEW a \in AttemptStatuses, NEW v \in BOOLEAN,
         attempts[n][k].status \in LiveStatuses, EntryMoves(n, k, a, v),
         v => a = "COMPLETED",
         (IF v THEN "VERIFIED" ELSE a) \in Ledger!Successors(attempts[n][k].status)
  PROVE  LedgerStep
<1>1. VerifiedCompleted'
  BY DEF LedgerInv, VerifiedCompleted, EntryMoves
<1>2. (LedgerLog \in [Nodes -> [Ordinals -> Ledger!Entries]])'
  BY LedgerTyped, PTL
<1>3. LedgerLog \in [Nodes -> [Ordinals -> Ledger!Entries]]
  BY LedgerTyped DEF LedgerInv, AgreementInv
<1>4. ~ attempts[n][k].verified
  BY DEF LedgerInv, VerifiedCompleted, LiveStatuses
<1>5. /\ LedgerLog[n][k] = attempts[n][k].status
      /\ LedgerLog'[n][k] = IF v THEN "VERIFIED" ELSE a
  BY <1>4 DEF LedgerLog, EntryMoves
<1>6. \A m \in Nodes : \A j \in Ordinals : m # n \/ j # k => LedgerLog'[m][j] = LedgerLog[m][j]
  BY DEF LedgerLog, EntryMoves
<1>7. \A m \in Nodes \ {n} : LedgerLog'[m] = LedgerLog[m]
  BY <1>2, <1>3, <1>6
<1>8. Ledger!Move(LedgerLog[n], LedgerLog'[n])
  <2>1. LedgerLog'[n] = [LedgerLog[n] EXCEPT ![k] = LedgerLog'[n][k]]
    BY <1>2, <1>3, <1>6
  <2> QED
    BY <1>5, <2>1 DEF Ledger!Move, Ordinals
<1> QED
  BY <1>1, <1>2, <1>7, <1>8 DEF LedgerStep, Ledger!Next, Ordinals

-----------------------------------------------------------------------------
\* A scheduling call appends one Attempt to the log of each node it starts.
LEMMA ScheduleLedger ==
  ASSUME LedgerInv, NEW requested, NEW terminal, Schedule(requested, terminal)
  PROVE  LedgerStep
<1>1. PICK after \in [Nodes -> Statuses], started \in SUBSET Nodes :
        /\ after = Round(status, after, terminal)
        /\ \A n \in started : n \in Executable /\ after[n] \in {"READY", "RETRY_READY"}
        /\ Launch(after, started)
  BY ScheduleStep DEF LedgerInv, AgreementInv
<1>2. \A n \in Nodes : \A k \in Ordinals :
        attempts'[n][k] = IF n \in started /\ k = attempt_count[n] + 1
                          THEN NewAttempt(n, after) ELSE attempts[n][k]
  BY <1>1 DEF Launch
<1>0. \A n \in Nodes : /\ NewAttempt(n, after).status = "RUNNING"
                        /\ NewAttempt(n, after).verified = FALSE
  BY DEF NewAttempt
<1>3. VerifiedCompleted'
  BY <1>0, <1>2 DEF LedgerInv, VerifiedCompleted
<1>4. TypeOK'
  BY ScheduleType DEF LedgerInv, AgreementInv
<1>5. (LedgerLog \in [Nodes -> [Ordinals -> Ledger!Entries]])'
  BY <1>4, LedgerTyped, PTL
<1>6. LedgerLog \in [Nodes -> [Ordinals -> Ledger!Entries]]
  BY LedgerTyped DEF LedgerInv, AgreementInv
<1>7. ASSUME NEW n \in Nodes
      PROVE  LedgerLog'[n] = LedgerLog[n] \/ Ledger!Start(LedgerLog[n], LedgerLog'[n])
  <2>1. CASE n \notin started
    <3>1. \A k \in Ordinals : LedgerLog'[n][k] = LedgerLog[n][k]
      BY <1>2, <2>1 DEF LedgerLog
    <3> QED
      BY <1>5, <1>6, <3>1
  <2>2. CASE n \in started
    <3> DEFINE next == attempt_count[n] + 1
    <3>1. next \in Ordinals /\ attempt_count[n] \in Nat
      BY <1>1, <2>2, BoundAssumption
      DEF Launch, LedgerInv, AgreementInv, TypeOK, Ordinals, BoundAssumption
    <3>2. status[n] \notin LiveStatuses
      <4>1. after[n] = Decide(status, after, terminal, n) /\ n \in Executable
        BY <1>1, <2>2 DEF Round
      <4>2. after[n] \notin LiveStatuses
        BY <1>1, <2>2 DEF LiveStatuses
      <4> QED
        BY <4>1, <4>2, DecideExecutable DEF LedgerInv, AgreementInv, TypeOK
    <3>3. \A k \in Ordinals : attempts[n][k].status \notin LiveStatuses
      BY <3>2 DEF LedgerInv, AgreementInv, NodeAttemptAgreement
    <3>4. \A k \in Ordinals : IF k < next THEN LedgerLog[n][k] \in Ledger!Finished
                              ELSE LedgerLog[n][k] = "NONE"
      BY <3>1, <3>3, FinishedOrFree DEF Ordinals
    <3>5. \A k \in Ordinals :
            LedgerLog'[n][k] = IF k = next THEN "RUNNING" ELSE LedgerLog[n][k]
      BY <1>0, <1>2, <2>2 DEF LedgerLog
    <3> HIDE DEF next
    <3>6. LedgerLog'[n] = [LedgerLog[n] EXCEPT ![next] = "RUNNING"]
      BY <1>5, <1>6, <3>5
    <3> QED
      BY <3>1, <3>4, <3>6 DEF Ledger!Start, Ordinals
  <2> QED
    BY <2>1, <2>2
<1> QED
  BY <1>3, <1>5, <1>7 DEF LedgerStep, Ledger!Next, Ordinals

\* Every result moves one live Attempt along the Attempt table.
LEMMA ExecutingLedger ==
  ASSUME LedgerInv, Executing
  PROVE  LedgerStep
<1>1. TypeOK'
  BY ExecutingType DEF LedgerInv, AgreementInv
<1> USE DEF LiveStatuses, AttemptStatuses, Ledger!Successors, Ledger!Live, Ledger!Finished
<1>2. \A n \in Nodes : active_attempt[n] # 0 => active_attempt[n] \in Ordinals
  BY HeldAttempt DEF LedgerInv
<1>3. attempts \in [Nodes -> [Ordinals -> Attempt]]
  BY DEF LedgerInv, AgreementInv, TypeOK
<1>4. \A n \in Nodes : \A k \in Ordinals :
        attempts[n][k].status \in LiveStatuses => ~ attempts[n][k].verified
  BY DEF LedgerInv, VerifiedCompleted
<1>5. ASSUME NEW n \in Nodes, CompleteBusiness(n) PROVE LedgerStep
  <2> DEFINE k == active_attempt[n]
  <2>1. k \in Ordinals /\ attempts[n][k].status = "RUNNING"
    BY <1>2, <1>5 DEF CompleteBusiness, Active
  <2>2. attempts' = [attempts EXCEPT ![n][k] = Verified(@)]
    BY <1>5 DEF CompleteBusiness
  <2> HIDE DEF k
  <2>3. \A m \in Nodes : \A j \in Ordinals :
          /\ attempts'[m][j].status = IF m = n /\ j = k THEN "COMPLETED" ELSE attempts[m][j].status
          /\ m = n /\ j = k => attempts'[m][j].verified
          /\ m # n \/ j # k => attempts'[m][j].verified = attempts[m][j].verified
    BY <1>3, <2>1, <2>2, LogVerified
  <2>4. EntryMoves(n, k, "COMPLETED", TRUE)
    BY <2>3, Zenon DEF EntryMoves
  <2> QED
    BY <1>1, <2>1, <2>4, MoveStep
<1>6. ASSUME NEW n \in Nodes, NEW a \in AttemptStatuses \ {"RUNNING"},
             Active(n), attempts' = SetAttempt(n, a)
      PROVE  LedgerStep
  <2>1. EntryMoves(n, active_attempt[n], a, FALSE)
    BY <1>2, <1>3, <1>4, <1>6, LogStatus DEF SetAttempt, Active, EntryMoves
  <2> QED
    BY <1>1, <1>2, <1>6, <2>1, MoveStep DEF Active
<1>7. ASSUME NEW n \in Nodes, ApplyCompleted(n) PROVE LedgerStep
  BY <1>6, <1>7 DEF ApplyCompleted
<1>8. ASSUME NEW n \in Nodes, NEW action, ApplyFailed(n, action) PROVE LedgerStep
  BY <1>6, <1>8 DEF ApplyFailed
<1>9. ASSUME NEW n \in Nodes, RequestInteraction(n) PROVE LedgerStep
  BY <1>6, <1>9 DEF RequestInteraction
<1>10. ASSUME NEW n \in Nodes, OpenManualWait(n) PROVE LedgerStep
  <2>1. PICK k \in Ordinals :
          /\ attempts[n][k].status = "RUNNING"
          /\ attempts' = [attempts EXCEPT ![n][k].status = "WAITING_FOR_EXTERNAL"]
    BY <1>10 DEF OpenManualWait
  <2>2. EntryMoves(n, k, "WAITING_FOR_EXTERNAL", FALSE)
    BY <1>3, <1>4, <2>1, LogStatus DEF EntryMoves
  <2> QED
    BY <1>1, <2>1, <2>2, MoveStep
<1>11. ASSUME NEW n \in Nodes, ResumeManual(n) PROVE LedgerStep
  <2>1. PICK k \in Ordinals :
          /\ attempts[n][k].status = "WAITING_FOR_EXTERNAL"
          /\ attempts' = [attempts EXCEPT ![n][k].status = "RUNNING"]
    BY <1>11 DEF ResumeManual
  <2>2. EntryMoves(n, k, "RUNNING", FALSE)
    BY <1>3, <1>4, <2>1, LogStatus DEF EntryMoves
  <2> QED
    BY <1>1, <2>1, <2>2, MoveStep
<1>12. ASSUME NEW n \in Nodes, NEW k \in Ordinals, WriteArtifact(n, k) PROVE LedgerStep
  <2>1. EntriesStay
    BY <1>3, <1>12, LogWrote DEF WriteArtifact, EntriesStay
  <2> QED
    BY <2>1, StayStep
<1> QED
  BY <1>5, <1>7, <1>8, <1>9, <1>10, <1>11, <1>12 DEF Executing

\* An answer moves the waiting Attempt on; the other decisions move none.
LEMMA DecidingLedger ==
  ASSUME LedgerInv, Deciding
  PROVE  LedgerStep
<1>1. ASSUME NEW n \in Nodes, AnswerInteraction(n) PROVE LedgerStep
  <2>1. active_attempt[n] \in Ordinals /\ attempts[n][active_attempt[n]].status = "WAITING_FOR_USER"
    BY <1>1, HeldAttempt DEF AnswerInteraction, LedgerInv
  <2>2. ~ attempts[n][active_attempt[n]].verified
    BY <2>1 DEF LedgerInv, VerifiedCompleted
  <2>3. EntryMoves(n, active_attempt[n], "RUNNING", FALSE)
    BY <1>1, <2>1, <2>2, LogStatus
    DEF AnswerInteraction, SetAttempt, EntryMoves, LedgerInv, AgreementInv, TypeOK,
        AttemptStatuses, LiveStatuses
  <2>4. TypeOK'
    BY DecidingType DEF LedgerInv, AgreementInv
  <2> QED
    BY <2>1, <2>3, <2>4, MoveStep
    DEF AttemptStatuses, LiveStatuses, Ledger!Successors, Ledger!Live
<1>2. ASSUME attempts' = attempts PROVE LedgerStep
  BY <1>2, StayStep DEF EntriesStay
<1> QED
  BY <1>1, <1>2
  DEF Deciding, OpenGate, ModifyGate, SubmitProof, SubmitGateDecision

\* Invalidation ends the one live Attempt of each dependent.
LEMMA InvalidationLedger ==
  ASSUME LedgerInv, NEW root \in Nodes, InvalidateDownstream(root), TypeOK'
  PROVE  LedgerStep
<1> DEFINE targets == DependentsOf[root]
<1>1. \A n \in Nodes : \A k \in Ordinals :
        /\ attempts'[n][k].status = IF n \in targets /\ attempts[n][k].status \in LiveStatuses
                                    THEN "INVALIDATED" ELSE attempts[n][k].status
        /\ attempts'[n][k].verified = attempts[n][k].verified
  <2>1. \A a \in Attempt : LET b == [a EXCEPT !.status = "INVALIDATED"] IN
          b.status = "INVALIDATED" /\ b.verified = a.verified
    BY DEF Attempt
  <2> QED
    BY <2>1 DEF InvalidateDownstream, LedgerInv, AgreementInv, TypeOK
<1> HIDE DEF targets
<1>2. VerifiedCompleted'
  BY <1>1 DEF LedgerInv, VerifiedCompleted, LiveStatuses
<1>3. (LedgerLog \in [Nodes -> [Ordinals -> Ledger!Entries]])'
  BY LedgerTyped, PTL
<1>4. LedgerLog \in [Nodes -> [Ordinals -> Ledger!Entries]]
  BY LedgerTyped DEF LedgerInv, AgreementInv
<1>5. ASSUME NEW n \in Nodes
      PROVE  LedgerLog'[n] = LedgerLog[n] \/ Ledger!Move(LedgerLog[n], LedgerLog'[n])
  <2>1. CASE \A k \in Ordinals : attempts[n][k].status \notin LiveStatuses
    <3>1. \A k \in Ordinals : LedgerLog'[n][k] = LedgerLog[n][k]
      BY <1>1, <2>1 DEF LedgerLog
    <3> QED
      BY <1>3, <1>4, <3>1
  <2>2. CASE n \notin targets
    <3>1. \A k \in Ordinals : LedgerLog'[n][k] = LedgerLog[n][k]
      BY <1>1, <2>2 DEF LedgerLog
    <3> QED
      BY <1>3, <1>4, <3>1
  <2>3. ASSUME n \in targets, NEW k \in Ordinals, attempts[n][k].status \in LiveStatuses
        PROVE  Ledger!Move(LedgerLog[n], LedgerLog'[n])
    <3>1. \A j \in Ordinals \ {k} : attempts[n][j].status \notin LiveStatuses
      BY <2>3 DEF LedgerInv, AgreementInv, NodeAttemptAgreement
    <3>2. \A j \in Ordinals \ {k} : LedgerLog'[n][j] = LedgerLog[n][j]
      BY <1>1, <3>1 DEF LedgerLog
    <3>3. LedgerLog[n][k] = attempts[n][k].status /\ LedgerLog'[n][k] = "INVALIDATED"
      BY <1>1, <2>3 DEF LedgerLog, LedgerInv, VerifiedCompleted, LiveStatuses
    <3>4. LedgerLog'[n] = [LedgerLog[n] EXCEPT ![k] = LedgerLog'[n][k]]
      BY <1>3, <1>4, <3>2
    <3>5. LedgerLog'[n][k] \in Ledger!Successors(LedgerLog[n][k])
      BY <2>3, <3>3 DEF LiveStatuses, Ledger!Successors, Ledger!Live, Ledger!Finished
    <3> QED
      BY <3>4, <3>5 DEF Ledger!Move, Ordinals
  <2> QED
    BY <2>1, <2>2, <2>3
<1> QED
  BY <1>2, <1>3, <1>5 DEF LedgerStep, Ledger!Next, Ordinals

\* Control and retries leave the log alone, invalidation ends live Attempts.
LEMMA OperatingLedger ==
  ASSUME LedgerInv, Operating
  PROVE  LedgerStep
<1>1. ASSUME NEW n \in ChangedNodes, InvalidateDownstream(n) PROVE LedgerStep
  BY <1>1, InvalidationLedger, OperatingType, InputAssumption
  DEF LedgerInv, AgreementInv, InputAssumption
<1>2. ASSUME attempts' = attempts PROVE LedgerStep
  BY <1>2, StayStep DEF EntriesStay
<1> QED
  BY <1>1, <1>2
  DEF Operating, PauseRun, ResumeRun, CancelRun, SetWorkflow, ResumeInvalidated, RetryNode

-----------------------------------------------------------------------------
\* A new Run's log is empty.
LEMMA InitLedger == Init => LedgerInv /\ Ledger!Init
<1> SUFFICES ASSUME Init PROVE LedgerInv /\ Ledger!Init
  OBVIOUS
<1>1. \A n \in Nodes : \A k \in Ordinals :
        attempts[n][k].status = "NONE" /\ attempts[n][k].verified = FALSE
  BY DEF Init, NoAttempt
<1> QED
  BY <1>1, InitAgreement DEF LedgerInv, VerifiedCompleted, Ledger!Init, LedgerLog, Ordinals

\* Every step of a Run is a step of the ledger or none.
LEMMA StepLedger == LedgerInv /\ [Next]_vars => LedgerInv' /\ [Ledger!Next]_LedgerLog
<1> SUFFICES ASSUME LedgerInv, [Next]_vars PROVE LedgerInv' /\ [Ledger!Next]_LedgerLog
  OBVIOUS
<1>1. LedgerStep
  <2>1. CASE Scheduling
    <3>1. CASE ScheduleOutOfTime
      BY <3>1, StayStep DEF ScheduleOutOfTime, EntriesStay
    <3> QED
      BY <2>1, <3>1, ScheduleLedger DEF Scheduling
  <2>2. CASE UNCHANGED vars
    BY <2>2, StayStep DEF vars, EntriesStay
  <2> QED
    BY <2>1, <2>2, ExecutingLedger, DecidingLedger, OperatingLedger DEF Next
<1>2. AgreementInv'
  BY AgreementStep DEF LedgerInv
<1> QED
  BY <1>1, <1>2 DEF LedgerStep, LedgerInv

\* The Attempt log every reader relies on (reuse, retry counting, audit) grows
\* by one Attempt at a time, and what has finished in it never changes.
THEOREM LedgerImplemented == Spec => ImplementsLedger
BY InitLedger, StepLedger, PTL DEF Spec, ImplementsLedger, Ledger!Spec

-----------------------------------------------------------------------------
(***************************************************************************)
(* The scheduling loop.  It visits node after node and moves each as far   *)
(* as the others let it, until a pass moves nothing; Settle decides all    *)
(* nodes at once, again and again.  Both end, and at the same place, since *)
(* a node further on never holds another back.  The one exception would be *)
(* a terminal-event node with a condition on the status of a node that may *)
(* still move; the node that may have terminal events has no condition.    *)
(***************************************************************************)
TerminalNodesDecided ==
  \A n \in OnTerminalEvent \cap Nodes : \A p \in Condition[n] : p.field # "node_status"

Assignments == [Nodes -> Statuses]
\* How far a node has come within one scheduling call.
Below(x, y) ==
  \/ x = y
  \/ x = "ABSENT"
  \/ x = "PENDING" /\ y # "ABSENT"
  \/ x = "READY" /\ y \in {"WAITING_FOR_USER", "WAITING_FOR_EXTERNAL", "RUNNING", "VERIFIED"}
  \/ x = "RUNNING" /\ y = "VERIFIED"
Under(s, t) == \A n \in Nodes : Below(s[n], t[n])

\* Under is a partial order.
LEMMA UnderOrders ==
  ASSUME NEW s \in Assignments, NEW t \in Assignments
  PROVE  /\ Under(s, s)
         /\ Under(s, t) /\ Under(t, s) => s = t
         /\ \A u \in Assignments : Under(s, t) /\ Under(t, u) => Under(s, u)
<1>1. Under(s, s)
  BY DEF Under, Below
<1>2. ASSUME Under(s, t), Under(t, s) PROVE s = t
  <2>1. \A n \in Nodes : s[n] = t[n]
    BY <1>2 DEF Under, Below
  <2> QED
    BY <2>1 DEF Assignments
<1>3. ASSUME NEW u \in Assignments, Under(s, t), Under(t, u) PROVE Under(s, u)
  BY <1>3 DEF Under, Below
<1> QED
  BY <1>1, <1>2, <1>3

\* What a node is taken to from PENDING or READY.
LEMMA EnteredMeans ==
  ASSUME NEW n \in Nodes, NEW st
  PROVE  /\ Below("READY", Entered(n, st))
         /\ Entered(n, st) \in {"READY", "WAITING_FOR_USER", "WAITING_FOR_EXTERNAL", "RUNNING", "VERIFIED"}
         /\ Kind[n] = "subgraph" <=> Entered(n, st) \in {"RUNNING", "VERIFIED"}
         /\ Kind[n] = "subgraph" =>
              Entered(n, st) = IF SubgraphComplete(n, st) THEN "VERIFIED" ELSE "RUNNING"
         /\ Kind[n] = "human_gate" => Entered(n, st) = "WAITING_FOR_USER"
         /\ Kind[n] = "external_input" => Entered(n, st) = "WAITING_FOR_EXTERNAL"
         /\ Kind[n] \in ExecutableKinds => Entered(n, st) = "READY"
BY GraphAssumption DEF Entered, Below, GraphAssumption, NodeKinds, ExecutableKinds

\* A node is left PENDING, left out, or entered.
LEMMA ConsideredMeans ==
  ASSUME NEW n \in Nodes, NEW st, NEW terminal
  PROVE  \/ Considered(n, st, terminal) \in {"PENDING", "SKIPPED"}
         \/ Considered(n, st, terminal) = Entered(n, st)
BY DEF Considered

\* No pass takes a node back.
LEMMA DecideAdvances ==
  ASSUME NEW before \in Assignments, NEW st, NEW terminal, NEW n \in Nodes
  PROVE  Below(before[n], Decide(before, st, terminal, n))
<1>1. Below("PENDING", Considered(n, st, terminal)) /\ Below("READY", Entered(n, st))
  BY EnteredMeans, ConsideredMeans DEF Below
<1>2. before[n] = "RUNNING" /\ Kind[n] = "subgraph" => Below(before[n], Entered(n, st))
  BY EnteredMeans DEF Below
<1>3. \A x : Below(x, x) /\ Below("ABSENT", x)
  BY DEF Below
<1> QED
  BY <1>1, <1>2, <1>3 DEF Decide

\* A dependency that is satisfied or resolved does not move any more.
LEMMA SatisfiedStays ==
  ASSUME NEW s \in Assignments, NEW t \in Assignments, Under(s, t), NEW d \in Nodes,
         Satisfied(d, s) \/ s[d] \in ResolvedStatuses
  PROVE  t[d] = s[d]
BY DEF Under, Below, Satisfied, ResolvedStatuses, SuccessStatuses

\* What a condition says of dependencies that do not move stays said; what a
\* decision says does not depend on statuses.
LEMMA ConditionStays ==
  ASSUME NEW s \in Assignments, NEW t \in Assignments, Under(s, t), NEW n \in Nodes,
         \A p \in Condition[n] : t[p.node] = s[p.node]
  PROVE  /\ ConditionTrue(n, t) <=> ConditionTrue(n, s)
         /\ ConditionFalse(n, t) <=> ConditionFalse(n, s)
<1>1. \A p \in Condition[n] : /\ PredicateHolds(p, t) <=> PredicateHolds(p, s)
                              /\ PredicateFails(p, t) <=> PredicateFails(p, s)
  BY DEF PredicateHolds, PredicateFails
<1> QED
  BY <1>1 DEF ConditionTrue, ConditionFalse

\* A condition that holds without a status keeps holding, and does not fail.
LEMMA ConditionKept ==
  ASSUME NEW s, NEW t, NEW n \in Nodes,
         \A p \in Condition[n] : p.field # "node_status", ConditionTrue(n, s)
  PROVE  ConditionTrue(n, t) /\ ~ ConditionFalse(n, t)
<1>1. \A p \in Condition[n] : PredicateHolds(p, s) => PredicateHolds(p, t) /\ ~ PredicateFails(p, t)
  BY DEF PredicateHolds, PredicateFails
<1> QED
  BY <1>1 DEF ConditionTrue, ConditionFalse

\* A condition is not both.
LEMMA ConditionExclusive ==
  ASSUME NEW st, NEW n \in Nodes
  PROVE  ~ (ConditionTrue(n, st) /\ ConditionFalse(n, st))
BY DEF ConditionTrue, ConditionFalse, PredicateFails

\* What a pass makes of a node only goes further as the others do.
LEMMA EnteredMonotone ==
  ASSUME NEW s \in Assignments, NEW t \in Assignments, Under(s, t), NEW n \in Nodes
  PROVE  /\ Below(Entered(n, s), Entered(n, t))
         /\ SubgraphComplete(n, s) => SubgraphComplete(n, t)
<1>1. ASSUME SubgraphComplete(n, s) PROVE SubgraphComplete(n, t)
  <2> SUFFICES ASSUME NEW c \in Children(n) PROVE Satisfied(c, t)
    BY DEF SubgraphComplete
  <2>1. c \in Nodes /\ Satisfied(c, s)
    BY <1>1 DEF SubgraphComplete, Children
  <2> QED
    BY <2>1, SatisfiedStays DEF Satisfied
<1> QED
  BY <1>1 DEF Entered, Below

\* A node that waits may be taken on, one that is left out or entered stays so.
LEMMA ConsideredMonotone ==
  ASSUME TerminalNodesDecided, NEW terminal \in BOOLEAN, NEW n \in Nodes,
         NEW s \in Assignments, NEW t \in Assignments, Under(s, t)
  PROVE  Below(Considered(n, s, terminal), Considered(n, t, terminal))
<1> DEFINE mayEnter(st) == DependenciesSatisfied(n, st) \/ (terminal /\ n \in OnTerminalEvent)
           skipped(st) == ConditionFalse(n, st) /\ DependenciesResolved(n, st)
<1>1. DependsOn[n] \subseteq Nodes /\ \A p \in Condition[n] : p.node \in DependsOn[n]
  BY GraphAssumption, WellFormedAssumption DEF GraphAssumption, WellFormedAssumption
<1>2. Considered(n, t, terminal) # "ABSENT"
  BY ConsideredMeans, EnteredMeans
<1>3. CASE n \notin Enabled
  BY <1>3 DEF Considered, Below
<1>4. CASE n \in Enabled /\ ~ mayEnter(s)
  <2>1. Considered(n, s, terminal) = "PENDING"
    BY <1>4 DEF Considered
  <2> QED
    BY <1>2, <2>1 DEF Below
<1>5. CASE n \in Enabled /\ mayEnter(s) /\ skipped(s)
  <2>1. \A d \in DependsOn[n] : t[d] = s[d]
    BY <1>1, <1>5, SatisfiedStays DEF DependenciesResolved
  <2>2. ConditionFalse(n, t)
    BY <1>1, <1>5, <2>1, ConditionStays
  <2>3. mayEnter(t) /\ DependenciesResolved(n, t)
    BY <1>5, <2>1 DEF DependenciesResolved, DependenciesSatisfied, Satisfied
  <2>4. Considered(n, s, terminal) = "SKIPPED" /\ Considered(n, t, terminal) = "SKIPPED"
    BY <1>5, <2>2, <2>3 DEF Considered
  <2> QED
    BY <2>4 DEF Below
<1>6. CASE n \in Enabled /\ mayEnter(s) /\ ~ skipped(s) /\ ~ ConditionTrue(n, s)
  <2>1. Considered(n, s, terminal) = "PENDING"
    BY <1>6 DEF Considered
  <2> QED
    BY <1>2, <2>1 DEF Below
<1>7. CASE n \in Enabled /\ mayEnter(s) /\ ~ skipped(s) /\ ConditionTrue(n, s)
  <2>1. mayEnter(t) /\ ConditionTrue(n, t) /\ ~ ConditionFalse(n, t)
    <3>1. CASE DependenciesSatisfied(n, s)
      <4>1. \A d \in DependsOn[n] : t[d] = s[d]
        BY <1>1, <3>1, SatisfiedStays DEF DependenciesSatisfied
      <4>2. DependenciesSatisfied(n, t)
        BY <3>1, <4>1 DEF DependenciesSatisfied, Satisfied
      <4>3. ConditionTrue(n, t)
        BY <1>1, <1>7, <4>1, ConditionStays
      <4> QED
        BY <4>2, <4>3, ConditionExclusive
    <3>2. CASE terminal /\ n \in OnTerminalEvent
      <4>1. \A p \in Condition[n] : p.field # "node_status"
        BY <3>2 DEF TerminalNodesDecided
      <4>2. ConditionTrue(n, s)
        BY <1>7
      <4> QED
        BY <3>2, <4>1, <4>2, ConditionKept
    <3> QED
      BY <1>7, <3>1, <3>2
  <2>2. Considered(n, s, terminal) = Entered(n, s) /\ Considered(n, t, terminal) = Entered(n, t)
    BY <1>7, <2>1 DEF Considered
  <2> QED
    BY <2>2, EnteredMonotone
<1> QED
  BY <1>3, <1>4, <1>5, <1>6, <1>7

\* The same whatever the node was before the call.
LEMMA DecideMonotone ==
  ASSUME TerminalNodesDecided, NEW before \in Assignments, NEW terminal \in BOOLEAN, NEW n \in Nodes,
         NEW s \in Assignments, NEW t \in Assignments, Under(s, t)
  PROVE  Below(Decide(before, s, terminal, n), Decide(before, t, terminal, n))
<1>1. /\ Below(Considered(n, s, terminal), Considered(n, t, terminal))
      /\ Below(Entered(n, s), Entered(n, t))
  BY ConsideredMonotone, EnteredMonotone
<1>2. Activated(n, s) => Activated(n, t)
  <2>1. Parent[n] # None => Parent[n] \in Nodes
    BY GraphAssumption DEF GraphAssumption
  <2> QED
    BY <2>1 DEF Activated, Under, Below
<1>3. \A x : Below(x, x) /\ Below("ABSENT", x)
  BY DEF Below
<1>4. CASE before[n] = "PENDING"
  BY <1>1, <1>4 DEF Decide
<1>5. CASE before[n] = "ABSENT"
  <2>1. CASE Activated(n, s)
    BY <1>1, <1>2, <1>5, <2>1 DEF Decide
  <2>2. CASE ~ Activated(n, s)
    <3>1. Decide(before, s, terminal, n) = "ABSENT"
      BY <1>5, <2>2 DEF Decide
    <3> QED
      BY <1>3, <3>1
  <2> QED
    BY <2>1, <2>2
<1>6. CASE before[n] = "READY" \/ (before[n] = "RUNNING" /\ Kind[n] = "subgraph")
  BY <1>1, <1>6 DEF Decide
<1>7. CASE before[n] \notin {"PENDING", "ABSENT", "READY"} /\ ~ (before[n] = "RUNNING" /\ Kind[n] = "subgraph")
  <2>1. Decide(before, s, terminal, n) = before[n] /\ Decide(before, t, terminal, n) = before[n]
    BY <1>7 DEF Decide
  <2> QED
    BY <1>3, <2>1
<1> QED
  BY <1>4, <1>5, <1>6, <1>7

\* The same for all nodes at once.
LEMMA RoundMonotone ==
  ASSUME TerminalNodesDecided, NEW before \in Assignments, NEW terminal \in BOOLEAN,
         NEW s \in Assignments, NEW t \in Assignments, Under(s, t)
  PROVE  Under(Round(before, s, terminal), Round(before, t, terminal))
BY DecideMonotone DEF Under, Round

\* A pass takes no node back, and gives every node a status.
LEMMA RoundAdvances ==
  ASSUME NEW before \in Assignments, NEW st, NEW terminal
  PROVE  Under(before, Round(before, st, terminal)) /\ Round(before, st, terminal) \in Assignments
BY DecideAdvances, RoundType DEF Under, Round, Assignments

\* Orbit: where repeated passes lead from st in a call that began at before.
PassClosed(before, terminal, S) == \A y \in S : Round(before, y, terminal) \in S
Orbit(before, terminal, st) ==
  {x \in Assignments : \A S \in SUBSET Assignments :
                         st \in S /\ PassClosed(before, terminal, S) => x \in S}
Resting(before, terminal, st) ==
  {x \in Orbit(before, terminal, st) : Round(before, x, terminal) = x}

\* An orbit begins where it begins and goes on from there.
LEMMA OrbitUnfolds ==
  ASSUME NEW before \in Assignments, NEW terminal, NEW st \in Assignments
  PROVE  /\ st \in Orbit(before, terminal, st)
         /\ PassClosed(before, terminal, Orbit(before, terminal, st))
         /\ Orbit(before, terminal, Round(before, st, terminal)) \subseteq Orbit(before, terminal, st)
         /\ \A x \in Orbit(before, terminal, st) :
              x = st \/ x \in Orbit(before, terminal, Round(before, st, terminal))
<1> DEFINE next == Round(before, st, terminal)
           closed(S) == PassClosed(before, terminal, S)
<1>1. next \in Assignments
  BY RoundAdvances
<1>2. st \in Orbit(before, terminal, st)
  BY DEF Orbit
<1>3. \A x \in Assignments : closed(Orbit(before, terminal, x))
  <2> SUFFICES ASSUME NEW x \in Assignments, NEW y \in Orbit(before, terminal, x)
               PROVE  Round(before, y, terminal) \in Orbit(before, terminal, x)
    BY DEF PassClosed
  <2>1. Round(before, y, terminal) \in Assignments
    BY RoundAdvances
  <2>2. ASSUME NEW S \in SUBSET Assignments, x \in S, closed(S)
        PROVE  Round(before, y, terminal) \in S
    <3>1. y \in S
      BY <2>2 DEF Orbit
    <3> QED
      BY <2>2, <3>1 DEF PassClosed
  <2> QED
    BY <2>1, <2>2 DEF Orbit
<1>4. Orbit(before, terminal, next) \subseteq Orbit(before, terminal, st)
  <2>1. Orbit(before, terminal, st) \in SUBSET Assignments /\ closed(Orbit(before, terminal, st))
    BY <1>3 DEF Orbit
  <2>2. next \in Orbit(before, terminal, st)
    BY <1>2, <2>1 DEF PassClosed
  <2> DEFINE S == Orbit(before, terminal, st)
  <2>3. \A x \in Orbit(before, terminal, next) :
          S \in SUBSET Assignments /\ next \in S /\ closed(S) => x \in S
    BY DEF Orbit
  <2> QED
    BY <2>1, <2>2, <2>3
<1>5. ASSUME NEW x \in Orbit(before, terminal, st)
      PROVE  x = st \/ x \in Orbit(before, terminal, next)
  <2> DEFINE S == {st} \cup Orbit(before, terminal, next)
  <2>1. S \in SUBSET Assignments
    BY DEF Orbit
  <2>2. next \in Orbit(before, terminal, next)
    BY <1>1 DEF Orbit
  <2>3. closed(S)
    BY <1>1, <1>3, <2>2 DEF PassClosed
  <2>4. S \in SUBSET Assignments /\ st \in S /\ closed(S) => x \in S
    BY DEF Orbit
  <2> QED
    BY <2>1, <2>3, <2>4
<1> QED
  BY <1>2, <1>3, <1>4, <1>5

\* Settle is where the passes come to rest, if they do.
LEMMA SettleRests ==
  ASSUME NEW before \in Assignments, NEW terminal,
         NEW rest \in Resting(before, terminal, before),
         \A x \in Resting(before, terminal, before) : x = rest
  PROVE  Settle(before, terminal) = rest
<1> DEFINE pass(st) == Round(before, st, terminal)
           end(R) == IF R = {} THEN before ELSE CHOOSE x \in R : TRUE
           ends == [st \in Assignments |-> end(Resting(before, terminal, st))]
           Is(f) == f = [st \in Assignments |-> IF pass(st) = st THEN st ELSE f[pass(st)]]
<1>1. ASSUME NEW st \in Assignments
      PROVE  ends[st] = IF pass(st) = st THEN st ELSE ends[pass(st)]
  <2>1. pass(st) \in Assignments
    BY RoundAdvances
  <2>2. CASE pass(st) = st
    <3>1. Orbit(before, terminal, st) \subseteq {st}
      <4>1. {st} \in SUBSET Assignments /\ st \in {st} /\ PassClosed(before, terminal, {st})
        BY <2>2 DEF PassClosed
      <4> QED
        BY <4>1 DEF Orbit
    <3>2. Resting(before, terminal, st) = {st}
      BY <2>2, <3>1, OrbitUnfolds DEF Resting
    <3>3. end({st}) = st
      OBVIOUS
    <3> QED
      BY <2>2, <3>2, <3>3
  <2>3. CASE pass(st) # st
    <3>1. Resting(before, terminal, st) = Resting(before, terminal, pass(st))
      BY <2>3, OrbitUnfolds DEF Resting
    <3> HIDE DEF pass, end
    <3> QED
      BY <2>1, <2>3, <3>1
  <2> QED
    BY <2>2, <2>3
<1>2. Is(ends)
  <2>1. ends = [st \in Assignments |-> ends[st]]
    <3> HIDE DEF end
    <3> QED
      OBVIOUS
  <2> HIDE DEF ends, pass
  <2> QED
    BY <1>1, <2>1
<1> DEFINE settle == CHOOSE f : Is(f)
<1>3. Is(settle)
  <2> HIDE DEF Is, ends
  <2> QED
    BY <1>2
<1>4. Settle(before, terminal) = settle[before]
  <2>1. settle = CHOOSE f : f = [st \in Assignments |->
                   LET moved == Round(before, st, terminal) IN IF moved = st THEN st ELSE f[moved]]
    OBVIOUS
  <2> HIDE DEF settle
  <2> QED
    BY <2>1, Zenon DEF Settle, Assignments
<1>5. ASSUME NEW st \in Assignments
      PROVE  settle[st] = IF pass(st) = st THEN st ELSE settle[pass(st)]
  <2>1. settle = [x \in Assignments |-> IF pass(x) = x THEN x ELSE settle[pass(x)]]
    <3> HIDE DEF settle, pass
    <3> QED
      BY <1>3
  <2> HIDE DEF settle, pass
  <2> QED
    BY <2>1
<1> DEFINE S == {st \in Assignments : settle[st] = settle[before]}
<1>6. PassClosed(before, terminal, S)
  <2> SUFFICES ASSUME NEW st \in S PROVE pass(st) \in S
    BY DEF PassClosed
  <2>1. pass(st) \in Assignments /\ settle[st] = settle[before]
    BY RoundAdvances
  <2> HIDE DEF settle, pass
  <2> QED
    BY <1>5, <2>1
<1>7. rest \in Assignments /\ pass(rest) = rest /\ rest \in Orbit(before, terminal, before)
  BY DEF Resting, Orbit
<1>8. rest \in S
  <2>1. before \in S /\ S \in SUBSET Assignments
    OBVIOUS
  <2> HIDE DEF S
  <2> QED
    BY <1>6, <1>7, <2>1 DEF Orbit
<1>9. settle[rest] = rest /\ settle[rest] = settle[before]
  <2> HIDE DEF settle, pass
  <2> QED
    BY <1>5, <1>7, <1>8
<1> HIDE DEF settle
<1> QED
  BY <1>4, <1>9

\* How often a node can still move at most; every move uses it up.
Level(x) ==
  IF x = "ABSENT" THEN 0 ELSE IF x = "PENDING" THEN 1 ELSE IF x = "READY" THEN 2
  ELSE IF x = "RUNNING" THEN 3 ELSE 4
Climbed(st) == {p \in Nodes \X (1 .. 4) : p[2] <= Level(st[p[1]])}

\* What has been climbed is finite, and more after every move.
LEMMA ClimbedGrows ==
  ASSUME NEW s \in Assignments, NEW t \in Assignments
  PROVE  /\ Cardinality(Climbed(s)) \in Nat
         /\ Cardinality(Climbed(s)) <= Cardinality(Nodes \X (1 .. 4))
         /\ Cardinality(Nodes \X (1 .. 4)) \in Nat
         /\ Under(s, t) /\ s # t => Cardinality(Climbed(s)) < Cardinality(Climbed(t))
<1> DEFINE all == Nodes \X (1 .. 4)
<1>1. IsFiniteSet(all)
  <2>1. 1 \in Int /\ 4 \in Int
    OBVIOUS
  <2>2. IsFiniteSet(1 .. 4)
    BY <2>1, FS_Interval
  <2> QED
    BY <2>2, GraphAssumption, FS_Product DEF GraphAssumption
<1>2. Climbed(s) \subseteq all /\ Climbed(t) \subseteq all
  BY DEF Climbed
<1>3. IsFiniteSet(Climbed(s)) /\ IsFiniteSet(Climbed(t)) /\ Cardinality(Climbed(s)) <= Cardinality(all)
  <2> HIDE DEF all
  <2> QED
    BY <1>1, <1>2, FS_Subset
<1>4. ASSUME Under(s, t), s # t PROVE Cardinality(Climbed(s)) < Cardinality(Climbed(t))
  <2>1. PICK n \in Nodes : s[n] # t[n]
    BY <1>4 DEF Assignments
  <2>2. Below(s[n], t[n]) /\ s[n] \in Statuses /\ t[n] \in Statuses
    BY <1>4 DEF Under, Assignments
  <2>3. Level(s[n]) < Level(t[n]) /\ Level(t[n]) \in 1 .. 4 /\ Level(s[n]) \in 0 .. 4
    BY <2>1, <2>2 DEF Below, Level
  <2>4. <<n, Level(t[n])>> \in Climbed(t) /\ <<n, Level(t[n])>> \notin Climbed(s)
    BY <2>3 DEF Climbed
  <2>5. \A m \in Nodes : Level(s[m]) <= Level(t[m]) /\ Level(s[m]) \in 0 .. 4 /\ Level(t[m]) \in 0 .. 4
    BY <1>4 DEF Under, Below, Level
  <2>6. Climbed(s) \subseteq Climbed(t)
    BY <2>5 DEF Climbed
  <2> QED
    BY <1>3, <2>4, <2>6, FS_Subset, FS_CardinalityType
<1> QED
  BY <1>1, <1>3, <1>4, FS_CardinalityType

\* Along an orbit the nodes only go further, and never beyond a place from
\* which a pass leads no further.
LEMMA OrbitClimbs ==
  ASSUME TerminalNodesDecided, NEW before \in Assignments, NEW terminal \in BOOLEAN
  PROVE  \A x \in Orbit(before, terminal, before) :
           /\ Under(before, x) /\ Under(x, Round(before, x, terminal))
           /\ \A y \in Assignments :
                Under(before, y) /\ Under(Round(before, y, terminal), y) => Under(x, y)
<1> DEFINE bounded(x) == \A y \in Assignments :
             Under(before, y) /\ Under(Round(before, y, terminal), y) => Under(x, y)
           S == {x \in Assignments : /\ Under(before, x) /\ Under(x, Round(before, x, terminal))
                                     /\ bounded(x)}
<1>1. before \in S
  BY RoundAdvances, UnderOrders
<1>2. ASSUME NEW x \in S PROVE Round(before, x, terminal) \in S
  <2> DEFINE next == Round(before, x, terminal)
  <2>1. x \in Assignments /\ next \in Assignments /\ Under(before, next)
    BY RoundAdvances
  <2>2. Under(next, Round(before, next, terminal))
    BY <2>1, RoundMonotone
  <2>3. ASSUME NEW y \in Assignments, Under(before, y), Under(Round(before, y, terminal), y)
        PROVE  Under(next, y)
    <3>1. Under(x, y) /\ Round(before, y, terminal) \in Assignments
      BY <2>3, RoundAdvances
    <3>2. Under(next, Round(before, y, terminal))
      BY <2>1, <2>3, <3>1, RoundMonotone
    <3> HIDE DEF next
    <3> QED
      BY <2>1, <2>3, <3>1, <3>2, UnderOrders
  <2>4. next \in S
    <3> HIDE DEF next
    <3> QED
      BY <2>1, <2>2, <2>3
  <2> QED
    BY <2>4
<1>3. S \in SUBSET Assignments /\ PassClosed(before, terminal, S)
  BY <1>2 DEF PassClosed
<1>4. Orbit(before, terminal, before) \subseteq S
  <2> HIDE DEF S
  <2> QED
    BY <1>1, <1>3 DEF Orbit
<1> QED
  BY <1>4

\* So the passes come to rest: a climb without end would be one in a finite set.
LEMMA PassesRest ==
  ASSUME TerminalNodesDecided, NEW before \in Assignments, NEW terminal \in BOOLEAN
  PROVE  Resting(before, terminal, before) # {}
<1> DEFINE orbit == Orbit(before, terminal, before)
           top == Cardinality(Nodes \X (1 .. 4))
           left(x) == top - Cardinality(Climbed(x))
           T == {left(x) : x \in orbit}
           Less == {p \in Nat \X Nat : p[1] < p[2]}
<1>1. orbit \subseteq Assignments /\ before \in orbit
  BY OrbitUnfolds DEF Orbit
<1>2. \A x \in Assignments : left(x) \in Nat
  BY ClimbedGrows
<1>3. T \subseteq Nat /\ T # {}
  <2> HIDE DEF orbit, left
  <2> QED
    BY <1>1, <1>2
<1>4. IsWellFoundedOn(Less, Nat)
  BY NatLessThanWellFounded DEF OpToRel
<1>5. PICK k \in T : \A j \in T : ~ (<<j, k>> \in Less)
  <2> HIDE DEF T, Less
  <2> QED
    BY <1>3, <1>4, WFMin
<1>6. PICK x \in orbit : k = left(x)
  <2> HIDE DEF left, orbit
  <2> QED
    BY <1>5
<1> DEFINE next == Round(before, x, terminal)
<1>7. x \in Assignments /\ next \in orbit /\ next \in Assignments /\ Under(x, next)
  BY <1>1, <1>6, OrbitUnfolds, OrbitClimbs DEF PassClosed
<1>8. next = x
  <2> SUFFICES ASSUME next # x PROVE FALSE
    OBVIOUS
  <2>1. left(next) < left(x) /\ left(next) \in Nat /\ left(x) \in Nat
    <3> HIDE DEF next
    <3> QED
      BY <1>7, ClimbedGrows
  <2>2. left(next) \in T
    <3> HIDE DEF next, left, orbit
    <3> QED
      BY <1>7
  <2>3. <<left(next), left(x)>> \in Less
    <3> HIDE DEF next, left
    <3> QED
      BY <2>1
  <2> HIDE DEF next, left, Less, T
  <2> QED
    BY <1>5, <1>6, <2>2, <2>3
<1> QED
  BY <1>6, <1>8 DEF Resting

\* For every Workflow and all statuses its nodes may have: the passes
\* end, at a place where one more pass moves nothing, which is the first such
\* place on the way.  Schedule's exit test therefore excludes no call.
THEOREM LoopEnds ==
  ASSUME TerminalNodesDecided, NEW before \in Assignments, NEW terminal \in BOOLEAN
  PROVE  /\ Settle(before, terminal) \in Assignments
         /\ Settle(before, terminal) = Round(before, Settle(before, terminal), terminal)
         /\ Under(before, Settle(before, terminal))
         /\ \A y \in Assignments : Under(before, y) /\ Under(Round(before, y, terminal), y)
              => Under(Settle(before, terminal), y)
<1>1. PICK rest \in Resting(before, terminal, before) : TRUE
  BY PassesRest
<1>2. \A x \in Resting(before, terminal, before) :
        /\ x \in Assignments /\ Round(before, x, terminal) = x /\ Under(before, x)
        /\ \A y \in Assignments :
             Under(before, y) /\ Under(Round(before, y, terminal), y) => Under(x, y)
  BY OrbitClimbs DEF Resting, Orbit
<1>3. ASSUME NEW x \in Resting(before, terminal, before) PROVE x = rest
  <2>1. Under(x, x) /\ Under(rest, rest)
    BY <1>2, UnderOrders
  <2>2. Under(x, rest) /\ Under(rest, x)
    BY <1>2, <2>1
  <2> QED
    BY <1>2, <2>2, UnderOrders
<1>4. Settle(before, terminal) = rest
  BY <1>1, <1>3, SettleRests
<1> QED
  BY <1>2, <1>4

\* The moves of the loop's own text, one node at a time; the children of a
\* Subgraph come into being when it is activated.
LoopMove(st, terminal, n, target) ==
  \/ st[n] = "PENDING" /\ target = "SKIPPED" /\ Considered(n, st, terminal) = "SKIPPED"
  \/ st[n] = "PENDING" /\ target = "READY" /\ Considered(n, st, terminal) \notin {"PENDING", "SKIPPED"}
  \/ st[n] = "READY" /\ target = "RUNNING" /\ Kind[n] = "subgraph"
  \/ st[n] = "READY" /\ target = "WAITING_FOR_USER" /\ Kind[n] = "human_gate"
  \/ st[n] = "READY" /\ target = "WAITING_FOR_EXTERNAL" /\ Kind[n] = "external_input"
  \/ st[n] = "RUNNING" /\ target = "VERIFIED" /\ Kind[n] = "subgraph" /\ SubgraphComplete(n, st)
  \/ st[n] = "ABSENT" /\ target = "PENDING" /\ Activated(n, st)
VisitClosed(terminal, S) ==
  \A y \in S, n \in Nodes, target \in Statuses :
    LoopMove(y, terminal, n, target) => [y EXCEPT ![n] = target] \in S
\* Visited: what visits in any order can make of the statuses before the call.
Visited(before, terminal) ==
  {x \in Assignments : \A S \in SUBSET Assignments :
                         before \in S /\ VisitClosed(terminal, S) => x \in S}

\* What a node that has moved is before the call, and where it can end.
LEMMA OnTheWay ==
  ASSUME NEW before \in Assignments, NEW terminal \in BOOLEAN, NEW n \in Nodes,
         NEW y \in Assignments, NEW rest \in Assignments,
         Below(before[n], y[n]), Below(y[n], rest[n]),
         rest[n] = Decide(before, rest, terminal, n)
  PROVE  /\ y[n] = "ABSENT" => before[n] = "ABSENT"
         /\ y[n] = "PENDING" => /\ before[n] \in {"ABSENT", "PENDING"}
                                /\ rest[n] = Considered(n, rest, terminal)
         /\ y[n] = "READY" => /\ before[n] \in {"ABSENT", "PENDING", "READY"}
                              /\ rest[n] = Entered(n, rest)
         /\ y[n] = "RUNNING" /\ Kind[n] = "subgraph" => rest[n] = Entered(n, rest)
<1>1. /\ y[n] = "ABSENT" => before[n] = "ABSENT"
      /\ y[n] = "PENDING" => before[n] \in {"ABSENT", "PENDING"} /\ rest[n] # "ABSENT"
      /\ y[n] = "READY" => /\ before[n] \in {"ABSENT", "PENDING", "READY"}
                           /\ rest[n] \notin {"ABSENT", "PENDING", "SKIPPED"}
      /\ y[n] = "RUNNING" => /\ before[n] \in {"ABSENT", "PENDING", "READY", "RUNNING"}
                             /\ rest[n] \notin {"ABSENT", "PENDING", "SKIPPED"}
  BY DEF Below
<1>2. /\ before[n] = "PENDING" => rest[n] = Considered(n, rest, terminal)
      /\ before[n] = "ABSENT" /\ rest[n] # "ABSENT" => rest[n] = Considered(n, rest, terminal)
      /\ before[n] = "READY" => rest[n] = Entered(n, rest)
      /\ before[n] = "RUNNING" /\ Kind[n] = "subgraph" => rest[n] = Entered(n, rest)
  BY DEF Decide
<1>3. Considered(n, rest, terminal) \notin {"PENDING", "SKIPPED"}
        => Considered(n, rest, terminal) = Entered(n, rest)
  BY ConsideredMeans
<1> QED
  BY <1>1, <1>2, <1>3

\* A visit takes a node no further than Settle does.
LEMMA VisitsUnder ==
  ASSUME TerminalNodesDecided, NEW before \in Assignments, NEW terminal \in BOOLEAN,
         NEW x \in Visited(before, terminal)
  PROVE  Under(before, x) /\ Under(x, Settle(before, terminal))
<1> DEFINE rest == Settle(before, terminal)
           S == {y \in Assignments : Under(before, y) /\ Under(y, rest)}
<1>1. rest \in Assignments /\ Under(before, rest) /\ rest = Round(before, rest, terminal)
  BY LoopEnds
<1>2. \A n \in Nodes : rest[n] = Decide(before, rest, terminal, n)
  <2> HIDE DEF rest
  <2>1. \A n \in Nodes : Round(before, rest, terminal)[n] = Decide(before, rest, terminal, n)
    BY DEF Round
  <2> QED
    BY <1>1, <2>1
<1> HIDE DEF rest
<1>3. ASSUME NEW y \in S, NEW n \in Nodes, NEW target \in Statuses, LoopMove(y, terminal, n, target)
      PROVE  [y EXCEPT ![n] = target] \in S
  <2>1. /\ Below(before[n], y[n]) /\ Below(y[n], rest[n]) /\ y \in Assignments
        /\ rest[n] = Decide(before, rest, terminal, n) /\ Under(y, rest)
    BY <1>2 DEF Under
  <2>2. /\ y[n] = "ABSENT" => before[n] = "ABSENT"
        /\ y[n] = "PENDING" => rest[n] = Considered(n, rest, terminal)
        /\ y[n] = "READY" => rest[n] = Entered(n, rest)
        /\ y[n] = "RUNNING" /\ Kind[n] = "subgraph" => rest[n] = Entered(n, rest)
    BY <1>1, <2>1, OnTheWay
  <2>3. /\ Below(Considered(n, y, terminal), Considered(n, rest, terminal))
        /\ SubgraphComplete(n, y) => SubgraphComplete(n, rest)
    BY <1>1, <2>1, ConsideredMonotone, EnteredMonotone
  <2>4. Below(y[n], target) /\ Below(target, rest[n])
    <3>1. CASE y[n] = "PENDING" /\ target = "SKIPPED" /\ Considered(n, y, terminal) = "SKIPPED"
      BY <2>2, <2>3, <3>1 DEF Below
    <3>2. CASE y[n] = "PENDING" /\ target = "READY" /\ Considered(n, y, terminal) \notin {"PENDING", "SKIPPED"}
      <4>1. Considered(n, y, terminal) = Entered(n, y)
        BY <3>2, ConsideredMeans
      <4>2. Below(Entered(n, y), rest[n]) /\ Below("READY", Entered(n, y))
        BY <2>2, <2>3, <3>2, <4>1, EnteredMeans
      <4> QED
        BY <3>2, <4>2 DEF Below
    <3>3. CASE y[n] = "READY" /\ target \in {"RUNNING", "WAITING_FOR_USER", "WAITING_FOR_EXTERNAL"}
               /\ (target = "RUNNING" => Kind[n] = "subgraph")
               /\ (target = "WAITING_FOR_USER" => Kind[n] = "human_gate")
               /\ (target = "WAITING_FOR_EXTERNAL" => Kind[n] = "external_input")
      BY <2>2, <3>3, EnteredMeans DEF Below
    <3>4. CASE y[n] = "RUNNING" /\ target = "VERIFIED" /\ Kind[n] = "subgraph" /\ SubgraphComplete(n, y)
      BY <2>2, <2>3, <3>4, EnteredMeans DEF Below
    <3>5. CASE y[n] = "ABSENT" /\ target = "PENDING" /\ Activated(n, y)
      <4>1. Activated(n, rest)
        <5>1. Parent[n] # None => Parent[n] \in Nodes
          BY GraphAssumption DEF GraphAssumption
        <5> QED
          BY <2>1, <3>5, <5>1 DEF Activated, Under, Below
      <4>2. rest[n] = Considered(n, rest, terminal)
        BY <2>1, <2>2, <3>5, <4>1 DEF Decide
      <4>3. rest[n] # "ABSENT"
        BY <4>2, ConsideredMeans, EnteredMeans
      <4> QED
        BY <3>5, <4>3 DEF Below
    <3> QED
      BY <1>3, <3>1, <3>2, <3>3, <3>4, <3>5 DEF LoopMove
  <2>5. Below(before[n], target)
    BY <2>1, <2>4 DEF Below
  <2>6. /\ [y EXCEPT ![n] = target] \in Assignments
        /\ \A m \in Nodes : [y EXCEPT ![n] = target][m] = IF m = n THEN target ELSE y[m]
    BY <2>1 DEF Assignments
  <2> QED
    BY <2>1, <2>4, <2>5, <2>6 DEF Under
<1>4. before \in S
  BY <1>1, UnderOrders
<1>5. S \in SUBSET Assignments /\ VisitClosed(terminal, S)
  BY <1>3 DEF VisitClosed
<1>6. x \in S
  <2> HIDE DEF S
  <2> QED
    BY <1>4, <1>5 DEF Visited
<1> QED
  BY <1>6 DEF rest

\* In whatever order the loop visits the nodes: when no node moves any more, the
\* statuses are those of Settle.
THEOREM VisitsEndAtSettle ==
  ASSUME TerminalNodesDecided, NEW before \in Assignments, NEW terminal \in BOOLEAN,
         NEW x \in Visited(before, terminal),
         \A n \in Nodes, target \in Statuses : ~ LoopMove(x, terminal, n, target)
  PROVE  x = Settle(before, terminal)
<1> DEFINE rest == Settle(before, terminal)
<1>1. /\ rest \in Assignments /\ rest = Round(before, rest, terminal)
      /\ \A y \in Assignments : Under(before, y) /\ Under(Round(before, y, terminal), y) => Under(rest, y)
  BY LoopEnds
<1>2. x \in Assignments /\ Under(before, x) /\ Under(x, rest)
  BY VisitsUnder DEF Visited
<1> HIDE DEF rest
<1>3. ASSUME NEW n \in Nodes PROVE Below(Decide(before, x, terminal, n), x[n])
  <2>1. /\ Below(before[n], x[n]) /\ Below(x[n], rest[n])
        /\ rest[n] = Decide(before, rest, terminal, n)
    <3>1. Round(before, rest, terminal)[n] = Decide(before, rest, terminal, n)
      BY DEF Round
    <3> QED
      BY <1>1, <1>2, <3>1 DEF Under
  <2>2. /\ x[n] = "ABSENT" => before[n] = "ABSENT"
        /\ x[n] = "PENDING" => /\ before[n] \in {"ABSENT", "PENDING"}
        /\ x[n] = "READY" => /\ before[n] \in {"ABSENT", "PENDING", "READY"}
                             /\ rest[n] = Entered(n, rest)
        /\ x[n] = "RUNNING" /\ Kind[n] = "subgraph" => rest[n] = Entered(n, rest)
    BY <1>1, <1>2, <2>1, OnTheWay
  <2>3. Below(Decide(before, x, terminal, n), rest[n])
    BY <1>1, <1>2, <2>1, DecideMonotone
  <2>4. \A target \in Statuses : ~ LoopMove(x, terminal, n, target)
    OBVIOUS
  <2>5. CASE x[n] = "ABSENT"
    <3>1. ~ Activated(n, x)
      BY <2>4, <2>5 DEF LoopMove, Statuses, NodeStatuses
    <3> QED
      BY <2>2, <2>5, <3>1 DEF Decide, Below
  <2>6. CASE x[n] = "PENDING"
    <3>1. Considered(n, x, terminal) = "PENDING"
      BY <2>4, <2>6 DEF LoopMove, Statuses, NodeStatuses
    <3> QED
      BY <2>2, <2>6, <3>1 DEF Decide, Below
  <2>7. CASE x[n] = "READY"
    <3>1. Kind[n] \in ExecutableKinds
      <4>1. Kind[n] \notin {"subgraph", "human_gate", "external_input"}
        BY <2>4, <2>7 DEF LoopMove, Statuses, NodeStatuses
      <4> QED
        BY <4>1, GraphAssumption DEF GraphAssumption, NodeKinds
    <3>2. Entered(n, x) = "READY" /\ Entered(n, rest) = "READY"
      BY <3>1, EnteredMeans
    <3>3. rest[n] = "READY"
      BY <2>2, <2>7, <3>2
    <3> QED
      BY <2>3, <2>7, <3>3
  <2>8. CASE x[n] = "RUNNING" /\ Kind[n] = "subgraph"
    <3>1. ~ SubgraphComplete(n, x)
      BY <2>4, <2>8 DEF LoopMove, Statuses, NodeStatuses
    <3>2. Entered(n, x) = "RUNNING"
      BY <2>8, <3>1, EnteredMeans
    <3>3. Decide(before, x, terminal, n) # "VERIFIED"
      <4>1. before[n] \in {"ABSENT", "PENDING", "READY", "RUNNING"}
        BY <2>1, <2>8 DEF Below
      <4>2. Considered(n, x, terminal) # "VERIFIED"
        BY <3>2, ConsideredMeans
      <4> QED
        BY <2>8, <3>2, <4>1, <4>2 DEF Decide
    <3>4. rest[n] \in {"RUNNING", "VERIFIED"}
      BY <2>2, <2>8, EnteredMeans
    <3> QED
      BY <2>3, <2>8, <3>3, <3>4 DEF Below
  <2>9. CASE x[n] \notin {"ABSENT", "PENDING", "READY"} /\ ~ (x[n] = "RUNNING" /\ Kind[n] = "subgraph")
    <3>1. x[n] = rest[n]
      <4>1. CASE x[n] = "RUNNING"
        <5>1. rest[n] # "VERIFIED"
          <6>1. before[n] \in {"ABSENT", "PENDING", "READY", "RUNNING"} /\ Kind[n] # "subgraph"
            BY <2>1, <2>9, <4>1 DEF Below
          <6>2. Entered(n, rest) # "VERIFIED" /\ Considered(n, rest, terminal) # "VERIFIED"
            BY <6>1, EnteredMeans, ConsideredMeans
          <6> QED
            BY <2>1, <6>1, <6>2 DEF Decide
        <5> QED
          BY <2>1, <4>1, <5>1 DEF Below
      <4>2. CASE x[n] # "RUNNING"
        BY <2>1, <2>9, <4>2 DEF Below
      <4> QED
        BY <4>1, <4>2
    <3> QED
      BY <2>3, <3>1
  <2> QED
    BY <2>5, <2>6, <2>7, <2>8, <2>9
<1>4. Under(Round(before, x, terminal), x)
  BY <1>3 DEF Under, Round
<1>5. Under(rest, x)
  BY <1>1, <1>2, <1>4
<1>6. rest = x
  BY <1>1, <1>2, <1>5, UnderOrders
<1> QED
  BY <1>6 DEF rest
=============================================================================
