-------------------------- MODULE DependencyProofs --------------------------
(***************************************************************************)
(* What nodes stand on: their dependencies, the inputs they were computed  *)
(* from, and the Attempt that verified them.  Then what one scheduling     *)
(* call starts, and who waits for the user.                                *)
(***************************************************************************)
EXTENDS RunKernelProofs, FiniteSetTheorems, FunctionTheorems

\* The statuses a dependency may have under a node that has been entered.
Settled == SuccessStatuses \cup {"SKIPPED"}

\* A node depending on the root or on a dependent of it is a dependent.
LEMMA DependentsClosed ==
  ASSUME NEW root \in Nodes, NEW n \in Nodes, NEW d \in DependsOn[n],
         d = root \/ d \in DependentsOf[root]
  PROVE  n \in DependentsOf[root]
<1> DEFINE closed(S) == \A m \in Nodes : DependsOn[m] \cap (S \cup {root}) # {} => m \in S
<1>1. DependentsOf[root] = {m \in Nodes : \A S \in SUBSET Nodes : closed(S) => m \in S}
  BY DEF DependentsOf, Dependents
<1>2. ASSUME NEW S \in SUBSET Nodes, closed(S) PROVE n \in S
  <2>1. d \in S \cup {root}
    BY <1>1, <1>2
  <2> QED
    BY <1>2, <2>1
<1> QED
  BY <1>1, <1>2

\* The loop leaves a settled node as it is.
LEMMA DecideSettled ==
  ASSUME NEW before, NEW st, NEW terminal, NEW n, before[n] \in Settled
  PROVE  Decide(before, st, terminal, n) = before[n]
BY DEF Decide, Settled, SuccessStatuses

\* What the loop enters has its dependencies satisfied where the loop ends.
LEMMA DecideEntered ==
  ASSUME NEW before \in [Nodes -> Statuses], NEW st, NEW terminal, NEW n \in Nodes \ OnTerminalEvent,
         Decide(before, st, terminal, n) \in EnteredStatuses
  PROVE  before[n] \in EnteredStatuses \/ DependenciesSatisfied(n, st)
<1>1. Considered(n, st, terminal) \in EnteredStatuses => DependenciesSatisfied(n, st)
  BY DEF Considered, EnteredStatuses
<1> QED
  BY <1>1 DEF Decide, EnteredStatuses, Statuses, NodeStatuses

\* A node the loop leaves settled counts for its dependents as it did.
LEMMA SatisfiedSettled ==
  ASSUME NEW d, NEW st, Satisfied(d, st)
  PROVE  st[d] \in Settled
BY DEF Satisfied, Settled

\* A scheduling call enters nothing early and unsettles nothing.
LEMMA ScheduleClosure ==
  ASSUME TypeOK, DependencyClosure, NEW requested, NEW terminal, Schedule(requested, terminal)
  PROVE  DependencyClosure'
<1>1. PICK after \in [Nodes -> Statuses], started \in SUBSET Nodes :
        /\ after = Round(status, after, terminal)
        /\ \A n \in started : n \in Executable /\ after[n] \in {"READY", "RETRY_READY"}
        /\ Launch(after, started)
  BY ScheduleStep
<1>2. \A n \in Nodes : after[n] = Decide(status, after, terminal, n)
  BY <1>1 DEF Round
<1>3. \A d \in Nodes : status[d] \in Settled => after[d] = status[d]
  BY <1>2, DecideSettled
<1>4. \A d \in Nodes : after[d] \in Settled => status'[d] = after[d]
  BY <1>1 DEF Launch, Settled, SuccessStatuses
<1> SUFFICES ASSUME NEW n \in Nodes \ OnTerminalEvent, status'[n] \in EnteredStatuses,
                    NEW d \in DependsOn[n]
             PROVE  Satisfied(d, status')
  BY DEF DependencyClosure, DependenciesSatisfied
<1>5. d \in Nodes
  BY GraphAssumption DEF GraphAssumption
<1>6. after[n] \in EnteredStatuses
  BY <1>1 DEF Launch, EnteredStatuses, Statuses, NodeStatuses
<1>7. CASE status[n] \in EnteredStatuses
  <2>1. Satisfied(d, status)
    BY <1>7 DEF DependencyClosure, DependenciesSatisfied
  <2> QED
    BY <1>3, <1>4, <1>5, <2>1, SatisfiedSettled DEF Satisfied
<1>8. CASE DependenciesSatisfied(n, after)
  <2>1. Satisfied(d, after)
    BY <1>8 DEF DependenciesSatisfied
  <2> QED
    BY <1>4, <1>5, <2>1, SatisfiedSettled DEF Satisfied
<1> QED
  BY <1>2, <1>6, <1>7, <1>8, DecideEntered DEF TypeOK

\* What moves only nodes that are not settled, enters none that was not entered
\* before and skips none, breaks nothing.
UnsettledMove ==
  \A n \in Nodes : status'[n] # status[n] =>
    /\ status[n] \notin Settled /\ status'[n] # "SKIPPED"
    /\ status'[n] \in EnteredStatuses => status[n] \in EnteredStatuses

\* A step that neither enters a node nor unsettles one keeps the closure.
LEMMA UnsettledClosure ==
  ASSUME DependencyClosure, UnsettledMove
  PROVE  DependencyClosure'
<1> SUFFICES ASSUME NEW n \in Nodes \ OnTerminalEvent, status'[n] \in EnteredStatuses,
                    NEW d \in DependsOn[n]
             PROVE  Satisfied(d, status')
  BY DEF DependencyClosure, DependenciesSatisfied
<1>1. d \in Nodes
  BY GraphAssumption DEF GraphAssumption
<1>2. Satisfied(d, status)
  BY DEF UnsettledMove, DependencyClosure, DependenciesSatisfied
<1> QED
  BY <1>1, <1>2, SatisfiedSettled DEF UnsettledMove, Satisfied

\* The results of an Executor move nodes that are at work.
LEMMA ExecutingMoves ==
  ASSUME TypeOK, Executing
  PROVE  UnsettledMove
<1> USE DEF UnsettledMove, Settled, SuccessStatuses, EnteredStatuses, Statuses, NodeStatuses
<1>1. ASSUME NEW n \in Nodes, NEW s, s # "SKIPPED", status' = [status EXCEPT ![n] = s],
             status[n] \in {"RUNNING", "WAITING_FOR_EXTERNAL"}
      PROVE  UnsettledMove
  BY <1>1 DEF TypeOK
<1>2. ASSUME status' = status PROVE UnsettledMove
  BY <1>2
<1>3. \A n, action : FailureTarget(n, action) # "SKIPPED"
  BY DEF FailureTarget
<1> HIDE DEF UnsettledMove
<1> QED
  BY <1>1, <1>2, <1>3
  DEF Executing, Active, CompleteBusiness, ApplyCompleted, ApplyFailed, RequestInteraction,
      OpenManualWait, ResumeManual, WriteArtifact

\* No result of an Executor takes a dependency away from an entered node.
LEMMA ExecutingClosure ==
  ASSUME TypeOK, DependencyClosure, Executing
  PROVE  DependencyClosure'
BY ExecutingMoves, UnsettledClosure

\* The answers of the user move nodes that wait for them.
LEMMA DecidingMoves ==
  ASSUME TypeOK, Deciding
  PROVE  UnsettledMove
<1> USE DEF UnsettledMove, Settled, SuccessStatuses, EnteredStatuses, Statuses, NodeStatuses
<1>1. ASSUME NEW n \in Nodes, NEW s, s # "SKIPPED", status' = [status EXCEPT ![n] = s],
             status[n] \in {"READY", "WAITING_FOR_USER", "WAITING_FOR_EXTERNAL"}
      PROVE  UnsettledMove
  BY <1>1 DEF TypeOK
<1>2. ASSUME status' = status PROVE UnsettledMove
  BY <1>2
<1> HIDE DEF UnsettledMove
<1> QED
  BY <1>1, <1>2
  DEF Deciding, AnswerInteraction, OpenGate, ModifyGate, nodeVars, SubmitProof,
      GateAwaitsDecision, SubmitGateDecision

\* Nor does an answer of the user take one away.
LEMMA DecidingClosure ==
  ASSUME TypeOK, DependencyClosure, Deciding
  PROVE  DependencyClosure'
BY DecidingMoves, UnsettledClosure

\* Invalidation takes every node down that stands on one it takes down.
LEMMA OperatingClosure ==
  ASSUME TypeOK, DependencyClosure, Operating
  PROVE  DependencyClosure'
<1>1. CASE PauseRun \/ ResumeRun \/ CancelRun
  BY <1>1, UnsettledClosure
  DEF PauseRun, ResumeRun, CancelRun, SetWorkflow, nodeVars, UnsettledMove
<1>2. CASE ResumeInvalidated
  BY <1>2, UnsettledClosure
  DEF ResumeInvalidated, UnsettledMove, Settled, SuccessStatuses, EnteredStatuses
<1>3. ASSUME NEW n \in Nodes, RetryNode(n) PROVE DependencyClosure'
  BY <1>3, UnsettledClosure
  DEF RetryNode, Retryable, UnsettledMove, Settled, SuccessStatuses, EnteredStatuses, TypeOK
<1>4. ASSUME NEW root \in Nodes, InvalidateDownstream(root) PROVE DependencyClosure'
  <2> SUFFICES ASSUME NEW n \in Nodes \ OnTerminalEvent, status'[n] \in EnteredStatuses,
                      NEW d \in DependsOn[n]
               PROVE  Satisfied(d, status')
    BY DEF DependencyClosure, DependenciesSatisfied
  <2>1. d \in Nodes
    BY GraphAssumption DEF GraphAssumption
  <2>2. \A m \in Nodes :
          status'[m] = IF m \in DependentsOf[root] THEN "INVALIDATED" ELSE status[m]
    BY <1>4 DEF InvalidateDownstream
  <2>3. n \notin DependentsOf[root]
    BY <2>2 DEF EnteredStatuses
  <2>4. d \notin DependentsOf[root]
    BY <2>3, DependentsClosed
  <2>5. Satisfied(d, status)
    BY <2>2, <2>3 DEF DependencyClosure, DependenciesSatisfied
  <2> QED
    BY <2>1, <2>2, <2>4, <2>5 DEF Satisfied
<1> QED
  BY <1>1, <1>2, <1>3, <1>4, InputAssumption DEF Operating, InputAssumption

\* DependencyClosure is inductive, given the types.
LEMMA ClosureStep == TypeOK /\ DependencyClosure /\ [Next]_vars => DependencyClosure'
<1> SUFFICES ASSUME TypeOK, DependencyClosure, [Next]_vars PROVE DependencyClosure'
  OBVIOUS
<1>1. CASE Scheduling
  BY <1>1, ScheduleClosure, UnsettledClosure
  DEF Scheduling, ScheduleOutOfTime, nodeVars, UnsettledMove
<1>2. CASE UNCHANGED vars
  BY <1>2, UnsettledClosure DEF vars, nodeVars, UnsettledMove
<1> QED
  BY <1>1, <1>2, ExecutingClosure, DecidingClosure, OperatingClosure DEF Next

\* No order of scheduling, results, retries and invalidations leaves a node
\* entered whose dependencies are not satisfied.
THEOREM DependencyClosureCorrect == Spec => []DependencyClosure
<1>1. Init => DependencyClosure
  BY DEF Init, DependencyClosure, EnteredStatuses
<1>2. TypeOK /\ DependencyClosure /\ [Next]_vars => TypeOK' /\ DependencyClosure'
  BY TypeStep, ClosureStep
<1> QED
  BY <1>1, <1>2, InitType, PTL DEF Spec

-----------------------------------------------------------------------------
(***************************************************************************)
(* Verified nodes.  That only a node's last Attempt is ever live makes the *)
(* one that verifies it the last.                                          *)
(***************************************************************************)
LastLive ==
  \A n \in Nodes : \A k \in Ordinals :
    attempts[n][k].status \in LiveStatuses => k = attempt_count[n]
BackedInv == AgreementInv /\ LastLive /\ VerifiedIsBacked

\* LastLive rests on the agreement and on the statuses and counts alone.
CountsStay ==
  /\ attempt_count' = attempt_count
  /\ \A n \in Nodes : \A k \in Ordinals :
       attempts'[n][k].status \in LiveStatuses => attempts[n][k].status \in LiveStatuses
\* A verified executable node before and after the step is verified by the
\* same Attempt, or the step does not verify it.
BackingStays ==
  \A n \in Executable : status'[n] = "VERIFIED" =>
    /\ status[n] = "VERIFIED"
    /\ artifact_refs[n] \subseteq artifact_refs'[n]
    /\ \A k \in Ordinals : attempts[n][k].status \notin LiveStatuses =>
         /\ attempts'[n][k].status = attempts[n][k].status
         /\ attempts'[n][k].verified = attempts[n][k].verified

\* A step that leaves a node, its last Attempt and its refs alone keeps it backed.
LEMMA BackedStays ==
  ASSUME BackedInv, CountsStay, BackingStays
  PROVE  LastLive' /\ VerifiedIsBacked'
<1>1. LastLive'
  BY DEF BackedInv, LastLive, CountsStay
<1>2. ASSUME NEW n \in Executable, status'[n] = "VERIFIED"
      PROVE  /\ attempt_count'[n] # 0
             /\ attempts'[n][attempt_count'[n]].status = "COMPLETED"
             /\ attempts'[n][attempt_count'[n]].verified
             /\ <<n, attempt_count'[n], 2>> \in artifact_refs'[n]
  <2>1. status[n] = "VERIFIED" /\ attempt_count'[n] = attempt_count[n]
    BY <1>2 DEF BackingStays, CountsStay
  <2>2. attempt_count[n] \in Ordinals
    <3>1. attempt_count[n] \in 0 .. MaxAttempts
      BY DEF BackedInv, AgreementInv, TypeOK, Executable
    <3>2. attempt_count[n] # 0
      BY <2>1 DEF BackedInv, VerifiedIsBacked
    <3> QED
      BY <3>1, <3>2, BoundAssumption DEF Ordinals, BoundAssumption
  <2>3. /\ attempts[n][attempt_count[n]].status = "COMPLETED"
        /\ attempts[n][attempt_count[n]].verified
        /\ attempt_count[n] # 0
        /\ <<n, attempt_count[n], 2>> \in artifact_refs[n]
    BY <2>1 DEF BackedInv, VerifiedIsBacked
  <2> QED
    BY <1>2, <2>1, <2>2, <2>3 DEF BackingStays, LiveStatuses
<1> QED
  BY <1>1, <1>2 DEF VerifiedIsBacked

\* A scheduling call verifies no executable node.
LEMMA ScheduleBacked ==
  ASSUME BackedInv, NEW requested, NEW terminal, Schedule(requested, terminal)
  PROVE  LastLive' /\ VerifiedIsBacked'
<1>1. PICK after \in [Nodes -> Statuses], started \in SUBSET Nodes :
        /\ after = Round(status, after, terminal)
        /\ \A n \in started : n \in Executable /\ after[n] \in {"READY", "RETRY_READY"}
        /\ Launch(after, started)
  BY ScheduleStep DEF BackedInv, AgreementInv
<1>2. \A n \in Nodes : \A k \in Ordinals :
        attempts'[n][k] = IF n \in started /\ k = attempt_count[n] + 1
                          THEN NewAttempt(n, after) ELSE attempts[n][k]
  BY <1>1 DEF Launch
<1>3. \A n \in Nodes : attempt_count'[n] = IF n \in started THEN attempt_count[n] + 1
                                           ELSE attempt_count[n]
  BY <1>1 DEF Launch
<1>4. \A n \in Executable : after[n] = Decide(status, after, terminal, n)
  BY <1>1 DEF Round, Executable
<1>5. \A n \in started : status[n] \notin LiveStatuses
  BY <1>1, <1>4, DecideExecutable DEF BackedInv, AgreementInv, TypeOK, LiveStatuses
<1>6. \A n \in started : \A k \in Ordinals : attempts[n][k].status \notin LiveStatuses
  BY <1>5 DEF BackedInv, AgreementInv, NodeAttemptAgreement
<1>7. LastLive'
  BY <1>2, <1>3, <1>6 DEF BackedInv, LastLive
<1>8. ASSUME NEW n \in Executable, status'[n] = "VERIFIED"
      PROVE  n \notin started /\ status[n] = "VERIFIED"
  <2>1. n \notin started /\ after[n] = "VERIFIED" /\ n \in Nodes
    BY <1>1, <1>8 DEF Launch, Executable
  <2>2. Entered(n, after) = "READY"
    BY DEF Entered, Executable, ExecutableKinds
  <2> QED
    BY <1>4, <2>1, <2>2 DEF Decide, Considered, Executable, ExecutableKinds
<1>9. VerifiedIsBacked'
  <2> SUFFICES ASSUME NEW n \in Executable, status'[n] = "VERIFIED"
               PROVE  /\ attempt_count'[n] # 0
                      /\ attempts'[n][attempt_count'[n]].status = "COMPLETED"
                      /\ attempts'[n][attempt_count'[n]].verified
                      /\ <<n, attempt_count'[n], 2>> \in artifact_refs'[n]
    BY DEF VerifiedIsBacked
  <2>1. n \notin started /\ status[n] = "VERIFIED" /\ n \in Nodes
    BY <1>8 DEF Executable
  <2>2. attempts'[n] = attempts[n]
    BY <1>1, <2>1 DEF Launch, BackedInv, AgreementInv, TypeOK
  <2>3. artifact_refs' = artifact_refs
    BY DEF Schedule
  <2> QED
    BY <1>3, <2>1, <2>2, <2>3 DEF BackedInv, VerifiedIsBacked
<1> QED
  BY <1>7, <1>9

\* An Executor verifies a node only with its last Attempt.
LEMMA ExecutingBacked ==
  ASSUME BackedInv, Executing
  PROVE  LastLive' /\ VerifiedIsBacked'
<1> USE DEF CountsStay, BackingStays, LiveStatuses, AttemptStatuses
<1>0. attempts \in [Nodes -> [Ordinals -> Attempt]] /\ status \in [Nodes -> Statuses]
  BY DEF BackedInv, AgreementInv, TypeOK
<1>a. \A n \in Nodes : active_attempt[n] # 0 => active_attempt[n] \in Ordinals
  BY HeldAttempt DEF BackedInv
<1>1. ASSUME NEW n \in Nodes, CompleteBusiness(n) PROVE LastLive' /\ VerifiedIsBacked'
  <2> DEFINE k == active_attempt[n]
  <2>1. k \in Ordinals /\ attempts[n][k].status = "RUNNING" /\ status[n] = "RUNNING"
    BY <1>1, <1>a DEF CompleteBusiness, Active
  <2>2. k = attempt_count[n] /\ k # 0
    BY <2>1, BoundAssumption DEF BackedInv, LastLive, Ordinals
  <2>3. attempts' = [attempts EXCEPT ![n][k] = Verified(@)]
    BY <1>1 DEF CompleteBusiness
  <2>4. /\ artifact_refs' = [artifact_refs EXCEPT ![n] = @ \cup {<<n, k, 2>>}]
        /\ artifact_refs \in [Nodes -> SUBSET ArtifactRef]
        /\ status' = [status EXCEPT ![n] = "VERIFIED"]
        /\ attempt_count' = attempt_count
    BY <1>1 DEF CompleteBusiness, BackedInv, AgreementInv, TypeOK
  <2> HIDE DEF k
  <2>5. \A m \in Nodes : \A j \in Ordinals :
          /\ attempts'[m][j].status = IF m = n /\ j = k THEN "COMPLETED" ELSE attempts[m][j].status
          /\ m = n /\ j = k => attempts'[m][j].verified
          /\ m # n \/ j # k => attempts'[m][j].verified = attempts[m][j].verified
    BY <1>0, <2>1, <2>3, LogVerified
  <2>6. LastLive'
    BY <2>4, <2>5 DEF BackedInv, LastLive
  <2>7. ASSUME NEW m \in Executable, status'[m] = "VERIFIED"
        PROVE  /\ attempt_count'[m] # 0
               /\ attempts'[m][attempt_count'[m]].status = "COMPLETED"
               /\ attempts'[m][attempt_count'[m]].verified
               /\ <<m, attempt_count'[m], 2>> \in artifact_refs'[m]
    <3>1. m \in Nodes
      BY DEF Executable
    <3>2. CASE m = n
      BY <2>1, <2>2, <2>4, <2>5, <3>2
    <3>3. CASE m # n
      <4>1. status[m] = "VERIFIED" /\ artifact_refs'[m] = artifact_refs[m]
        BY <1>0, <2>4, <2>7, <3>1, <3>3
      <4>2. /\ attempt_count[m] # 0 /\ attempts[m][attempt_count[m]].status = "COMPLETED"
            /\ attempts[m][attempt_count[m]].verified /\ <<m, attempt_count[m], 2>> \in artifact_refs[m]
        BY <4>1 DEF BackedInv, VerifiedIsBacked
      <4>3. attempt_count[m] \in Ordinals
        BY <3>1, <4>2, BoundAssumption
        DEF BackedInv, AgreementInv, TypeOK, Ordinals, BoundAssumption
      <4> QED
        BY <2>4, <2>5, <3>1, <3>3, <4>1, <4>2, <4>3
    <3> QED
      BY <3>2, <3>3
  <2> QED
    BY <2>6, <2>7 DEF VerifiedIsBacked
<1>2. ASSUME NEW n \in Nodes, NEW k \in Ordinals, NEW s \in Statuses \ {"VERIFIED"},
             NEW a \in AttemptStatuses,
             status' = [status EXCEPT ![n] = s],
             attempts' = [attempts EXCEPT ![n][k].status = a],
             attempts[n][k].status \in LiveStatuses,
             attempt_count' = attempt_count,
             \A m \in Nodes \ {n} : artifact_refs'[m] = artifact_refs[m]
      PROVE  LastLive' /\ VerifiedIsBacked'
  <2>1. \A m \in Nodes : \A j \in Ordinals :
          /\ attempts'[m][j].status = IF m = n /\ j = k THEN a ELSE attempts[m][j].status
          /\ attempts'[m][j].verified = attempts[m][j].verified
    BY <1>0, <1>2, LogStatus
  <2>2. \A m \in Executable : m \in Nodes
    BY DEF Executable
  <2>3. CountsStay
    BY <1>2, <2>1
  <2>4. BackingStays
    BY <1>0, <1>2, <2>1, <2>2
  <2> QED
    BY <2>3, <2>4, BackedStays
<1>3. ASSUME NEW n \in Nodes, ApplyCompleted(n) PROVE LastLive' /\ VerifiedIsBacked'
  <2>1. \A m \in Nodes \ {n} : artifact_refs'[m] = artifact_refs[m]
    BY <1>3 DEF ApplyCompleted, BackedInv, AgreementInv, TypeOK
  <2> QED
    BY <1>2, <1>3, <1>a, <2>1 DEF ApplyCompleted, Active, SetAttempt, Statuses, NodeStatuses
<1>4. ASSUME NEW n \in Nodes, NEW action, ApplyFailed(n, action) PROVE LastLive' /\ VerifiedIsBacked'
  <2>1. FailureTarget(n, action) \in Statuses \ {"VERIFIED"}
    BY DEF FailureTarget, Statuses, NodeStatuses
  <2> QED
    BY <1>2, <1>4, <1>a, <2>1 DEF ApplyFailed, Active, SetAttempt
<1>5. ASSUME NEW n \in Nodes, RequestInteraction(n) PROVE LastLive' /\ VerifiedIsBacked'
  BY <1>2, <1>5, <1>a DEF RequestInteraction, Active, SetAttempt, Statuses, NodeStatuses
<1>6. ASSUME NEW n \in Nodes, OpenManualWait(n) PROVE LastLive' /\ VerifiedIsBacked'
  BY <1>2, <1>6 DEF OpenManualWait, Statuses, NodeStatuses
<1>7. ASSUME NEW n \in Nodes, ResumeManual(n) PROVE LastLive' /\ VerifiedIsBacked'
  BY <1>2, <1>7 DEF ResumeManual, Statuses, NodeStatuses
<1>8. ASSUME NEW n \in Nodes, NEW k \in Ordinals, WriteArtifact(n, k)
      PROVE  LastLive' /\ VerifiedIsBacked'
  <2>1. \A m \in Nodes : \A j \in Ordinals :
          /\ attempts'[m][j].status = attempts[m][j].status
          /\ attempts'[m][j].verified = attempts[m][j].verified
    BY <1>0, <1>8, LogWrote DEF WriteArtifact
  <2>2. \A m \in Executable : artifact_refs[m] \subseteq artifact_refs'[m]
    BY <1>8 DEF WriteArtifact, BackedInv, AgreementInv, TypeOK, Executable
  <2>3. \A m \in Executable : m \in Nodes
    BY DEF Executable
  <2>4. CountsStay
    BY <1>8, <2>1 DEF WriteArtifact
  <2>5. BackingStays
    BY <1>8, <2>1, <2>2, <2>3 DEF WriteArtifact
  <2> QED
    BY <2>4, <2>5, BackedStays
<1> QED
  BY <1>1, <1>3, <1>4, <1>5, <1>6, <1>7, <1>8 DEF Executing

\* An answer of the user verifies no executable node.
LEMMA DecidingBacked ==
  ASSUME BackedInv, Deciding
  PROVE  LastLive' /\ VerifiedIsBacked'
<1> USE DEF CountsStay, BackingStays, LiveStatuses, AttemptStatuses
<1>1. /\ attempts \in [Nodes -> [Ordinals -> Attempt]] /\ status \in [Nodes -> Statuses]
      /\ artifact_refs \in [Nodes -> SUBSET ArtifactRef]
  BY DEF BackedInv, AgreementInv, TypeOK
<1>2. \A n \in Executable : n \in Nodes /\ Kind[n] \in ExecutableKinds
  BY DEF Executable
<1>3. ASSUME NEW n \in Nodes, AnswerInteraction(n) PROVE LastLive' /\ VerifiedIsBacked'
  <2>1. active_attempt[n] \in Ordinals /\ attempts[n][active_attempt[n]].status = "WAITING_FOR_USER"
    BY <1>3, HeldAttempt DEF AnswerInteraction, BackedInv
  <2>2. \A m \in Nodes : \A j \in Ordinals :
          /\ attempts'[m][j].status = IF m = n /\ j = active_attempt[n] THEN "RUNNING"
                                      ELSE attempts[m][j].status
          /\ attempts'[m][j].verified = attempts[m][j].verified
    BY <1>1, <1>3, <2>1, LogStatus DEF AnswerInteraction, SetAttempt
  <2>3. CountsStay
    BY <1>3, <2>1, <2>2 DEF AnswerInteraction
  <2>4. BackingStays
    BY <1>1, <1>2, <1>3, <2>1, <2>2 DEF AnswerInteraction
  <2> QED
    BY <2>3, <2>4, BackedStays
<1>4. ASSUME NEW n \in Nodes \ Executable, NEW s, status' = [status EXCEPT ![n] = s],
             attempts' = attempts, attempt_count' = attempt_count,
             \A m \in Nodes \ {n} : artifact_refs'[m] = artifact_refs[m]
      PROVE  LastLive' /\ VerifiedIsBacked'
  <2>1. CountsStay
    BY <1>4
  <2>2. BackingStays
    BY <1>1, <1>2, <1>4
  <2> QED
    BY <2>1, <2>2, BackedStays
<1>5. ASSUME NEW n \in Nodes, OpenGate(n) PROVE LastLive' /\ VerifiedIsBacked'
  BY <1>2, <1>4, <1>5 DEF OpenGate, ExecutableKinds
<1>6. ASSUME NEW n \in Nodes, ModifyGate(n) PROVE LastLive' /\ VerifiedIsBacked'
  BY <1>6, BackedStays DEF ModifyGate, nodeVars
<1>7. ASSUME NEW n \in Nodes, SubmitProof(n) PROVE LastLive' /\ VerifiedIsBacked'
  <2>1. \A m \in Nodes \ {n} : artifact_refs'[m] = artifact_refs[m]
    BY <1>1, <1>7 DEF SubmitProof
  <2> QED
    BY <1>2, <1>4, <1>7, <2>1 DEF SubmitProof, ExecutableKinds
<1>8. ASSUME NEW n \in Nodes, NEW decision \in Decisions, SubmitGateDecision(n, decision)
      PROVE  LastLive' /\ VerifiedIsBacked'
  BY <1>2, <1>4, <1>8 DEF SubmitGateDecision, GateAwaitsDecision, ExecutableKinds
<1> QED
  BY <1>3, <1>5, <1>6, <1>7, <1>8 DEF Deciding

\* Retries and invalidations verify nothing and spare the verified ones.
LEMMA OperatingBacked ==
  ASSUME BackedInv, Operating
  PROVE  LastLive' /\ VerifiedIsBacked'
<1> USE DEF CountsStay, BackingStays
<1>1. /\ status \in [Nodes -> Statuses] /\ \A n \in Executable : n \in Nodes
      /\ attempts \in [Nodes -> [Ordinals -> Attempt]]
  BY DEF BackedInv, AgreementInv, TypeOK, Executable
<1>2. CASE PauseRun \/ ResumeRun \/ CancelRun
  BY <1>2, BackedStays DEF PauseRun, ResumeRun, CancelRun, SetWorkflow, nodeVars
<1>3. CASE ResumeInvalidated
  BY <1>1, <1>3, BackedStays DEF ResumeInvalidated
<1>4. ASSUME NEW n \in Nodes, RetryNode(n) PROVE LastLive' /\ VerifiedIsBacked'
  BY <1>1, <1>4, BackedStays DEF RetryNode
<1>5. ASSUME NEW root \in Nodes, InvalidateDownstream(root) PROVE LastLive' /\ VerifiedIsBacked'
  <2> DEFINE targets == DependentsOf[root]
  <2>1. \A n \in Nodes : \A k \in Ordinals :
          IF n \in targets /\ attempts[n][k].status \in LiveStatuses
          THEN attempts'[n][k].status = "INVALIDATED"
          ELSE attempts'[n][k] = attempts[n][k]
    <3>1. \A a \in Attempt : [a EXCEPT !.status = "INVALIDATED"].status = "INVALIDATED"
      BY DEF Attempt
    <3> QED
      BY <1>1, <1>5, <3>1 DEF InvalidateDownstream
  <2>2. \A n \in Nodes :
          /\ status'[n] = IF n \in targets THEN "INVALIDATED" ELSE status[n]
          /\ n \notin targets => artifact_refs'[n] = artifact_refs[n]
    BY <1>5 DEF InvalidateDownstream
  <2>3. attempt_count' = attempt_count
    BY <1>5 DEF InvalidateDownstream
  <2> HIDE DEF targets
  <2>4. CountsStay
    BY <2>1, <2>3 DEF LiveStatuses
  <2>5. BackingStays
    BY <1>1, <2>1, <2>2
  <2> QED
    BY <2>4, <2>5, BackedStays
<1> QED
  BY <1>2, <1>3, <1>4, <1>5, InputAssumption DEF Operating, InputAssumption

\* BackedInv is inductive.
LEMMA BackedStep == BackedInv /\ [Next]_vars => BackedInv'
<1> SUFFICES ASSUME BackedInv, [Next]_vars PROVE LastLive' /\ VerifiedIsBacked'
  BY AgreementStep DEF BackedInv
<1>1. ASSUME UNCHANGED <<status, attempt_count, attempts, artifact_refs>>
      PROVE  LastLive' /\ VerifiedIsBacked'
  BY <1>1, BackedStays DEF CountsStay, BackingStays
<1>2. CASE Scheduling
  BY <1>1, <1>2, ScheduleBacked DEF Scheduling, ScheduleOutOfTime, nodeVars
<1>3. CASE UNCHANGED vars
  BY <1>1, <1>3 DEF vars, nodeVars
<1> QED
  BY <1>2, <1>3, ExecutingBacked, DecidingBacked, OperatingBacked DEF Next

\* A new Run has nothing verified.
LEMMA InitBacked == Init => BackedInv
<1> SUFFICES ASSUME Init PROVE LastLive /\ VerifiedIsBacked
  BY InitAgreement DEF BackedInv
<1>1. \A n \in Nodes : \A k \in Ordinals : attempts[n][k].status = "NONE"
  BY DEF Init, NoAttempt
<1>2. \A n \in Executable : status[n] # "VERIFIED"
  BY DEF Init, Executable
<1> QED
  BY <1>1, <1>2 DEF LastLive, VerifiedIsBacked, LiveStatuses

\* A node that shows as verified was verified by its last Attempt and still
\* carries what that Attempt produced, whatever was retried or invalidated since.
THEOREM VerifiedIsBackedCorrect == Spec => []VerifiedIsBacked
<1>1. BackedInv => VerifiedIsBacked
  BY DEF BackedInv
<1> QED
  BY <1>1, InitBacked, BackedStep, PTL DEF Spec

-----------------------------------------------------------------------------
(***************************************************************************)
(* Inputs.  A node in work or verified was entered, so its dependencies    *)
(* are settled, and what a settled node carries only invalidation changes, *)
(* which takes the dependent node down with it.  This needs that hosts do  *)
(* not write Artifacts of finished Attempts.                               *)
(***************************************************************************)
InputsInv == BackedInv /\ DependencyClosure /\ InputsCurrent

\* Attempt k of n must have been computed from what n's dependencies hold.
Evident(n, k) ==
  \/ attempts[n][k].status \in LiveStatuses
  \/ status[n] = "VERIFIED" /\ k = attempt_count[n]
Evidenced == Executable \ OnTerminalEvent
EvidenceStays ==
  \A n \in Evidenced : \A k \in Ordinals :
    Evident(n, k)' => Evident(n, k) /\ attempts'[n][k].inputs = attempts[n][k].inputs
RefsStay ==
  \A n \in Evidenced : \A k \in Ordinals :
    Evident(n, k)' => \A d \in DependsOn[n] : artifact_refs'[d] = artifact_refs[d]
SettledRefsStay ==
  \A d \in Nodes : status[d] \in Settled => artifact_refs'[d] = artifact_refs[d]

\* A node with dependencies reads their refs and nothing else.
LEMMA RefsOfDependencies ==
  ASSUME NEW n \in Nodes, DependsOn[n] # {}, NEW st
  PROVE  InputRefs(n, st) = UNION {artifact_refs[m] : m \in DependsOn[n]}
BY DEF InputRefs

\* The dependencies of a node in work or verified are settled.
LEMMA EvidentSettled ==
  ASSUME InputsInv, NEW n \in Evidenced, NEW k \in Ordinals, Evident(n, k), NEW d \in DependsOn[n]
  PROVE  status[d] \in Settled
<1>1. n \in Nodes \ OnTerminalEvent
  BY DEF Evidenced, Executable
<1>2. status[n] \in LiveStatuses \cup {"VERIFIED"}
  BY <1>1 DEF Evident, InputsInv, BackedInv, AgreementInv, NodeAttemptAgreement
<1>3. Satisfied(d, status)
  BY <1>1, <1>2
  DEF InputsInv, DependencyClosure, DependenciesSatisfied, LiveStatuses, EnteredStatuses,
      Statuses, NodeStatuses
<1> QED
  BY <1>3, SatisfiedSettled

\* Inputs stay current while neither the node's evidence nor its dependencies' refs change.
LEMMA InputsStay ==
  ASSUME InputsInv, EvidenceStays, RefsStay \/ SettledRefsStay
  PROVE  InputsCurrent'
<1> SUFFICES ASSUME NEW n \in Evidenced, NEW k \in Ordinals, DependsOn[n] # {}, Evident(n, k)'
             PROVE  attempts'[n][k].inputs = InputRefs(n, status)'
  BY DEF InputsCurrent, Evidenced, Evident
<1>1. n \in Nodes /\ DependsOn[n] \subseteq Nodes
  BY GraphAssumption DEF GraphAssumption, Evidenced, Executable
<1>2. Evident(n, k) /\ attempts'[n][k].inputs = attempts[n][k].inputs
  BY DEF EvidenceStays
<1>3. \A d \in DependsOn[n] : artifact_refs'[d] = artifact_refs[d]
  BY <1>1, <1>2, EvidentSettled DEF RefsStay, SettledRefsStay
<1>4. attempts[n][k].inputs = InputRefs(n, status)
  BY <1>2 DEF InputsInv, InputsCurrent, Evident, Evidenced
<1>5. InputRefs(n, status) = UNION {artifact_refs[m] : m \in DependsOn[n]}
  BY <1>1, RefsOfDependencies
<1>6. InputRefs(n, status)' = UNION {artifact_refs'[m] : m \in DependsOn[n]}
  BY <1>1 DEF InputRefs
<1> QED
  BY <1>2, <1>3, <1>4, <1>5, <1>6

\* A started Attempt takes its inputs from what the dependencies hold.
LEMMA ScheduleInputs ==
  ASSUME InputsInv, NEW requested, NEW terminal, Schedule(requested, terminal)
  PROVE  InputsCurrent'
<1>1. PICK after \in [Nodes -> Statuses], started \in SUBSET Nodes :
        /\ after = Round(status, after, terminal)
        /\ \A n \in started : n \in Executable /\ after[n] \in {"READY", "RETRY_READY"}
        /\ Launch(after, started)
  BY ScheduleStep DEF InputsInv, BackedInv, AgreementInv
<1>2. artifact_refs' = artifact_refs
  BY DEF Schedule
<1> SUFFICES ASSUME NEW n \in Evidenced, NEW k \in Ordinals, DependsOn[n] # {}, Evident(n, k)'
             PROVE  attempts'[n][k].inputs = InputRefs(n, status)'
  BY DEF InputsCurrent, Evidenced, Evident
<1>3. n \in Nodes /\ n \in Executable
  BY DEF Evidenced, Executable
<1>4. InputRefs(n, status)' = InputRefs(n, status) /\ InputRefs(n, after) = InputRefs(n, status)
  BY <1>2, <1>3 DEF InputRefs
<1>5. CASE n \in started /\ k = attempt_count[n] + 1
  <2>1. attempts'[n][k] = NewAttempt(n, after)
    BY <1>1, <1>3, <1>5 DEF Launch
  <2> QED
    BY <1>4, <2>1 DEF NewAttempt
<1>6. CASE ~ (n \in started /\ k = attempt_count[n] + 1)
  <2>1. attempts'[n][k] = attempts[n][k]
    BY <1>1, <1>3, <1>6 DEF Launch
  <2>2. Evident(n, k)
    <3>1. CASE attempts'[n][k].status \in LiveStatuses
      BY <2>1, <3>1 DEF Evident
    <3>2. CASE status'[n] = "VERIFIED" /\ k = attempt_count'[n]
      <4>1. n \notin started /\ after[n] = "VERIFIED"
        BY <1>1, <1>3, <3>2 DEF Launch
      <4>2. k = attempt_count[n]
        BY <1>1, <1>3, <3>2, <4>1 DEF Launch
      <4>3. Entered(n, after) = "READY"
        BY <1>3 DEF Entered, Executable, ExecutableKinds
      <4>4. status[n] = "VERIFIED"
        BY <1>1, <1>3, <4>1, <4>3 DEF Round, Decide, Considered, Executable, ExecutableKinds
      <4> QED
        BY <4>2, <4>4 DEF Evident
    <3> QED
      BY <3>1, <3>2 DEF Evident
  <2> QED
    BY <1>4, <2>1, <2>2 DEF InputsInv, InputsCurrent, Evident, Evidenced
<1> QED
  BY <1>5, <1>6

\* An Executor changes refs only of a node nothing settled stands on.
LEMMA ExecutingInputs ==
  ASSUME InputsInv, Executing, ~ LateWrites
  PROVE  InputsCurrent'
<1> USE DEF LiveStatuses, AttemptStatuses
<1>1. /\ attempts \in [Nodes -> [Ordinals -> Attempt]] /\ status \in [Nodes -> Statuses]
      /\ artifact_refs \in [Nodes -> SUBSET ArtifactRef]
  BY DEF InputsInv, BackedInv, AgreementInv, TypeOK
<1>2. \A n \in Nodes : active_attempt[n] # 0 => active_attempt[n] \in Ordinals
  BY HeldAttempt DEF InputsInv, BackedInv
<1>3. \A n \in Evidenced : n \in Nodes
  BY DEF Evidenced, Executable
<1>4. \A n \in Nodes : status[n] \in {"RUNNING", "WAITING_FOR_EXTERNAL"} => status[n] \notin Settled
  BY DEF Settled, SuccessStatuses
\* The result of a live Attempt, or a wait it enters or leaves.
<1>5. ASSUME NEW n \in Nodes, NEW k \in Ordinals, NEW s \in Statuses,
             attempts[n][k].status \in LiveStatuses,
             status[n] \in {"RUNNING", "WAITING_FOR_EXTERNAL"},
             status' = [status EXCEPT ![n] = s],
             attempt_count' = attempt_count,
             \A m \in Nodes : \A j \in Ordinals :
               /\ m # n \/ j # k => attempts'[m][j].status = attempts[m][j].status
               /\ attempts'[m][j].inputs = attempts[m][j].inputs,
             \A m \in Nodes \ {n} : artifact_refs'[m] = artifact_refs[m]
      PROVE  InputsCurrent'
  <2>1. k = attempt_count[n]
    BY <1>5 DEF InputsInv, BackedInv, LastLive
  <2>2. EvidenceStays
    <3> SUFFICES ASSUME NEW m \in Evidenced, NEW j \in Ordinals, Evident(m, j)'
                 PROVE  Evident(m, j)
      BY <1>3, <1>5 DEF EvidenceStays
    <3>1. CASE m = n /\ j = k
      BY <1>5, <3>1 DEF Evident
    <3>2. CASE m = n /\ j # k
      BY <1>3, <1>5, <2>1, <3>2 DEF Evident
    <3>3. CASE m # n
      BY <1>1, <1>3, <1>5, <3>3 DEF Evident
    <3> QED
      BY <3>1, <3>2, <3>3
  <2>3. SettledRefsStay
    BY <1>4, <1>5 DEF SettledRefsStay
  <2> QED
    BY <2>2, <2>3, InputsStay
<1>6. ASSUME NEW n \in Nodes, CompleteBusiness(n) PROVE InputsCurrent'
  <2> DEFINE k == active_attempt[n]
  <2>1. k \in Ordinals /\ attempts[n][k].status = "RUNNING" /\ status[n] = "RUNNING"
    BY <1>2, <1>6 DEF CompleteBusiness, Active
  <2>2. attempts' = [attempts EXCEPT ![n][k] = Verified(@)]
    BY <1>6 DEF CompleteBusiness
  <2>3. /\ \A m \in Nodes \ {n} : artifact_refs'[m] = artifact_refs[m]
        /\ status' = [status EXCEPT ![n] = "VERIFIED"] /\ attempt_count' = attempt_count
    BY <1>1, <1>6 DEF CompleteBusiness
  <2> HIDE DEF k
  <2>4. \A m \in Nodes : \A j \in Ordinals :
          /\ m # n \/ j # k => attempts'[m][j].status = attempts[m][j].status
          /\ attempts'[m][j].inputs = attempts[m][j].inputs
    BY <1>1, <2>1, <2>2, LogVerified
  <2> QED
    BY <1>5, <2>1, <2>3, <2>4 DEF Statuses, NodeStatuses
<1>7. ASSUME NEW n \in Nodes, NEW k \in Ordinals, NEW s \in Statuses, NEW a \in AttemptStatuses,
             attempts[n][k].status \in LiveStatuses,
             status[n] \in {"RUNNING", "WAITING_FOR_EXTERNAL"},
             status' = [status EXCEPT ![n] = s],
             attempts' = [attempts EXCEPT ![n][k].status = a],
             attempt_count' = attempt_count,
             \A m \in Nodes \ {n} : artifact_refs'[m] = artifact_refs[m]
      PROVE  InputsCurrent'
  <2>1. \A m \in Nodes : \A j \in Ordinals :
          /\ m # n \/ j # k => attempts'[m][j].status = attempts[m][j].status
          /\ attempts'[m][j].inputs = attempts[m][j].inputs
    BY <1>1, <1>7, LogStatus
  <2> QED
    BY <1>5, <1>7, <2>1
<1>8. ASSUME NEW n \in Nodes, ApplyCompleted(n) PROVE InputsCurrent'
  <2>1. \A m \in Nodes \ {n} : artifact_refs'[m] = artifact_refs[m]
    BY <1>1, <1>8 DEF ApplyCompleted
  <2> QED
    BY <1>2, <1>7, <1>8, <2>1 DEF ApplyCompleted, Active, SetAttempt, Statuses, NodeStatuses
<1>9. ASSUME NEW n \in Nodes, NEW action, ApplyFailed(n, action) PROVE InputsCurrent'
  <2>1. FailureTarget(n, action) \in Statuses
    BY DEF FailureTarget, Statuses, NodeStatuses
  <2> QED
    BY <1>2, <1>7, <1>9, <2>1 DEF ApplyFailed, Active, SetAttempt
<1>10. ASSUME NEW n \in Nodes, RequestInteraction(n) PROVE InputsCurrent'
  BY <1>2, <1>7, <1>10 DEF RequestInteraction, Active, SetAttempt, Statuses, NodeStatuses
<1>11. ASSUME NEW n \in Nodes, OpenManualWait(n) PROVE InputsCurrent'
  BY <1>7, <1>11 DEF OpenManualWait, Statuses, NodeStatuses
<1>12. ASSUME NEW n \in Nodes, ResumeManual(n) PROVE InputsCurrent'
  BY <1>7, <1>12 DEF ResumeManual, Statuses, NodeStatuses
<1>13. ASSUME NEW n \in Nodes, NEW k \in Ordinals, WriteArtifact(n, k) PROVE InputsCurrent'
  <2>1. status[n] = "RUNNING"
    BY <1>13 DEF WriteArtifact, InputsInv, BackedInv, AgreementInv, NodeAttemptAgreement
  <2>2. SettledRefsStay
    BY <1>1, <1>4, <1>13, <2>1 DEF WriteArtifact, SettledRefsStay
  <2>3. \A m \in Nodes : \A j \in Ordinals :
          /\ attempts'[m][j].status = attempts[m][j].status
          /\ attempts'[m][j].inputs = attempts[m][j].inputs
    BY <1>1, <1>13, LogWrote DEF WriteArtifact
  <2>4. EvidenceStays
    BY <1>3, <1>13, <2>3 DEF WriteArtifact, EvidenceStays, Evident
  <2> QED
    BY <2>2, <2>4, InputsStay
<1> QED
  BY <1>6, <1>8, <1>9, <1>10, <1>11, <1>12, <1>13 DEF Executing

\* An External Input gets its refs while nothing stands on it yet.
LEMMA DecidingInputs ==
  ASSUME InputsInv, Deciding
  PROVE  InputsCurrent'
<1>1. /\ attempts \in [Nodes -> [Ordinals -> Attempt]] /\ status \in [Nodes -> Statuses]
      /\ artifact_refs \in [Nodes -> SUBSET ArtifactRef]
  BY DEF InputsInv, BackedInv, AgreementInv, TypeOK
<1>2. \A n \in Evidenced : n \in Nodes /\ n \in Executable
  BY DEF Evidenced, Executable
<1>3. ASSUME NEW n \in Nodes, AnswerInteraction(n) PROVE InputsCurrent'
  <2>1. active_attempt[n] \in Ordinals /\ attempts[n][active_attempt[n]].status = "WAITING_FOR_USER"
    BY <1>3, HeldAttempt DEF AnswerInteraction, InputsInv, BackedInv
  <2>2. \A m \in Nodes : \A j \in Ordinals :
          /\ attempts'[m][j].status = IF m = n /\ j = active_attempt[n] THEN "RUNNING"
                                      ELSE attempts[m][j].status
          /\ attempts'[m][j].inputs = attempts[m][j].inputs
    BY <1>1, <1>3, <2>1, LogStatus DEF AnswerInteraction, SetAttempt, AttemptStatuses, LiveStatuses
  <2>3. EvidenceStays
    BY <1>1, <1>2, <1>3, <2>1, <2>2 DEF AnswerInteraction, EvidenceStays, Evident, LiveStatuses
  <2>4. SettledRefsStay
    BY <1>3 DEF AnswerInteraction, SettledRefsStay
  <2> QED
    BY <2>3, <2>4, InputsStay
<1>4. ASSUME NEW n \in Nodes \ Executable, NEW s, status' = [status EXCEPT ![n] = s],
             attempts' = attempts, attempt_count' = attempt_count, SettledRefsStay
      PROVE  InputsCurrent'
  <2>1. EvidenceStays
    BY <1>1, <1>2, <1>4 DEF EvidenceStays, Evident
  <2> QED
    BY <1>4, <2>1, InputsStay
<1>5. ASSUME NEW n \in Nodes, OpenGate(n) PROVE InputsCurrent'
  BY <1>4, <1>5 DEF OpenGate, Executable, ExecutableKinds, SettledRefsStay
<1>6. ASSUME NEW n \in Nodes, ModifyGate(n) PROVE InputsCurrent'
  BY <1>6, InputsStay DEF ModifyGate, nodeVars, EvidenceStays, Evident, SettledRefsStay
<1>7. ASSUME NEW n \in Nodes, SubmitProof(n) PROVE InputsCurrent'
  <2>1. SettledRefsStay
    BY <1>1, <1>7 DEF SubmitProof, SettledRefsStay, Settled, SuccessStatuses
  <2> QED
    BY <1>4, <1>7, <2>1 DEF SubmitProof, Executable, ExecutableKinds
<1>8. ASSUME NEW n \in Nodes, NEW decision \in Decisions, SubmitGateDecision(n, decision)
      PROVE  InputsCurrent'
  BY <1>4, <1>8
  DEF SubmitGateDecision, GateAwaitsDecision, Executable, ExecutableKinds, SettledRefsStay
<1> QED
  BY <1>3, <1>5, <1>6, <1>7, <1>8 DEF Deciding

\* Invalidation changes the refs of a dependency only under a node it takes down.
LEMMA OperatingInputs ==
  ASSUME InputsInv, Operating
  PROVE  InputsCurrent'
<1>1. /\ attempts \in [Nodes -> [Ordinals -> Attempt]] /\ status \in [Nodes -> Statuses]
      /\ \A n \in Evidenced : n \in Nodes
  BY DEF InputsInv, BackedInv, AgreementInv, TypeOK, Evidenced, Executable
<1>2. CASE PauseRun \/ ResumeRun \/ CancelRun
  BY <1>2, InputsStay
  DEF PauseRun, ResumeRun, CancelRun, SetWorkflow, nodeVars, EvidenceStays, Evident, SettledRefsStay
<1>3. CASE ResumeInvalidated
  BY <1>1, <1>3, InputsStay DEF ResumeInvalidated, EvidenceStays, Evident, SettledRefsStay
<1>4. ASSUME NEW n \in Nodes, RetryNode(n) PROVE InputsCurrent'
  BY <1>1, <1>4, InputsStay DEF RetryNode, EvidenceStays, Evident, SettledRefsStay
<1>5. ASSUME NEW root \in Nodes, InvalidateDownstream(root) PROVE InputsCurrent'
  <2> DEFINE targets == DependentsOf[root]
  <2>1. \A n \in Nodes : \A k \in Ordinals :
          /\ attempts'[n][k].inputs = attempts[n][k].inputs
          /\ IF n \in targets /\ attempts[n][k].status \in LiveStatuses
             THEN attempts'[n][k].status = "INVALIDATED"
             ELSE attempts'[n][k].status = attempts[n][k].status
    <3>1. \A a \in Attempt : LET b == [a EXCEPT !.status = "INVALIDATED"] IN
            b.status = "INVALIDATED" /\ b.inputs = a.inputs
      BY DEF Attempt
    <3> QED
      BY <1>1, <1>5, <3>1 DEF InvalidateDownstream
  <2>2. \A n \in Nodes :
          /\ status'[n] = IF n \in targets THEN "INVALIDATED" ELSE status[n]
          /\ n \notin targets => artifact_refs'[n] = artifact_refs[n]
    BY <1>5 DEF InvalidateDownstream
  <2>3. attempt_count' = attempt_count
    BY <1>5 DEF InvalidateDownstream
  <2>4. \A n \in Nodes : \A d \in DependsOn[n] : d \in Nodes /\ (d \in targets => n \in targets)
    BY DependentsClosed, GraphAssumption DEF GraphAssumption
  <2> HIDE DEF targets
  <2>5. \A n \in Evidenced : \A k \in Ordinals : Evident(n, k)' => n \notin targets
    BY <1>1, <2>1, <2>2 DEF Evident, LiveStatuses
  <2>6. EvidenceStays
    BY <1>1, <2>1, <2>2, <2>3, <2>5 DEF EvidenceStays, Evident
  <2>7. RefsStay
    BY <1>1, <2>2, <2>4, <2>5 DEF RefsStay
  <2> QED
    BY <2>6, <2>7, InputsStay
<1> QED
  BY <1>2, <1>3, <1>4, <1>5, InputAssumption DEF Operating, InputAssumption

\* InputsInv is inductive unless a host writes Artifacts late.
LEMMA InputsStep == ~ LateWrites /\ InputsInv /\ [Next]_vars => InputsInv'
<1> SUFFICES ASSUME ~ LateWrites, InputsInv, [Next]_vars PROVE InputsCurrent'
  BY BackedStep, ClosureStep DEF InputsInv, BackedInv, AgreementInv
<1>1. ASSUME UNCHANGED <<status, attempt_count, attempts, artifact_refs>>
      PROVE  InputsCurrent'
  BY <1>1, InputsStay DEF EvidenceStays, Evident, SettledRefsStay
<1>2. CASE Scheduling
  BY <1>1, <1>2, ScheduleInputs DEF Scheduling, ScheduleOutOfTime, nodeVars
<1>3. CASE UNCHANGED vars
  BY <1>1, <1>3 DEF vars, nodeVars
<1> QED
  BY <1>2, <1>3, ExecutingInputs, DecidingInputs, OperatingInputs DEF Next

\* Unless a host writes Artifacts of finished Attempts, no node is worked on
\* or shown as verified from inputs its dependencies no longer hold.
THEOREM InputsCurrentCorrect ==
  ASSUME ~ LateWrites
  PROVE  Spec => []InputsCurrent
<1>1. Init => InputsInv
  <2> SUFFICES ASSUME Init PROVE DependencyClosure /\ InputsCurrent
    BY InitBacked DEF InputsInv
  <2>1. DependencyClosure
    BY DEF Init, DependencyClosure, EnteredStatuses
  <2>2. \A n \in Executable : status[n] # "VERIFIED" /\ n \in Nodes
    BY DEF Init, Executable
  <2>3. \A n \in Nodes : \A k \in Ordinals : attempts[n][k].status = "NONE"
    BY DEF Init, NoAttempt
  <2> QED
    BY <2>1, <2>2, <2>3 DEF InputsCurrent, LiveStatuses
<1>2. InputsInv /\ [Next]_vars => InputsInv'
  BY InputsStep
<1>3. InputsInv => InputsCurrent
  BY DEF InputsInv
<1> QED
  BY <1>1, <1>2, <1>3, PTL DEF Spec

-----------------------------------------------------------------------------
(***************************************************************************)
(* What a scheduling call starts, and when.  Only such a call starts       *)
(* Attempts, so both properties are about one call of it.                  *)
(***************************************************************************)

\* Nothing but a scheduling call starts an Attempt.
LEMMA OnlySchedulingStarts ==
  ASSUME [Next]_vars, AttemptStarted, TypeOK
  PROVE  \E requested \in Requests, terminal \in BOOLEAN : Schedule(requested, terminal)
<1>1. PICK n \in Nodes : attempt_count'[n] > attempt_count[n]
  BY DEF AttemptStarted
<1>2. attempt_count' # attempt_count
  <2> SUFFICES ASSUME attempt_count' = attempt_count PROVE FALSE
    OBVIOUS
  <2>1. attempt_count[n] \in Nat /\ attempt_count[n] > attempt_count[n]
    BY <1>1, BoundAssumption DEF TypeOK, BoundAssumption
  <2> QED
    BY <2>1
<1>3. ~ Executing
  BY <1>2
  DEF Executing, CompleteBusiness, ApplyCompleted, ApplyFailed, RequestInteraction,
      OpenManualWait, ResumeManual, WriteArtifact
<1>4. ~ Deciding
  BY <1>2
  DEF Deciding, AnswerInteraction, OpenGate, ModifyGate, nodeVars, SubmitProof, SubmitGateDecision
<1>5. ~ Operating
  BY <1>2
  DEF Operating, PauseRun, ResumeRun, CancelRun, SetWorkflow, nodeVars, RetryNode,
      InvalidateDownstream, ResumeInvalidated
<1>6. ~ UNCHANGED vars /\ ~ ScheduleOutOfTime
  BY <1>2 DEF vars, nodeVars, ScheduleOutOfTime
<1> QED
  BY <1>3, <1>4, <1>5, <1>6 DEF Next, Scheduling

\* A node the loop leaves PENDING although its Profile and its condition let
\* it go still waits for a dependency.
LEMMA DecidePending ==
  ASSUME NEW before \in [Nodes -> Statuses], NEW st, NEW terminal, NEW n \in Nodes,
         n \in Enabled, Condition[n] = {}, Decide(before, st, terminal, n) = "PENDING"
  PROVE  ~ DependenciesSatisfied(n, st)
<1>1. Considered(n, st, terminal) = "PENDING"
  BY DEF Decide, Entered
<1>2. DependenciesSatisfied(n, st) => DependenciesResolved(n, st)
  BY DEF DependenciesSatisfied, DependenciesResolved, Satisfied, ResolvedStatuses
<1>3. IF n \in AnyOf THEN ConditionFalse(n, st) ELSE ConditionTrue(n, st) /\ ~ ConditionFalse(n, st)
  BY DEF ConditionFalse, ConditionTrue
<1> QED
  BY <1>1, <1>2, <1>3 DEF Considered, Entered

\* A Subgraph the loop leaves running has a child that is not satisfied.
LEMMA DecideRunning ==
  ASSUME NEW before \in [Nodes -> Statuses], NEW st, NEW terminal, NEW n \in Nodes,
         Kind[n] = "subgraph", Decide(before, st, terminal, n) = "RUNNING"
  PROVE  ~ SubgraphComplete(n, st)
BY DEF Decide, Considered, Entered

\* A scheduling call stops only when no node is left to move.
LEMMA ScheduleMovesAll ==
  ASSUME TypeOK, NEW requested, NEW terminal, Schedule(requested, terminal)
  PROVE  MovedAll'
<1>1. PICK after \in [Nodes -> Statuses], started \in SUBSET Nodes :
        /\ after = Round(status, after, terminal)
        /\ \A n \in started : n \in Executable /\ after[n] \in {"READY", "RETRY_READY"}
        /\ Launch(after, started)
  BY ScheduleStep
<1>2. \A n \in Nodes : /\ after[n] = Decide(status, after, terminal, n)
                       /\ status'[n] = IF n \in started THEN "RUNNING" ELSE after[n]
  BY <1>1 DEF Round, Launch
<1>3. \A n \in Nodes : Satisfied(n, status') => Satisfied(n, after)
  BY <1>1, <1>2 DEF Satisfied, SuccessStatuses
<1>4. status \in [Nodes -> Statuses]
  BY DEF TypeOK
<1>5. ASSUME NEW n \in Nodes, status'[n] = "PENDING", n \in Enabled, Condition[n] = {}
      PROVE  ~ DependenciesSatisfied(n, status')
  <2>1. Decide(status, after, terminal, n) = "PENDING"
    BY <1>2, <1>5
  <2>2. ~ DependenciesSatisfied(n, after)
    BY <1>4, <1>5, <2>1, DecidePending
  <2>3. DependsOn[n] \subseteq Nodes
    BY GraphAssumption DEF GraphAssumption
  <2> QED
    BY <1>3, <2>2, <2>3 DEF DependenciesSatisfied
<1>6. ASSUME NEW n \in Nodes, Kind[n] = "subgraph", status'[n] = "RUNNING"
      PROVE  ~ SubgraphComplete(n, status')
  <2>1. n \notin started
    BY <1>1, <1>6 DEF Executable, ExecutableKinds
  <2>2. Decide(status, after, terminal, n) = "RUNNING"
    BY <1>2, <1>6, <2>1
  <2>3. ~ SubgraphComplete(n, after)
    BY <1>4, <1>6, <2>2, DecideRunning
  <2> QED
    BY <1>3, <2>3 DEF SubgraphComplete, Children
<1> QED
  BY <1>5, <1>6 DEF MovedAll, DependenciesSatisfied, SubgraphComplete

\* A call that starts Attempts has first moved every node it could.
THEOREM StartsLastCorrect == Spec => StartsLast
<1>1. TypeOK /\ [Next]_vars => [AttemptStarted => MovedAll']_vars
  BY OnlySchedulingStarts, ScheduleMovesAll
<1> QED
  BY <1>1, InitType, TypeStep, PTL DEF Spec, StartsLast

\* The scheduling call starts at most as many Attempts as there are free slots:
\* the rank of each among the candidates is a slot of its own.
LEMMA StartedCounted ==
  ASSUME NEW candidates \in SUBSET Nodes, NEW slots \in Nat,
         NEW started,
         started = {n \in candidates :
                      Cardinality({m \in candidates : SortKey[m] < SortKey[n]}) < slots}
  PROVE  IsFiniteSet(started) /\ Cardinality(started) <= slots
<1> DEFINE Before(n) == {m \in candidates : SortKey[m] < SortKey[n]}
           rank == [n \in started |-> Cardinality(Before(n)) + 1]
<1>1. IsFiniteSet(candidates) /\ SortKey \in [Nodes -> Nat]
  BY GraphAssumption, FS_Subset DEF GraphAssumption
<1>2. \A n \in candidates : IsFiniteSet(Before(n)) /\ Cardinality(Before(n)) \in Nat
  <2>1. \A n \in candidates : Before(n) \subseteq candidates
    OBVIOUS
  <2> HIDE DEF Before
  <2> QED
    BY <1>1, <2>1, FS_Subset, FS_CardinalityType
<1>3. \A n \in started : n \in candidates /\ Cardinality(Before(n)) < slots
  OBVIOUS
<1>4. rank \in [started -> 1 .. slots]
  <2> SUFFICES ASSUME NEW n \in started PROVE Cardinality(Before(n)) + 1 \in 1 .. slots
    OBVIOUS
  <2> HIDE DEF Before
  <2> QED
    BY <1>2, <1>3
<1>5. ASSUME NEW m \in candidates, NEW n \in candidates, SortKey[m] < SortKey[n]
      PROVE  Cardinality(Before(m)) < Cardinality(Before(n))
  <2>1. SortKey[m] \in Nat /\ SortKey[n] \in Nat
    BY <1>1
  <2>2. Before(m) \subseteq Before(n)
    BY <1>1, <1>5
  <2>3. m \in Before(n) /\ m \notin Before(m)
    BY <1>5, <2>1
  <2> HIDE DEF Before
  <2>4. Before(m) # Before(n)
    BY <2>3
  <2> QED
    BY <1>2, <2>2, <2>4, FS_Subset
<1>6. ASSUME NEW m \in started, NEW n \in started, rank[m] = rank[n] PROVE m = n
  <2>1. m \in candidates /\ n \in candidates
    BY <1>3
  <2>2. Cardinality(Before(m)) = Cardinality(Before(n))
    <3> HIDE DEF Before
    <3> QED
      BY <1>2, <1>6, <2>1
  <2>3. SortKey[m] \in Nat /\ SortKey[n] \in Nat
    BY <1>1, <2>1
  <2>4. ~ (SortKey[m] < SortKey[n]) /\ ~ (SortKey[n] < SortKey[m])
    <3> HIDE DEF Before
    <3> QED
      BY <1>2, <1>5, <2>1, <2>2
  <2>5. SortKey[m] = SortKey[n]
    BY <2>3, <2>4
  <2> QED
    BY <2>1, <2>5, GraphAssumption DEF GraphAssumption
<1>7. rank \in Injection(started, 1 .. slots)
  <2> HIDE DEF rank
  <2> QED
    BY <1>4, <1>6, Fun_IsInj
<1>8. IsFiniteSet(1 .. slots) /\ Cardinality(1 .. slots) = slots
  BY FS_Interval
<1>9. started \subseteq candidates
  OBVIOUS
<1> HIDE DEF rank
<1>10. IsFiniteSet(started)
  BY <1>1, <1>9, FS_Subset
<1>11. Cardinality(started) <= Cardinality(1 .. slots)
  BY <1>7, <1>8, <1>10, FS_Injection
<1> QED
  BY <1>8, <1>10, <1>11

\* The Attempts running after the call are those running before and the started.
LEMMA ScheduleRunning ==
  ASSUME TypeOK, NEW after, NEW started \in SUBSET Nodes, Launch(after, started)
  PROVE  RunningAttempts(attempts') \subseteq
           RunningAttempts(attempts) \cup {<<n, attempt_count[n] + 1>> : n \in started}
<1> SUFFICES ASSUME NEW n \in Nodes, NEW k \in Ordinals, attempts'[n][k].status = "RUNNING",
                    ~ (n \in started /\ k = attempt_count[n] + 1)
             PROVE  attempts[n][k].status = "RUNNING"
  BY DEF RunningAttempts, AttemptId
<1> QED
  BY DEF Launch

\* A scheduling call that starts an Attempt leaves at most MaxParallel running.
LEMMA ScheduleQuota ==
  ASSUME TypeOK, NEW requested, NEW terminal, Schedule(requested, terminal), AttemptStarted
  PROVE  RunningCount' <= MaxParallel
<1>1. PICK after : Launch(after, Started(after, requested))
  BY DEF Schedule
<1> DEFINE started == Started(after, requested)
           candidates == {n \in Executable \cap requested :
                            after[n] \in {"READY", "RETRY_READY"} /\ ~ReuseCandidate(n, after)}
           running == RunningAttempts(attempts)
           launched == {<<n, attempt_count[n] + 1>> : n \in started}
           active == Cardinality(running)
<1>2. started \subseteq Nodes /\ candidates \subseteq Nodes
  BY DEF Started, Executable
<1>3. IsFiniteSet(Nodes) /\ IsFiniteSet(Ordinals) /\ MaxParallel \in Nat
  BY GraphAssumption, BoundAssumption, FS_Interval DEF GraphAssumption, BoundAssumption, Ordinals
<1>4. IsFiniteSet(AttemptId)
  BY <1>3, FS_Product DEF AttemptId
<1>5. running \subseteq AttemptId /\ RunningAttempts(attempts') \subseteq AttemptId
  BY DEF RunningAttempts
<1>6. IsFiniteSet(running) /\ active \in Nat
  <2> HIDE DEF running
  <2> QED
    BY <1>4, <1>5, FS_Subset, FS_CardinalityType
<1>7. AvailableSlots \in Nat /\ AvailableSlots = (IF active < MaxParallel THEN MaxParallel - active ELSE 0)
  <2>1. AvailableSlots = (IF active < MaxParallel THEN MaxParallel - active ELSE 0)
    BY DEF AvailableSlots
  <2> HIDE DEF active
  <2> QED
    BY <1>3, <1>6, <2>1
<1>8. started = {n \in candidates :
                   Cardinality({m \in candidates : SortKey[m] < SortKey[n]}) < AvailableSlots}
  BY DEF Started
<1>9. IsFiniteSet(started) /\ Cardinality(started) <= AvailableSlots
  <2> HIDE DEF started, candidates
  <2> QED
    BY <1>2, <1>7, <1>8, StartedCounted
<1>10. started # {}
  <2> SUFFICES ASSUME started = {} PROVE FALSE
    OBVIOUS
  <2>1. \A n \in Nodes : attempt_count'[n] = attempt_count[n]
    BY <1>1 DEF Launch
  <2>2. \A n \in Nodes : attempt_count[n] \in Nat
    BY BoundAssumption DEF TypeOK, BoundAssumption
  <2> QED
    BY <2>1, <2>2 DEF AttemptStarted
<1> HIDE DEF started
<1>11. IsFiniteSet(launched) /\ Cardinality(launched) <= Cardinality(started)
  <2> DEFINE node == [a \in launched |-> a[1]]
  <2>1. node \in [launched -> started]
    OBVIOUS
  <2>2. \A a \in launched, b \in launched : node[a] = node[b] => a = b
    OBVIOUS
  <2> HIDE DEF node, launched
  <2>3. node \in Injection(launched, started)
    BY <2>1, <2>2, Fun_IsInj
  <2> QED
    BY <1>9, <2>3, FS_Injection
<1>12. RunningAttempts(attempts') \subseteq running \cup launched
  BY <1>1, <1>2, ScheduleRunning DEF started
<1>13. Cardinality(started) \in Nat /\ Cardinality(launched) \in Nat
  <2> HIDE DEF launched
  <2> QED
    BY <1>9, <1>11, FS_CardinalityType
<1>14. active < MaxParallel
  <2>1. Cardinality(started) # 0
    BY <1>9, <1>10, FS_EmptySet
  <2> HIDE DEF active
  <2> QED
    BY <1>3, <1>6, <1>7, <1>9, <1>13, <2>1
<1>15. /\ IsFiniteSet(running \cup launched)
       /\ Cardinality(running \cup launched) <= active + Cardinality(launched)
  <2> HIDE DEF running, launched
  <2>1. Cardinality(running \cap launched) \in Nat /\ IsFiniteSet(running \cup launched)
    BY <1>6, <1>11, FS_Intersection, FS_CardinalityType, FS_Union
  <2>2. Cardinality(running \cup launched)
          = Cardinality(running) + Cardinality(launched) - Cardinality(running \cap launched)
    BY <1>6, <1>11, FS_Union
  <2> QED
    BY <1>6, <1>13, <2>1, <2>2
<1>16. /\ Cardinality(RunningAttempts(attempts')) <= Cardinality(running \cup launched)
       /\ Cardinality(RunningAttempts(attempts')) \in Nat /\ Cardinality(running \cup launched) \in Nat
  <2> HIDE DEF running, launched
  <2> QED
    BY <1>12, <1>15, FS_Subset, FS_CardinalityType
<1>17. Cardinality(RunningAttempts(attempts')) <= MaxParallel
  <2> HIDE DEF active, running, launched
  <2> QED
    BY <1>3, <1>6, <1>7, <1>9, <1>11, <1>13, <1>14, <1>15, <1>16
<1> QED
  BY <1>17 DEF RunningCount

\* No scheduling call starts more than the Run's quota leaves room for.
THEOREM StartsWithinQuotaCorrect == Spec => StartsWithinQuota
<1>1. TypeOK /\ [Next]_vars => [AttemptStarted => RunningCount' <= MaxParallel]_vars
  BY OnlySchedulingStarts, ScheduleQuota
<1> QED
  BY <1>1, InitType, TypeStep, PTL DEF Spec, StartsWithinQuota

-----------------------------------------------------------------------------
(***************************************************************************)
(* Who waits for the user.  The Gates and the interactive Skills of a      *)
(* Workflow come one after another: of any two, one is behind the other    *)
(* along dependencies a skipped node does not hide.                        *)
(***************************************************************************)
Gates == {n \in Nodes : Kind[n] = "human_gate"}
Talkers == Gates \cup Interactive
\* Nodes the Profile keeps and no terminal event starts early ...
Passing == {n \in Enabled : n \in Nodes /\ n \notin OnTerminalEvent}
\* ... and those of them that no condition ever skips.
Firm == {n \in Passing : n \notin AnyOf /\ Condition[n] = {}}

\* Before(n): the dependencies of n, and of those of them that are passed and
\* not just left out.
BeforeClosed(n, S) ==
  DependsOn[n] \subseteq S /\ \A d \in S \cap Passing : DependsOn[d] \subseteq S
Before(n) == {m \in Nodes : \A S \in SUBSET Nodes : BeforeClosed(n, S) => m \in S}
\* Behind(n): what must be settled while n is entered.
BehindClosed(n, S) ==
  /\ DependsOn[n] \subseteq S /\ Before(n) \cap Gates \subseteq S
  /\ \A d \in S \cap Firm : DependsOn[d] \subseteq S
Behind(n) == {m \in Nodes : \A S \in SUBSET Nodes : BehindClosed(n, S) => m \in S}
OneAfterAnother ==
  /\ Talkers \subseteq Passing
  /\ \A m, n \in Talkers : m = n \/ m \in Behind(n) \/ n \in Behind(m)

\* What comes before a node is a dependency or comes before one.
LEMMA BeforeSteps ==
  ASSUME NEW n \in Nodes, NEW m \in Before(n)
  PROVE  m \in DependsOn[n] \/ \E d \in DependsOn[n] \cap Passing : m \in Before(d)
<1> DEFINE S == {x \in Nodes : x \in DependsOn[n] \/ \E d \in DependsOn[n] \cap Passing : x \in Before(d)}
<1>1. \A x \in Nodes : DependsOn[x] \subseteq Nodes
  BY GraphAssumption DEF GraphAssumption
<1>2. ASSUME NEW x \in S \cap Passing PROVE DependsOn[x] \subseteq S
  <2> SUFFICES ASSUME NEW y \in DependsOn[x] PROVE y \in S
    OBVIOUS
  <2>1. x \in Nodes /\ y \in Nodes
    BY <1>1
  <2>2. CASE x \in DependsOn[n]
    <3>1. y \in Before(x)
      BY <2>1 DEF Before, BeforeClosed
    <3> QED
      BY <2>1, <2>2, <3>1
  <2>3. ASSUME NEW d \in DependsOn[n] \cap Passing, x \in Before(d) PROVE y \in S
    <3>1. y \in Before(d)
      BY <2>1, <2>3 DEF Before, BeforeClosed
    <3> QED
      BY <2>1, <3>1
  <2> QED
    BY <2>2, <2>3
<1>3. BeforeClosed(n, S)
  BY <1>1, <1>2 DEF BeforeClosed
<1>4. S \in SUBSET Nodes
  OBVIOUS
<1>5. m \in S
  <2> HIDE DEF S
  <2> QED
    BY <1>3, <1>4 DEF Before
<1> QED
  BY <1>5

\* Nothing before a node is taken down by an invalidation that spares the node.
LEMMA BeforeSpared ==
  ASSUME NEW root \in Nodes, NEW n \in Nodes, n \notin DependentsOf[root], NEW m \in Before(n)
  PROVE  m \notin DependentsOf[root]
<1> DEFINE S == {x \in Nodes : x \notin DependentsOf[root]}
<1>1. \A x \in Nodes : DependsOn[x] \subseteq Nodes
  BY GraphAssumption DEF GraphAssumption
<1>2. \A x \in Nodes \ DependentsOf[root] : DependsOn[x] \subseteq S
  BY <1>1, DependentsClosed
<1>3. BeforeClosed(n, S) /\ S \in SUBSET Nodes
  BY <1>2 DEF BeforeClosed
<1>4. m \in S
  <2> HIDE DEF S
  <2> QED
    BY <1>3 DEF Before
<1> QED
  BY <1>4

-----------------------------------------------------------------------------
\* A node that was passed, done or left out, stands behind settled Gates.
Passed == EnteredStatuses \cup {"SKIPPED"}
GateStatuses == {"PENDING", "WAITING_FOR_USER", "APPROVED", "SKIPPED", "INVALIDATED"}
GatesSettled(st) ==
  \A n \in Passing : st[n] \in Passed => \A g \in Before(n) \cap Gates : st[g] \in Settled
GatesTyped(st) == \A g \in Gates : st[g] \in GateStatuses
NeverSkipped(st) == \A n \in Firm : st[n] # "SKIPPED"
PassageInv ==
  TypeOK /\ DependencyClosure /\ GatesSettled(status) /\ GatesTyped(status) /\ NeverSkipped(status)

\* The loop gives a Gate a status of a Gate.
LEMMA DecideGate ==
  ASSUME NEW before, NEW st, NEW terminal, NEW g \in Gates, before[g] \in GateStatuses
  PROVE  /\ Decide(before, st, terminal, g) \in GateStatuses
         /\ before[g] = "WAITING_FOR_USER" => Decide(before, st, terminal, g) = "WAITING_FOR_USER"
BY GraphAssumption DEF Decide, Considered, Entered, Gates, GateStatuses, GraphAssumption, Activated

\* The loop skips no node without a condition that the Profile keeps.
LEMMA DecideFirm ==
  ASSUME NEW before, NEW st, NEW terminal, NEW n \in Firm, before[n] # "SKIPPED"
  PROVE  Decide(before, st, terminal, n) # "SKIPPED"
<1>1. n \in Enabled /\ ~ ConditionFalse(n, st)
  BY DEF Firm, Passing, ConditionFalse
<1> QED
  BY <1>1 DEF Decide, Considered, Entered

\* What the loop passes has no dependency that is still open.
LEMMA DecidePassed ==
  ASSUME NEW before \in [Nodes -> Statuses], NEW st, NEW terminal, NEW n \in Passing,
         Decide(before, st, terminal, n) \in Passed, before[n] \notin Passed,
         NEW d \in DependsOn[n]
  PROVE  st[d] \in ResolvedStatuses
<1>1. n \in Enabled /\ n \notin OnTerminalEvent /\ n \in Nodes
  BY DEF Passing
<1>2. Considered(n, st, terminal) \in Passed
  BY <1>1 DEF Decide, Passed, EnteredStatuses, Statuses, NodeStatuses
<1>3. DependenciesSatisfied(n, st) \/ DependenciesResolved(n, st)
  BY <1>1, <1>2 DEF Considered, Passed, EnteredStatuses
<1> QED
  BY <1>3 DEF DependenciesSatisfied, DependenciesResolved, Satisfied, ResolvedStatuses

\* Where the loop ends, the passed nodes stand behind settled Gates: take the
\* first one that did not.
LEMMA RoundSettles ==
  ASSUME PassageInv, NEW after \in [Nodes -> Statuses], NEW terminal,
         after = Round(status, after, terminal)
  PROVE  GatesSettled(after) /\ GatesTyped(after) /\ NeverSkipped(after)
<1>1. \A n \in Nodes : after[n] = Decide(status, after, terminal, n)
  BY DEF Round
<1>2. GatesTyped(after)
  <2> SUFFICES ASSUME NEW g \in Gates PROVE after[g] \in GateStatuses
    BY DEF GatesTyped
  <2>1. g \in Nodes /\ status[g] \in GateStatuses
    BY DEF Gates, PassageInv, GatesTyped
  <2> QED
    BY <1>1, <2>1, DecideGate
<1>3. NeverSkipped(after)
  <2> SUFFICES ASSUME NEW n \in Firm PROVE after[n] # "SKIPPED"
    BY DEF NeverSkipped
  <2>1. n \in Nodes /\ status[n] # "SKIPPED"
    BY DEF Firm, Passing, PassageInv, NeverSkipped
  <2> QED
    BY <1>1, <2>1, DecideFirm
<1>4. GatesSettled(after)
  <2> DEFINE Bad == {n \in Passing : after[n] \in Passed /\ \E g \in Before(n) \cap Gates : after[g] \notin Settled}
  <2>1. Bad \in SUBSET Nodes
    BY DEF Passing
  <2>2. SUFFICES ASSUME Bad # {} PROVE FALSE
    BY DEF GatesSettled
  <2>3. PICK n \in Bad : DependsOn[n] \cap Bad = {}
    <3> HIDE DEF Bad
    <3> QED
      BY <2>1, <2>2, WellFormedAssumption DEF WellFormedAssumption
  <2>4. n \in Passing /\ n \in Nodes /\ after[n] \in Passed
    BY DEF Passing
  <2>5. PICK g \in Before(n) \cap Gates : after[g] \notin Settled
    OBVIOUS
  <2>6. g \in Nodes /\ g \in Gates /\ status[g] \notin Settled
    BY <1>1, <2>5, DecideSettled DEF Gates
  <2>7. status[n] \notin Passed
    BY <2>4, <2>5, <2>6 DEF PassageInv, GatesSettled
  <2>8. \A d \in DependsOn[n] : after[d] \in ResolvedStatuses
    BY <1>1, <2>4, <2>7, DecidePassed DEF PassageInv, TypeOK
  <2>9. CASE g \in DependsOn[n]
    <3>1. after[g] \in ResolvedStatuses /\ after[g] \in GateStatuses
      BY <1>2, <2>6, <2>8, <2>9 DEF GatesTyped
    <3> QED
      BY <2>5, <3>1 DEF ResolvedStatuses, GateStatuses, Settled, SuccessStatuses
  <2>10. ASSUME NEW d \in DependsOn[n] \cap Passing, g \in Before(d) PROVE FALSE
    <3>1. after[d] \in Passed
      BY <2>8 DEF ResolvedStatuses, SuccessStatuses, Passed, EnteredStatuses, Statuses, NodeStatuses
    <3>2. d \in Bad
      BY <2>5, <2>6, <2>10, <3>1
    <3> QED
      BY <2>3, <2>10, <3>2
  <2> QED
    BY <2>4, <2>5, <2>9, <2>10, BeforeSteps
<1> QED
  BY <1>2, <1>3, <1>4

\* A step that unsettles no node, passes none and skips none opens no Gate again.
LEMMA UnsettledPassage ==
  ASSUME PassageInv, UnsettledMove
  PROVE  GatesSettled(status') /\ NeverSkipped(status')
<1>1. NeverSkipped(status')
  BY DEF PassageInv, NeverSkipped, UnsettledMove, Firm, Passing
<1>2. ASSUME NEW n \in Passing, status'[n] \in Passed, NEW g \in Before(n) \cap Gates
      PROVE  status'[g] \in Settled
  <2>1. n \in Nodes /\ g \in Nodes
    BY DEF Passing, Gates
  <2>2. status[n] \in Passed
    BY <1>2, <2>1 DEF UnsettledMove, Passed
  <2>3. status[g] \in Settled
    BY <2>2 DEF PassageInv, GatesSettled
  <2> QED
    BY <2>1, <2>3 DEF UnsettledMove
<1> QED
  BY <1>1, <1>2 DEF GatesSettled

\* A scheduling call starts Attempts of executable nodes that were ready.
LEMMA SchedulePassage ==
  ASSUME PassageInv, NEW requested, NEW terminal, Schedule(requested, terminal)
  PROVE  GatesSettled(status') /\ GatesTyped(status') /\ NeverSkipped(status')
<1>1. PICK after \in [Nodes -> Statuses], started \in SUBSET Nodes :
        /\ after = Round(status, after, terminal)
        /\ \A n \in started : n \in Executable /\ after[n] \in {"READY", "RETRY_READY"}
        /\ Launch(after, started)
  BY ScheduleStep DEF PassageInv
<1>2. GatesSettled(after) /\ GatesTyped(after) /\ NeverSkipped(after)
  BY <1>1, RoundSettles
<1>3. \A n \in Nodes : status'[n] = IF n \in started THEN "RUNNING" ELSE after[n]
  BY <1>1 DEF Launch
<1>4. \A g \in Gates : g \in Nodes /\ status'[g] = after[g]
  BY <1>1, <1>3 DEF Gates, Executable, ExecutableKinds
<1>5. \A n \in Nodes : status'[n] \in Passed => after[n] \in Passed
  BY <1>1, <1>3 DEF Passed, EnteredStatuses, Statuses, NodeStatuses
<1>6. \A n \in Passing : n \in Nodes
  BY DEF Passing
<1>7. GatesSettled(status')
  BY <1>2, <1>4, <1>5, <1>6 DEF GatesSettled
<1>8. NeverSkipped(status')
  BY <1>2, <1>3, <1>6 DEF NeverSkipped, Firm
<1> QED
  BY <1>2, <1>4, <1>7, <1>8 DEF GatesTyped

\* The operations that set a status give a Gate one of its own.
LEMMA GatesStay ==
  ASSUME TypeOK, GatesTyped(status), Executing \/ Deciding
  PROVE  GatesTyped(status')
<1> SUFFICES ASSUME NEW g \in Gates PROVE status'[g] \in GateStatuses
  BY DEF GatesTyped
<1>1. g \in Nodes /\ Kind[g] = "human_gate" /\ status[g] \in GateStatuses /\ status \in [Nodes -> Statuses]
  BY DEF Gates, GatesTyped, TypeOK
<1>2. status[g] \notin {"RUNNING", "WAITING_FOR_EXTERNAL"}
  BY <1>1 DEF GateStatuses
<1>3. ASSUME Executing PROVE status'[g] = status[g]
  BY <1>1, <1>2, <1>3
  DEF Executing, Active, CompleteBusiness, ApplyCompleted, ApplyFailed, RequestInteraction,
      OpenManualWait, ResumeManual, WriteArtifact
<1>4. ASSUME Deciding PROVE status'[g] = status[g] \/ status'[g] \in {"WAITING_FOR_USER", "APPROVED"}
  <2>1. \A n \in Interactive : Kind[n] # "human_gate"
    BY GraphAssumption DEF GraphAssumption
  <2> QED
    BY <1>1, <1>4, <2>1
    DEF Deciding, AnswerInteraction, OpenGate, ModifyGate, nodeVars, SubmitProof, SubmitGateDecision
<1> QED
  BY <1>1, <1>3, <1>4 DEF GateStatuses

\* PassageInv is inductive.
LEMMA PassageStep == PassageInv /\ [Next]_vars => PassageInv'
<1> SUFFICES ASSUME PassageInv, [Next]_vars
             PROVE  GatesSettled(status') /\ GatesTyped(status') /\ NeverSkipped(status')
  BY TypeStep, ClosureStep DEF PassageInv
<1>0. TypeOK /\ status \in [Nodes -> Statuses] /\ GatesTyped(status)
  BY DEF PassageInv, TypeOK
<1>1. ASSUME status' = status
      PROVE  GatesSettled(status') /\ GatesTyped(status') /\ NeverSkipped(status')
  BY <1>1 DEF PassageInv
<1>2. CASE Scheduling
  <2>1. CASE ScheduleOutOfTime
    BY <1>1, <2>1 DEF ScheduleOutOfTime, nodeVars
  <2> QED
    BY <1>2, <2>1, SchedulePassage DEF Scheduling
<1>3. CASE Executing
  BY <1>0, <1>3, ExecutingMoves, UnsettledPassage, GatesStay
<1>4. CASE Deciding
  BY <1>0, <1>4, DecidingMoves, UnsettledPassage, GatesStay
<1>5. CASE PauseRun \/ ResumeRun \/ CancelRun \/ UNCHANGED vars
  BY <1>1, <1>5 DEF PauseRun, ResumeRun, CancelRun, SetWorkflow, vars, nodeVars
<1>6. ASSUME \A n \in Nodes : status'[n] = status[n] \/ status'[n] = "PENDING",
             \A n \in Nodes : status'[n] # status[n] => status[n] \notin Settled
      PROVE  GatesSettled(status') /\ GatesTyped(status') /\ NeverSkipped(status')
  <2>1. UnsettledMove
    BY <1>6 DEF UnsettledMove, EnteredStatuses
  <2>2. GatesTyped(status')
    BY <1>0, <1>6 DEF GatesTyped, Gates, GateStatuses
  <2> QED
    BY <2>1, <2>2, UnsettledPassage
<1>7. CASE ResumeInvalidated
  BY <1>6, <1>7 DEF ResumeInvalidated, Settled, SuccessStatuses
<1>8. ASSUME NEW n \in Nodes, RetryNode(n)
      PROVE  GatesSettled(status') /\ GatesTyped(status') /\ NeverSkipped(status')
  BY <1>0, <1>6, <1>8 DEF RetryNode, Retryable, Settled, SuccessStatuses
<1>9. ASSUME NEW root \in Nodes, InvalidateDownstream(root)
      PROVE  GatesSettled(status') /\ GatesTyped(status') /\ NeverSkipped(status')
  <2>1. \A m \in Nodes :
          status'[m] = IF m \in DependentsOf[root] THEN "INVALIDATED" ELSE status[m]
    BY <1>9 DEF InvalidateDownstream
  <2>2. GatesTyped(status')
    BY <1>0, <2>1 DEF GatesTyped, Gates, GateStatuses
  <2>3. NeverSkipped(status')
    BY <2>1 DEF PassageInv, NeverSkipped, Firm, Passing
  <2>4. ASSUME NEW n \in Passing, status'[n] \in Passed, NEW g \in Before(n) \cap Gates
        PROVE  status'[g] \in Settled
    <3>1. n \in Nodes /\ g \in Nodes
      BY DEF Passing, Gates
    <3>2. n \notin DependentsOf[root]
      BY <2>1, <2>4, <3>1 DEF Passed, EnteredStatuses
    <3>3. g \notin DependentsOf[root]
      BY <3>1, <3>2, BeforeSpared
    <3>4. status[n] \in Passed /\ status'[g] = status[g]
      BY <2>1, <2>4, <3>1, <3>2, <3>3
    <3> QED
      BY <3>4 DEF PassageInv, GatesSettled
  <2> QED
    BY <2>2, <2>3, <2>4 DEF GatesSettled
<1> QED
  BY <1>2, <1>3, <1>4, <1>5, <1>7, <1>8, <1>9, InputAssumption DEF Next, Operating, InputAssumption

\* While one of them works or waits, no other does.
OneTalking ==
  \A m, n \in Talkers :
    /\ status[m] \in {"RUNNING", "WAITING_FOR_USER"}
    /\ status[n] \in {"RUNNING", "WAITING_FOR_USER"}
    => m = n

\* Where they come one after another, that is so.
LEMMA OneTalks ==
  ASSUME PassageInv, OneAfterAnother
  PROVE  OneTalking
<1> SUFFICES ASSUME NEW m \in Talkers, status[m] \in {"RUNNING", "WAITING_FOR_USER"},
                    NEW n \in Talkers, status[n] \in {"RUNNING", "WAITING_FOR_USER"}
             PROVE  m = n
  BY DEF OneTalking
<1>1. ASSUME NEW a \in Talkers, status[a] \in {"RUNNING", "WAITING_FOR_USER"}, NEW b \in Behind(a)
      PROVE  status[b] \in Settled
  <2> DEFINE S == {x \in Nodes : status[x] \in Settled}
  <2>1. \A x \in Nodes : DependsOn[x] \subseteq Nodes
    BY GraphAssumption DEF GraphAssumption
  <2>2. ASSUME NEW x \in Nodes \ OnTerminalEvent, status[x] \in EnteredStatuses
        PROVE  DependsOn[x] \subseteq S
    BY <2>1, <2>2, SatisfiedSettled DEF PassageInv, DependencyClosure, DependenciesSatisfied
  <2>3. a \in Passing /\ a \in Nodes \ OnTerminalEvent
    BY DEF OneAfterAnother, Passing
  <2>4. status[a] \in EnteredStatuses
    BY <1>1 DEF EnteredStatuses, Statuses, NodeStatuses
  <2>5. DependsOn[a] \subseteq S
    BY <2>2, <2>3, <2>4
  <2>6. Before(a) \cap Gates \subseteq S
    BY <2>3, <2>4 DEF PassageInv, GatesSettled, Passed, Gates
  <2>7. ASSUME NEW d \in S \cap Firm PROVE DependsOn[d] \subseteq S
    <3>1. d \in Nodes \ OnTerminalEvent /\ status[d] \in SuccessStatuses
      BY <2>7 DEF Firm, Passing, PassageInv, NeverSkipped, Settled
    <3>2. status[d] \in EnteredStatuses
      BY <3>1 DEF SuccessStatuses, EnteredStatuses, Statuses, NodeStatuses
    <3> QED
      BY <2>2, <3>1, <3>2
  <2>8. BehindClosed(a, S) /\ S \in SUBSET Nodes
    BY <2>5, <2>6, <2>7 DEF BehindClosed
  <2>9. b \in S
    <3> HIDE DEF S
    <3> QED
      BY <1>1, <2>8 DEF Behind
  <2> QED
    BY <2>9
<1>2. status[m] \notin Settled /\ status[n] \notin Settled
  BY DEF Settled, SuccessStatuses
<1> QED
  BY <1>1, <1>2 DEF OneAfterAnother

-----------------------------------------------------------------------------
\* A waiting interactive node is the one the open question belongs to.
QuestionsOpen ==
  \A n \in Executable : status[n] = "WAITING_FOR_USER" =>
    n \in Interactive /\ current_interaction = <<n, active_attempt[n]>>
RecordsInv ==
  /\ PassageInv /\ OneTalking
  /\ GateRecordsAgree /\ (current_gate # None => current_gate \in Gates)
  /\ QuestionsOpen
RecordsKept == (GateRecordsAgree /\ (current_gate # None => current_gate \in Gates) /\ QuestionsOpen)'

\* The Gate opened next is one that waits, if any does.
LEMMA FirstGateWaits ==
  ASSUME NEW st, NEW g \in WaitingGates(st)
  PROVE  FirstGate(st) \in WaitingGates(st)
<1>1. WaitingGates(st) \in SUBSET Nodes /\ WaitingGates(st) # {}
  BY DEF WaitingGates, TopLevel
<1>2. \E h \in WaitingGates(st) : \A i \in WaitingGates(st) : Declared[h] <= Declared[i]
  BY <1>1, FirstDeclared
<1> QED
  BY <1>1, <1>2 DEF FirstGate

\* While an interactive node works or asks, no Gate has been requested.
LEMMA NothingRequested ==
  ASSUME RecordsInv, NEW n \in Interactive, status[n] \in {"RUNNING", "WAITING_FOR_USER"}
  PROVE  gate_request = None /\ gate_modification = None
<1>1. Kind[n] # "human_gate" /\ n \in Talkers
  BY GraphAssumption DEF GraphAssumption, Talkers
<1>2. ASSUME gate_request # None PROVE FALSE
  <2>1. gate_request \in Gates /\ status[gate_request] = "WAITING_FOR_USER"
    BY <1>2 DEF RecordsInv, GateRecordsAgree
  <2>2. gate_request = n
    BY <1>1, <2>1 DEF RecordsInv, OneTalking, Talkers
  <2> QED
    BY <1>1, <2>1, <2>2 DEF Gates
<1> QED
  BY <1>2 DEF RecordsInv, GateRecordsAgree

\* While a Gate waits, no question is open.
LEMMA NothingAsked ==
  ASSUME RecordsInv, NEW g \in Gates, status[g] = "WAITING_FOR_USER", NEW n \in Executable
  PROVE  status[n] # "WAITING_FOR_USER"
<1> SUFFICES ASSUME status[n] = "WAITING_FOR_USER" PROVE FALSE
  OBVIOUS
<1>1. n \in Interactive
  BY DEF RecordsInv, QuestionsOpen
<1>2. n = g
  BY <1>1 DEF RecordsInv, OneTalking, Talkers
<1> QED
  BY <1>2 DEF Gates, Executable, ExecutableKinds

\* What neither touches the records nor moves a node that waits keeps them.
LEMMA RecordsStay ==
  ASSUME RecordsInv, UNCHANGED <<gateVars, current_interaction>>,
         \A g \in Gates : status[g] = "WAITING_FOR_USER" => status'[g] = "WAITING_FOR_USER",
         \A n \in Executable : status'[n] = "WAITING_FOR_USER" =>
           status[n] = "WAITING_FOR_USER" /\ active_attempt'[n] = active_attempt[n]
  PROVE  RecordsKept
<1>1. GateRecordsAgree' /\ (current_gate # None => current_gate \in Gates)'
  BY DEF RecordsInv, GateRecordsAgree, gateVars, Gates
<1>2. QuestionsOpen'
  BY DEF RecordsInv, QuestionsOpen
<1> QED
  BY <1>1, <1>2 DEF RecordsKept

\* A scheduling call keeps the requested Gate the first: no other waits.
LEMMA ScheduleRecords ==
  ASSUME RecordsInv, OneTalking', NEW requested, NEW terminal, Schedule(requested, terminal)
  PROVE  RecordsKept
<1>1. PICK after \in [Nodes -> Statuses], started \in SUBSET Nodes :
        /\ after = Round(status, after, terminal)
        /\ \A n \in started : n \in Executable /\ after[n] \in {"READY", "RETRY_READY"}
        /\ Launch(after, started)
  BY ScheduleStep DEF RecordsInv, PassageInv
<1>2. /\ \A n \in Nodes : status'[n] = IF n \in started THEN "RUNNING" ELSE Decide(status, after, terminal, n)
      /\ \A n \in Nodes : active_attempt'[n] = IF n \in started THEN attempt_count[n] + 1 ELSE active_attempt[n]
      /\ current_gate' = FirstGate(status')
      /\ UNCHANGED <<gate_request, gate_modification, current_interaction>>
  BY <1>1 DEF Launch, Round, Schedule
<1>3. \A g \in Gates : g \in Nodes /\ g \notin started /\ g \in TopLevel
  BY <1>1, GraphAssumption DEF Gates, Executable, ExecutableKinds, TopLevel, GraphAssumption
<1>4. ASSUME current_gate' # None
      PROVE  current_gate' \in Gates /\ status'[current_gate'] = "WAITING_FOR_USER"
  <2>1. WaitingGates(status') # {}
    BY <1>2, <1>4 DEF FirstGate
  <2>2. current_gate' \in WaitingGates(status')
    BY <1>2, <2>1, FirstGateWaits
  <2> QED
    BY <2>2 DEF WaitingGates, Gates, TopLevel
<1>5. ASSUME gate_request # None PROVE current_gate' = gate_request
  <2>1. gate_request \in Gates /\ status[gate_request] = "WAITING_FOR_USER"
    BY <1>5 DEF RecordsInv, GateRecordsAgree
  <2>2. status'[gate_request] = "WAITING_FOR_USER"
    BY <1>2, <1>3, <2>1, DecideGate DEF GateStatuses
  <2>3. gate_request \in WaitingGates(status')
    BY <1>3, <2>1, <2>2 DEF WaitingGates, Gates
  <2>4. current_gate' \in WaitingGates(status')
    BY <1>2, <2>3, FirstGateWaits
  <2>5. current_gate' \in Gates /\ status'[current_gate'] = "WAITING_FOR_USER"
    BY <2>4 DEF WaitingGates, Gates, TopLevel
  <2> QED
    BY <2>1, <2>2, <2>5 DEF OneTalking, Talkers
<1>6. GateRecordsAgree'
  BY <1>2, <1>4, <1>5 DEF RecordsInv, GateRecordsAgree
<1>7. QuestionsOpen'
  <2> SUFFICES ASSUME NEW n \in Executable, status'[n] = "WAITING_FOR_USER"
               PROVE  n \in Interactive /\ current_interaction' = <<n, active_attempt'[n]>>
    BY DEF QuestionsOpen
  <2>1. n \in Nodes /\ n \notin started /\ Decide(status, after, terminal, n) = "WAITING_FOR_USER"
    BY <1>2 DEF Executable
  <2>2. Entered(n, after) = "READY"
    BY DEF Entered, Executable, ExecutableKinds
  <2>3. status[n] = "WAITING_FOR_USER"
    BY <2>1, <2>2 DEF Decide, Considered, Executable, ExecutableKinds
  <2> QED
    BY <1>2, <2>1, <2>3 DEF RecordsInv, QuestionsOpen
<1> QED
  BY <1>4, <1>6, <1>7 DEF RecordsKept, Gates

\* Only the question of an interactive node closes what was open, and none was.
LEMMA ExecutingRecords ==
  ASSUME RecordsInv, Executing
  PROVE  RecordsKept
<1>0. status \in [Nodes -> Statuses] /\ active_attempt \in [Nodes -> 0 .. MaxAttempts]
  BY DEF RecordsInv, PassageInv, TypeOK
<1>1. ASSUME NEW n \in Nodes, NEW s, s # "WAITING_FOR_USER", status' = [status EXCEPT ![n] = s],
             status[n] \in {"RUNNING", "WAITING_FOR_EXTERNAL"},
             UNCHANGED <<gateVars, current_interaction>>,
             \A m \in Nodes : m # n => active_attempt'[m] = active_attempt[m]
      PROVE  RecordsKept
  BY <1>0, <1>1, RecordsStay DEF Executable
<1>2. ASSUME NEW n \in Nodes, CompleteBusiness(n) PROVE RecordsKept
  BY <1>0, <1>1, <1>2 DEF CompleteBusiness, Active
<1>3. ASSUME NEW n \in Nodes, ApplyCompleted(n) PROVE RecordsKept
  BY <1>0, <1>1, <1>3 DEF ApplyCompleted, Active
<1>4. ASSUME NEW n \in Nodes, NEW action, ApplyFailed(n, action) PROVE RecordsKept
  <2>1. FailureTarget(n, action) # "WAITING_FOR_USER"
    BY DEF FailureTarget
  <2> QED
    BY <1>0, <1>1, <1>4, <2>1 DEF ApplyFailed, Active
<1>5. ASSUME NEW n \in Nodes, OpenManualWait(n) PROVE RecordsKept
  BY <1>0, <1>1, <1>5 DEF OpenManualWait
<1>6. ASSUME NEW n \in Nodes, ResumeManual(n) PROVE RecordsKept
  BY <1>0, <1>1, <1>6 DEF ResumeManual
<1>7. ASSUME NEW n \in Nodes, NEW k \in Ordinals, WriteArtifact(n, k) PROVE RecordsKept
  BY <1>7, RecordsStay DEF WriteArtifact
<1>8. ASSUME NEW n \in Nodes, RequestInteraction(n) PROVE RecordsKept
  <2>1. /\ n \in Interactive /\ status[n] = "RUNNING" /\ status' = [status EXCEPT ![n] = "WAITING_FOR_USER"]
        /\ current_interaction' = <<n, active_attempt[n]>> /\ active_attempt' = active_attempt
        /\ current_gate' = None /\ gate_request' = None /\ gate_modification' = gate_modification
    BY <1>8 DEF RequestInteraction, Active
  <2>2. gate_modification = None
    BY <2>1, NothingRequested
  <2>3. ASSUME NEW m \in Executable, status'[m] = "WAITING_FOR_USER" PROVE m = n
    <3> SUFFICES ASSUME m # n PROVE FALSE
      OBVIOUS
    <3>1. status[m] = "WAITING_FOR_USER"
      BY <1>0, <2>1, <2>3 DEF Executable
    <3> QED
      BY <2>1, <3>1 DEF RecordsInv, QuestionsOpen, OneTalking, Talkers
  <2>4. QuestionsOpen'
    BY <2>1, <2>3 DEF QuestionsOpen
  <2> QED
    BY <2>1, <2>2, <2>4 DEF RecordsKept, GateRecordsAgree
<1> QED
  BY <1>2, <1>3, <1>4, <1>5, <1>6, <1>7, <1>8 DEF Executing

\* A Gate is requested, decided and modified while no other and no question waits.
LEMMA DecidingRecords ==
  ASSUME RecordsInv, Deciding
  PROVE  RecordsKept
<1>0. /\ status \in [Nodes -> Statuses] /\ active_attempt \in [Nodes -> 0 .. MaxAttempts]
      /\ \A g \in Gates : status[g] \in GateStatuses
  BY DEF RecordsInv, PassageInv, TypeOK, GatesTyped
<1>1. ASSUME NEW n \in Nodes, AnswerInteraction(n) PROVE RecordsKept
  <2>1. /\ n \in Interactive /\ status[n] = "WAITING_FOR_USER" /\ status' = [status EXCEPT ![n] = "RUNNING"]
        /\ current_gate' = None /\ gate_request' = None /\ gate_modification' = gate_modification
    BY <1>1 DEF AnswerInteraction
  <2>2. gate_modification = None
    BY <2>1, NothingRequested
  <2>3. ASSUME NEW m \in Executable, status'[m] = "WAITING_FOR_USER" PROVE FALSE
    <3>1. status[m] = "WAITING_FOR_USER" /\ m # n
      BY <1>0, <2>1, <2>3 DEF Executable
    <3> QED
      BY <2>1, <3>1 DEF RecordsInv, QuestionsOpen, OneTalking, Talkers
  <2> QED
    BY <2>1, <2>2, <2>3 DEF RecordsKept, GateRecordsAgree, QuestionsOpen
<1>2. ASSUME NEW n \in Nodes, OpenGate(n) PROVE RecordsKept
  <2>1. n \in Gates /\ status[n] = "WAITING_FOR_USER"
    BY <1>0, <1>2 DEF OpenGate, Gates, GateStatuses
  <2>2. gate_request = None /\ gate_modification = None
    BY <1>2, <2>1 DEF OpenGate, RecordsInv, GateRecordsAgree
  <2>3. /\ status' = status /\ current_gate' = n /\ gate_request' = n
        /\ gate_modification' = gate_modification
    BY <1>0, <1>2, <2>1 DEF OpenGate
  <2>4. \A m \in Executable : status[m] # "WAITING_FOR_USER"
    BY <2>1, NothingAsked
  <2> QED
    BY <2>1, <2>2, <2>3, <2>4 DEF RecordsKept, GateRecordsAgree, QuestionsOpen
<1>3. ASSUME NEW n \in Nodes, ModifyGate(n) PROVE RecordsKept
  <2>1. current_gate = n /\ gate_request = n /\ gate_modification' = n
        /\ UNCHANGED <<status, active_attempt, current_gate, gate_request, current_interaction>>
    BY <1>3 DEF ModifyGate, GateAwaitsDecision, nodeVars, RecordsInv, GateRecordsAgree
  <2> QED
    BY <2>1 DEF RecordsKept, RecordsInv, GateRecordsAgree, QuestionsOpen, Gates
<1>4. ASSUME NEW n \in Nodes, SubmitProof(n) PROVE RecordsKept
  <2>1. /\ Kind[n] = "external_input" /\ status[n] = "WAITING_FOR_EXTERNAL"
        /\ status' = [status EXCEPT ![n] = "VERIFIED"]
        /\ active_attempt' = [active_attempt EXCEPT ![n] = 0]
        /\ UNCHANGED <<gateVars, current_interaction>>
    BY <1>4 DEF SubmitProof
  <2>2. n \notin Executable
    BY <2>1 DEF Executable, ExecutableKinds
  <2> QED
    BY <1>0, <2>1, <2>2, RecordsStay DEF Gates, Executable
<1>5. ASSUME NEW n \in Nodes, NEW decision \in Decisions, SubmitGateDecision(n, decision)
      PROVE  RecordsKept
  <2>1. /\ Kind[n] = "human_gate" /\ status' = [status EXCEPT ![n] = "APPROVED"]
        /\ current_gate' = None /\ gate_request' = None /\ gate_modification' = None
        /\ UNCHANGED <<active_attempt, current_interaction>>
    BY <1>5 DEF SubmitGateDecision, GateAwaitsDecision
  <2>2. \A m \in Executable : status'[m] = status[m]
    BY <1>0, <2>1 DEF Executable, ExecutableKinds
  <2> QED
    BY <2>1, <2>2 DEF RecordsKept, RecordsInv, GateRecordsAgree, QuestionsOpen
<1> QED
  BY <1>1, <1>2, <1>3, <1>4, <1>5 DEF Deciding

\* An invalidation closes what it takes down, with everything recorded of it.
LEMMA OperatingRecords ==
  ASSUME RecordsInv, Operating
  PROVE  RecordsKept
<1>0. /\ status \in [Nodes -> Statuses] /\ active_attempt \in [Nodes -> 0 .. MaxAttempts]
      /\ \A g \in Gates : status[g] \in GateStatuses
  BY DEF RecordsInv, PassageInv, TypeOK, GatesTyped
<1>1. CASE PauseRun \/ ResumeRun \/ CancelRun
  BY <1>1, RecordsStay DEF PauseRun, ResumeRun, CancelRun, SetWorkflow, nodeVars, Gates, Executable
<1>2. CASE ResumeInvalidated
  BY <1>0, <1>2, RecordsStay DEF ResumeInvalidated, Gates, Executable
<1>3. ASSUME NEW n \in Nodes, RetryNode(n) PROVE RecordsKept
  BY <1>0, <1>3, RecordsStay DEF RetryNode, Retryable, Gates, Executable
<1>4. ASSUME NEW root \in Nodes, InvalidateDownstream(root) PROVE RecordsKept
  <2> DEFINE targets == DependentsOf[root]
  <2>1. /\ \A n \in Nodes : status'[n] = IF n \in targets THEN "INVALIDATED" ELSE status[n]
        /\ \A n \in Nodes : active_attempt'[n] = IF n \in targets THEN 0 ELSE active_attempt[n]
        /\ current_gate' = IF current_gate \in targets THEN None ELSE current_gate
        /\ gate_request' = IF current_gate' = None THEN None ELSE gate_request
        /\ gate_modification' = IF current_gate' = None THEN None ELSE gate_modification
        /\ current_interaction' = IF current_interaction \in targets \X Ordinals
                                  THEN None ELSE current_interaction
    BY <1>4 DEF InvalidateDownstream
  <2> HIDE DEF targets
  <2>2. GateRecordsAgree' /\ (current_gate' # None => current_gate' \in Gates)
    <3>1. CASE current_gate' = None
      BY <2>1, <3>1 DEF GateRecordsAgree
    <3>2. CASE current_gate' # None
      <4>1. /\ current_gate' = current_gate /\ current_gate \in Gates /\ current_gate \in Nodes
            /\ current_gate \notin targets
            /\ gate_request' = gate_request /\ gate_modification' = gate_modification
        BY <2>1, <3>2 DEF RecordsInv, Gates
      <4>2. current_gate # None /\ GateRecordsAgree
        BY <3>2, <4>1 DEF RecordsInv
      <4>3. status[current_gate] = "WAITING_FOR_USER"
        BY <4>2 DEF GateRecordsAgree
      <4>4. PICK g \in Nodes : g = current_gate
        BY <4>1
      <4>5. status'[g] = status[g]
        BY <2>1, <4>1, <4>4
      <4>6. status'[current_gate] = "WAITING_FOR_USER"
        BY <4>3, <4>4, <4>5
      <4> QED
        BY <4>1, <4>2, <4>6 DEF GateRecordsAgree
    <3> QED
      BY <3>1, <3>2
  <2>3. QuestionsOpen'
    <3> SUFFICES ASSUME NEW n \in Executable, status'[n] = "WAITING_FOR_USER"
                 PROVE  n \in Interactive /\ current_interaction' = <<n, active_attempt'[n]>>
      BY DEF QuestionsOpen
    <3>1. n \in Nodes /\ n \notin targets /\ status[n] = "WAITING_FOR_USER"
          /\ active_attempt'[n] = active_attempt[n]
      BY <2>1 DEF Executable
    <3>2. n \in Interactive /\ current_interaction = <<n, active_attempt[n]>>
      BY <3>1 DEF RecordsInv, QuestionsOpen
    <3>3. current_interaction \notin targets \X Ordinals
      BY <3>1, <3>2
    <3> QED
      BY <2>1, <3>1, <3>2, <3>3
  <2> QED
    BY <2>2, <2>3 DEF RecordsKept, Gates
<1> QED
  BY <1>1, <1>2, <1>3, <1>4, InputAssumption DEF Operating, InputAssumption

\* RecordsInv is inductive where one waits at a time.
LEMMA RecordsStep ==
  RecordsInv /\ OneTalking' /\ [Next]_vars => RecordsInv'
<1> SUFFICES ASSUME RecordsInv, OneTalking', [Next]_vars PROVE RecordsKept
  BY PassageStep DEF RecordsInv, RecordsKept
<1>1. CASE Scheduling
  <2>1. CASE ScheduleOutOfTime
    BY <2>1, RecordsStay DEF ScheduleOutOfTime, nodeVars, Gates, Executable
  <2> QED
    BY <1>1, <2>1, ScheduleRecords DEF Scheduling
<1>2. CASE UNCHANGED vars
  BY <1>2, RecordsStay DEF vars, nodeVars, Gates, Executable
<1> QED
  BY <1>1, <1>2, ExecutingRecords, DecidingRecords, OperatingRecords DEF Next

\* Where Gates and interactive Skills come one after another, at most one of
\* them works or waits, and every record of a wait is that one's.
LEMMA RecordsAlways ==
  ASSUME OneAfterAnother
  PROVE  Spec => []RecordsInv
<1>1. Init => PassageInv
  <2> SUFFICES ASSUME Init PROVE PassageInv
    OBVIOUS
  <2>1. TypeOK /\ DependencyClosure
    BY InitType DEF Init, DependencyClosure, EnteredStatuses
  <2>2. \A n \in Nodes : status[n] \in {"PENDING", "ABSENT"}
    BY DEF Init
  <2>3. \A g \in Gates : g \in Nodes /\ status[g] = "PENDING"
    BY GraphAssumption DEF Init, Gates, GraphAssumption
  <2>4. GatesSettled(status) /\ GatesTyped(status) /\ NeverSkipped(status)
    BY <2>2, <2>3
    DEF GatesSettled, GatesTyped, NeverSkipped, Passing, Firm, Passed, EnteredStatuses, GateStatuses
  <2> QED
    BY <2>1, <2>4 DEF PassageInv
<1>2. Init => GateRecordsAgree /\ current_gate = None /\ QuestionsOpen
  BY DEF Init, GateRecordsAgree, QuestionsOpen, Executable
<1>3. PassageInv => OneTalking
  BY OneTalks
<1>4. PassageInv /\ [Next]_vars => PassageInv'
  BY PassageStep
<1>5. Init => RecordsInv
  BY <1>1, <1>2, <1>3 DEF RecordsInv
<1>6. Spec => []PassageInv
  BY <1>1, <1>4, PTL DEF Spec
<1>7. RecordsInv /\ OneTalking' /\ [Next]_vars => RecordsInv'
  BY RecordsStep
<1> QED
  BY <1>3, <1>5, <1>6, <1>7, PTL DEF Spec

\* The saved request, the pending modification and current_gate are those of
\* one Gate, and that Gate waits.
THEOREM GateRecordsAgreeCorrect ==
  ASSUME OneAfterAnother
  PROVE  Spec => []GateRecordsAgree
<1>1. RecordsInv => GateRecordsAgree
  BY DEF RecordsInv
<1> QED
  BY <1>1, RecordsAlways, PTL

\* Whoever waits for the user can be served: the open question is that of the
\* waiting Attempt, and what is requested is the waiting Gate.
THEOREM WaitsAreAnswerableCorrect ==
  ASSUME OneAfterAnother
  PROVE  Spec => []WaitsAreAnswerable
<1>1. RecordsInv => WaitsAreAnswerable
  <2> SUFFICES ASSUME RecordsInv, NEW n \in Nodes, status[n] = "WAITING_FOR_USER"
               PROVE  /\ n \in Executable => current_interaction = <<n, active_attempt[n]>>
                      /\ Kind[n] = "human_gate" /\ gate_request # None =>
                           current_gate = n /\ gate_request = n
    BY DEF WaitsAreAnswerable
  <2>1. n \in Executable => current_interaction = <<n, active_attempt[n]>>
    BY DEF RecordsInv, QuestionsOpen
  <2>2. ASSUME Kind[n] = "human_gate", gate_request # None
        PROVE  current_gate = n /\ gate_request = n
    <3>1. /\ current_gate = gate_request /\ current_gate \in Gates
          /\ status[current_gate] = "WAITING_FOR_USER"
      BY <2>2 DEF RecordsInv, GateRecordsAgree
    <3>2. n \in Talkers /\ current_gate \in Talkers
      BY <2>2, <3>1 DEF Talkers, Gates
    <3> QED
      BY <3>1, <3>2 DEF RecordsInv, OneTalking
  <2> QED
    BY <2>1, <2>2
<1> QED
  BY <1>1, RecordsAlways, PTL
=============================================================================
