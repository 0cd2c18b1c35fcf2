---------------------------- MODULE ResearchGap ----------------------------
(***************************************************************************)
(* ResearchGapPlanner (research_gap.py) and complete_persisted_research_   *)
(* gap, around the Competitor Subgraph: research branches are verified, a  *)
(* Gap names the branches to repeat, and they start again.  A verification *)
(* is the set of its issues and its result; a plan gives every issue a     *)
(* branch, as any other the commit refuses.                                *)
(***************************************************************************)
EXTENDS CompetitorResearch

CONSTANTS
  Plain,                    \* the other enabled research branches
  Issues,                   \* issue codes of a verification
  MaxGlobalResearchCycles

vars == callVars

Verifier == <<"research_verifier", 0>>
Gap == <<"research_gap", 0>>
Branches == {Container} \cup Plain
ASSUME GapAssumption ==
  /\ OtherNodes = Plain \cup {Verifier, Gap} /\ Plain \cap {Verifier, Gap} = {}
  /\ MaxGlobalResearchCycles \in Nat

-----------------------------------------------------------------------------
\* The scheduler, and the executors outside src/, for the top-level nodes.
\* A branch reads the Artifact of the research gate, which stays the same; the
\* Container has no Attempt, and no Artifact.
InputsAt(snapshot, n) ==
  CASE n \in Branches -> {}
    [] n = Verifier    -> RefsOf(snapshot, Plain)
    [] n = Gap         -> RefsOf(snapshot, {Verifier})
    [] n \in Subgraph  -> Inputs(snapshot, n)
Startable(snapshot, n) ==
  snapshot.status[n] = "PENDING" /\ ~ Reusable(snapshot, n, InputsAt(snapshot, n))
ScheduleBranch(b) == Startable(run, b) /\ Change(Begun(run, b, {}))
CompleteBranch(b) == Running(b) /\ NextName(b) \in Names /\ Change(Completed(b))
\* The verifier's Attempt, from its start to its result.
Verify(issues, result) ==
  /\ Startable(run, Verifier) /\ \A b \in Branches : Verified(b)
  /\ result = "FAIL" => issues # {}
  /\ NextName(Verifier) \in Names
  /\ LET inputs == InputsAt(run, Verifier) IN
       Change([Completed(Verifier) EXCEPT
                 !.inputs[Verifier] = inputs,
                 !.reusable = run.reusable \cup {<<Verifier, inputs>>},
                 !.issues = issues, !.result = result])
\* The evidence_waiver Gate's REQUEST_MORE_RESEARCH, of a partial result.
RequestMoreResearch ==
  /\ Verified(Verifier) /\ run.result = "PARTIAL" /\ ~ run.waived
  /\ Change([run EXCEPT !.waived = TRUE])
Triggered == run.result = "FAIL" \/ run.waived
ScheduleGap ==
  /\ Startable(run, Gap) /\ Verified(Verifier) /\ Triggered
  /\ run.gap_attempt < MaxVersion
  /\ Change([Begun(run, Gap, InputsAt(run, Gap)) EXCEPT !.gap_attempt = @ + 1])

\* complete_persisted_research_gap: the checks on a plan.
NotEveryBranch(plan) == {plan[i] : i \in DOMAIN plan} # Branches
GapName == ArtifactName(Gap, run.gap_attempt)
\* invalidate_many of the planned branches, of every state below the
\* Subgraph if it is one of them, and of what depends on them; the fan-out and
\* its instances are dropped.
ContainerOnly(roots) == roots \cup {Verifier, Gap}                 \* mutant
Targets(roots) ==
  roots \cup {Verifier, Gap} \cup
    (IF Container \in roots THEN {n \in Subgraph : Present(n)} ELSE {})
Invalidated(roots) ==
  LET dropped == IF Container \in roots THEN DeepDives ELSE {} IN
  [run EXCEPT
     !.status = [n \in Nodes |-> IF n \in dropped THEN "ABSENT"
                                 ELSE IF n \in Targets(roots) THEN "INVALIDATED" ELSE @[n]],
     !.refs = [n \in Nodes |-> IF n \in Targets(roots) THEN <<>> ELSE @[n]],
     !.fanout = IF Container \in roots THEN {} ELSE @,
     !.reusable = @ \cup {<<Gap, run.inputs[Gap]>>},
     !.waived = FALSE, !.cycle = @ + 1]
\* resume_invalidated, then schedule_run of the branches and of discovery.
NeverResumed(snapshot) == snapshot                                \* mutant
Resumed(snapshot) ==
  [snapshot EXCEPT !.status =
     [n \in Nodes |-> IF @[n] = "INVALIDATED" THEN "PENDING" ELSE @[n]]]
Started(snapshot, nodes) ==
  LET starting == {n \in nodes : Startable(snapshot, n)} IN
  [snapshot EXCEPT
     !.status = [n \in Nodes |-> IF n \in starting THEN "RUNNING" ELSE @[n]],
     !.inputs = [n \in Nodes |-> IF n \in starting THEN InputsAt(snapshot, n) ELSE @[n]]]
\* ResearchGapPlanner.advance: one commit for Artifact, cycle and invalidation,
\* and one each for what follows.
AdvanceGap(plan) ==
  /\ Idle /\ Running(Gap) /\ Verified(Verifier) /\ Triggered
  /\ run.cycle < MaxGlobalResearchCycles
  /\ DOMAIN plan = run.issues /\ run.issues # {} /\ NotEveryBranch(plan)
  /\ GapName \in Names /\ files[GapName] = None
  /\ LET roots == {plan[i] : i \in DOMAIN plan}
         resumed == Resumed(Invalidated(roots))
         started == Started(resumed, roots)
         writes == <<File(GapName, [roots |-> roots]), Save(Invalidated(roots)),
                     Save(resumed), Save(started)>>
     IN Call(IF Container \in roots
             THEN Append(writes, Save(Started(started, {Discovery}))) ELSE writes)
ResumeInvalidated ==
  /\ \E n \in Nodes : run.status[n] = "INVALIDATED"
  /\ Change(Resumed(run))
\* The host fails an Attempt, as one whose Artifact is refused.
Fail(n) ==
  /\ Running(n) /\ run.retries < MaxRetries
  /\ Change([run EXCEPT !.status[n] = "FAILED"])

-----------------------------------------------------------------------------
Init ==
  /\ run = [status |-> [n \in Nodes |-> IF n \in DeepDives THEN "ABSENT" ELSE "PENDING"],
            refs |-> [n \in Nodes |-> <<>>], inputs |-> [n \in Nodes |-> {}],
            reusable |-> {}, fanout |-> {}, retries |-> 0,
            issues |-> {}, result |-> None, waived |-> FALSE, cycle |-> 0, gap_attempt |-> 0]
  /\ files = [name \in Names |-> None]
  /\ todo = <<>> /\ crashes = 0
Plan == \E plan \in [run.issues -> Branches] : AdvanceGap(plan)
ScheduleAny == \E n \in Subgraph : Schedule(n)
ScheduleBranches == \E b \in Branches : ScheduleBranch(b)
Next ==
  \/ Advance \/ Block \/ ScheduleAny \/ CompleteSubgraph \/ ScheduleBranches
  \/ \E b \in Plain : CompleteBranch(b)
  \/ \E issues \in SUBSET Issues, result \in {"PASS", "PARTIAL", "FAIL"} : Verify(issues, result)
  \/ RequestMoreResearch \/ ScheduleGap \/ Plan \/ ResumeInvalidated
  \/ \E n \in {Discovery, Gap} : Fail(n)
  \/ \E n \in Nodes : Retry(n)
  \/ WriteFile \/ Commit \/ Crash
\* The host advances what runs, resumes and schedules; a call runs to its end.
Fairness ==
  /\ WF_vars(WriteFile) /\ WF_vars(Commit) /\ WF_vars(Advance) /\ WF_vars(ScheduleAny)
  /\ WF_vars(CompleteSubgraph) /\ WF_vars(ResumeInvalidated) /\ WF_vars(ScheduleBranches)
Spec == Init /\ [][Next]_vars
FairSpec == Spec /\ Fairness

-----------------------------------------------------------------------------
\* Types of the Snapshot.
Status ==
  {"ABSENT", "PENDING", "RUNNING", "VERIFIED", "BLOCKED", "FAILED", "INVALIDATED"}
TypeOK ==
  /\ run.status \in [Nodes -> Status]
  /\ run.refs \in [Nodes -> Seq(1 .. MaxVersion)]
  /\ run.inputs \in [Nodes -> SUBSET Names] /\ run.reusable \subseteq Nodes \X SUBSET Names
  /\ run.fanout \subseteq Ids
  /\ \A id \in Ids : Present(DeepDive(id)) <=> id \in run.fanout
  /\ run.cycle \in 0 .. MaxGlobalResearchCycles /\ run.gap_attempt \in 0 .. MaxVersion
  /\ DOMAIN files = Names

\* A research cycle repeats what its Gap Artifact names and no more: a branch it
\* does not name keeps its result, of which there is one at least
\* (research_gap_broad_retry), and everything of the Competitor Subgraph goes if
\* and only if it is named.
RetriedAsPlanned ==
  [][run'.cycle # run.cycle =>
       LET roots == files[GapName].roots
           below == IF Container \in roots THEN Subgraph ELSE {}
       IN /\ run'.cycle = run.cycle + 1
          /\ \E b \in Branches : b \notin roots /\ Verified(b)
          /\ \A n \in (Branches \cup Subgraph) \ (roots \cup below) :
               run'.status[n] = run.status[n] /\ run'.refs[n] = run.refs[n]
          /\ \A n \in roots \cup below :
               run'.status[n] \in {"INVALIDATED", "ABSENT"} /\ run'.refs[n] = <<>>]_vars

\* A branch that is to be repeated comes back to the scheduler, wherever the
\* commits that follow the plan were cut short.  The Container then starts again;
\* any other branch reads what it read before, and instead of starting is offered
\* its earlier result for good.
Offering(b) == run.status[b] = "PENDING" /\ ~ Startable(run, b)
RetryStartsOrIsOffered ==
  /\ run.status[Container] = "INVALIDATED" ~> Running(Container)
  /\ \A b \in Plain : run.status[b] = "INVALIDATED" ~> []Offering(b)

\* SPEC_v0.2.md has the affected part of the graph run again: a repeated
\* branch can write its result.
RetriesCanWrite ==
  \A n \in Subgraph : crashes = 0 /\ Idle /\ Running(n) => CanWrite(n)
=============================================================================
