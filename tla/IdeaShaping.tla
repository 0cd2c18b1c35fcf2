---------------------------- MODULE IdeaShaping ----------------------------
(***************************************************************************)
(* AdaptiveIdeaShapingService (idea_shaping.py): the rounds of questions   *)
(* of the idea node, its Checkpoints and its Idea Definition, and the      *)
(* Research Contract made from it.  A hypothesis is what the completion    *)
(* check sees of the text: how clear each dimension is, for which of them  *)
(* an unknown is recorded, and what research questions can be made from.   *)
(* The Host LLM may propose anything of Proposals at any time.  The        *)
(* Gate's request file is RunStorage's.                                    *)
(***************************************************************************)
EXTENDS HostCalls, SequencesExt

CONSTANTS
  Proposals,                \* records with some of the fields of a hypothesis
  Responses,                \* what a user may answer
  MaxRounds,                \* 8 in _completion
  MaxAttempts               \* bound on the Attempts of each node

vars == callVars

Dimensions == {"problem", "user", "scenario", "value", "mechanism"}
Levels == {"UNKNOWN", "LOW", "HIGH"}
Hypothesis ==
  [level : [Dimensions -> Levels], unknown : SUBSET Dimensions,
   researchable : BOOLEAN,  \* is an unknown researchable
   critical : BOOLEAN,      \* is an assumption of high criticality
   seeded : BOOLEAN]        \* is there a research seed
ASSUME ShapingAssumption ==
  /\ MaxRounds \in Nat /\ MaxAttempts \in Nat /\ MaxCrashes \in Nat
  /\ \A p \in Proposals :
       /\ \E h \in Hypothesis : \A field \in DOMAIN p \ {"level"} : p[field] = h[field]
       /\ "level" \in DOMAIN p => \E known \in SUBSET Dimensions : p.level \in [known -> Levels]
\* An Idea Definition is neither a missing nor a cut off file.
IdeaDefinitions ==
  [attempt : 1 .. MaxAttempts, hypothesis : Hypothesis,
   outcome : {"SUFFICIENT", "PARTIAL_RESEARCHABLE", "INSUFFICIENT_PRODUCT_CONTEXT"}]
ASSUME FileAssumption == None # Torn /\ {None, Torn} \cap IdeaDefinitions = {}

Empty == [level |-> [d \in Dimensions |-> "UNKNOWN"], unknown |-> {},
          researchable |-> FALSE, critical |-> FALSE, seeded |-> FALSE]

\* _merge_hypothesis: sections are merged by field, lists are replaced.
Merge(h, p) ==
  [field \in DOMAIN h |->
     IF field \notin DOMAIN p THEN h[field]
     ELSE IF field = "level"
     THEN [d \in Dimensions |-> IF d \in DOMAIN p.level THEN p.level[d] ELSE h.level[d]]
     ELSE p[field]]

\* _research_derivable, _ensure_research_seed.
Derivable(h) == h.critical \/ h.researchable \/ h.seeded
Anchored(h) == \E d \in {"problem", "user", "scenario"} : h.level[d] = "HIGH"
Seeded(h) == [h EXCEPT !.seeded = @ \/ (~ Derivable(h) /\ Anchored(h))]

\* _completion.
HasMinimum(h) ==
  /\ \A d \in {"problem", "user", "scenario"} : h.level[d] = "HIGH" \/ d \in h.unknown
  /\ h.level["value"] = "HIGH" /\ h.level["mechanism"] # "UNKNOWN"
  /\ Derivable(h)
OneRoundMore(round) == round > MaxRounds                          \* mutant
NeverOut(round) == FALSE                                          \* mutant
OutOfRounds(round) == round >= MaxRounds
MinimumOnly(h, round) ==                                          \* mutant
  CASE HasMinimum(h)                       -> "SUFFICIENT"
    [] ~ HasMinimum(h) /\ OutOfRounds(round) -> "PARTIAL_RESEARCHABLE"
    [] OTHER                               -> "IN_PROGRESS"
Outcome(h, round) ==
  CASE HasMinimum(h)                       -> "SUFFICIENT"
    [] ~ HasMinimum(h) /\ OutOfRounds(round) ->
         IF Derivable(h) THEN "PARTIAL_RESEARCHABLE" ELSE "INSUFFICIENT_PRODUCT_CONTEXT"
    [] OTHER                               -> "IN_PROGRESS"

-----------------------------------------------------------------------------
\* File names.  A Checkpoint is named by its Attempt and its version; an
\* Artifact by its version, one above the Manifest's (_artifact_version).
CheckpointFile(attempt, version) == <<"checkpoint", attempt, version>>
IdeaFile(version) == <<"idea", version, 0>>
ContractFile(version) == <<"contract", version, 0>>
Versions == 1 .. 2 * MaxAttempts
Names ==
  ({"checkpoint"} \X (1 .. MaxAttempts) \X (1 .. 2 * MaxRounds + 2))
    \cup ({"idea", "contract"} \X Versions \X {0})
NextIdea == IdeaFile(run.defined + 1)
NextContract == ContractFile(run.contracted + 1)

\* The Checkpoint the idea node and its Attempt refer to.
Start == [attempt |-> run.attempt, version |-> 0, round |-> 0, answers |-> <<>>,
          hypothesis |-> Empty]
Checkpoint ==
  IF run.checkpoint = 0 THEN Start ELSE files[CheckpointFile(run.attempt, run.checkpoint)]
NextCheckpoint == CheckpointFile(run.attempt, Checkpoint.version + 1)

-----------------------------------------------------------------------------
\* schedule_run, for the three nodes of this module.
ScheduleIdea ==
  /\ run.idea = "PENDING" /\ run.attempt < MaxAttempts
  /\ Change([run EXCEPT !.idea = "RUNNING", !.attempt = @ + 1])

\* _advance_idea: the completion check first, on what the provider proposes.
Conclude(h, outcome) ==
  LET document == [attempt |-> run.attempt, outcome |-> outcome, hypothesis |-> h]
      version == run.defined + 1
      written == [run EXCEPT !.defined = version, !.refs = Append(@, version)]
  IN IF outcome # "INSUFFICIENT_PRODUCT_CONTEXT"
     THEN <<File(NextIdea, document), Save([written EXCEPT !.idea = "VERIFIED"])>>
     ELSE <<File(NextIdea, document), Save(written), Save([written EXCEPT !.idea = "BLOCKED"])>>
\* A new round: the phrasing of the question may change the hypothesis again.
Forgetful(h) ==                                                   \* mutant
  [Checkpoint EXCEPT !.version = @ + 1, !.round = @ + 1, !.hypothesis = h, !.answers = <<>>]
NextRound(h) == [Checkpoint EXCEPT !.version = @ + 1, !.round = @ + 1, !.hypothesis = h]
AskAgain(h, phrased) ==
  LET document == NextRound(Seeded(Merge(h, phrased)))
  IN <<File(NextCheckpoint, document),
       Save([run EXCEPT !.idea = "WAITING_FOR_USER", !.checkpoint = document.version])>>
AdvanceIdea(initial, phrased) ==
  /\ Idle /\ run.idea = "RUNNING"
  /\ LET h == Seeded(Merge(Checkpoint.hypothesis, initial))
         outcome == Outcome(h, Checkpoint.round)
     IN \/ /\ outcome = "IN_PROGRESS" /\ NextCheckpoint \in Names
           /\ Call(AskAgain(h, phrased))
        \/ /\ outcome # "IN_PROGRESS" /\ NextIdea \in Names
           /\ Call(Conclude(h, outcome))

\* submit_interaction_response: the answer to the current question.  A repeated
\* one is answered from the Checkpoint and changes nothing.
Answered(checkpoint, response) ==
  [checkpoint EXCEPT !.version = @ + 1, !.answers = Append(@, response)]
SubmitResponse(response) ==
  /\ Idle /\ run.idea = "WAITING_FOR_USER"
  /\ LET document == Answered(Checkpoint, response) IN
       Call(<<File(NextCheckpoint, document),
              Save([run EXCEPT !.idea = "RUNNING", !.checkpoint = document.version])>>)

\* The host fails an Attempt, or retries the node: a new Attempt starts afresh.
FailIdea == run.idea = "RUNNING" /\ Change([run EXCEPT !.idea = "FAILED"])
CheckpointInherited ==                                            \* mutant
  /\ run.idea \in {"FAILED", "BLOCKED"} /\ run.attempt < MaxAttempts
  /\ Change([run EXCEPT !.idea = "PENDING"])
RetryIdea ==
  /\ run.idea \in {"FAILED", "BLOCKED"} /\ run.attempt < MaxAttempts
  /\ Change([run EXCEPT !.idea = "PENDING", !.checkpoint = 0])

-----------------------------------------------------------------------------
\* _advance_contract: the contract of the last Idea Definition, the Gate's
\* scheduling, and the Gate's request, committed one after another.
ScheduleContract ==
  /\ run.idea = "VERIFIED" /\ run.contract = "PENDING" /\ run.contract_attempt < MaxAttempts
  /\ Change([run EXCEPT !.contract = "RUNNING", !.contract_attempt = @ + 1])
Definition == files[IdeaFile(Last(run.refs))]
AdvanceContract ==
  /\ run.contract = "RUNNING" /\ run.idea = "VERIFIED" /\ run.refs # <<>>
  /\ Derivable(Definition.hypothesis) /\ NextContract \in Names
  /\ LET done == [run EXCEPT !.contract = "VERIFIED", !.contracted = @ + 1]
         document == [attempt |-> run.contract_attempt, idea |-> Last(run.refs)]
     IN Call(<<File(NextContract, document), Save(done), Save([done EXCEPT !.gate = "WAITING"]),
               Save([done EXCEPT !.gate = "OPEN"])>>)
\* The host schedules and opens the Gate itself, as after a crash.
ScheduleGate ==
  run.contract = "VERIFIED" /\ run.gate = "PENDING" /\ Change([run EXCEPT !.gate = "WAITING"])
OpenGate == run.gate = "WAITING" /\ Change([run EXCEPT !.gate = "OPEN"])
FailContract == run.contract = "RUNNING" /\ Change([run EXCEPT !.contract = "FAILED"])
RetryContract ==
  /\ run.contract = "FAILED" /\ run.contract_attempt < MaxAttempts
  /\ Change([run EXCEPT !.contract = "PENDING"])
\* invalidate_downstream of the idea, and resume_invalidated: the contract's
\* Manifest entry goes if an Attempt has produced it.
InvalidateContract ==
  /\ run.contract # "RUNNING"
  /\ Change([run EXCEPT !.contract = "INVALIDATED", !.gate = "INVALIDATED",
                        !.contracted = IF run.contract_attempt > 0 THEN 0 ELSE @])
ResumeInvalidated ==
  /\ run.contract = "INVALIDATED"
  /\ Change([run EXCEPT !.contract = "PENDING", !.gate = "PENDING"])

-----------------------------------------------------------------------------
Init ==
  /\ run = [idea |-> "PENDING", attempt |-> 0, checkpoint |-> 0, refs |-> <<>>, defined |-> 0,
            contract |-> "PENDING", contract_attempt |-> 0, contracted |-> 0, gate |-> "PENDING"]
  /\ files = [name \in Names |-> None]
  /\ todo = <<>> /\ crashes = 0
Advance == \E p, q \in Proposals : AdvanceIdea(p, q)
Respond == \E r \in Responses : SubmitResponse(r)
Next ==
  \/ ScheduleIdea \/ Advance \/ Respond \/ FailIdea \/ RetryIdea
  \/ ScheduleContract \/ AdvanceContract \/ ScheduleGate \/ OpenGate
  \/ FailContract \/ RetryContract \/ InvalidateContract \/ ResumeInvalidated
  \/ WriteFile \/ Commit \/ Crash

\* A call runs to its end, the host advances a running Attempt again and
\* again, and the user answers in the end.
Fairness == WF_vars(WriteFile) /\ WF_vars(Commit) /\ WF_vars(Advance) /\ WF_vars(Respond)
Spec == Init /\ [][Next]_vars
FairSpec == Spec /\ Fairness

-----------------------------------------------------------------------------
\* Types of the Snapshot, and of the files the Snapshot refers to.
NodeStatus == {"PENDING", "RUNNING", "WAITING_FOR_USER", "VERIFIED", "BLOCKED", "FAILED", "INVALIDATED"}
CheckpointType ==
  [attempt : 1 .. MaxAttempts, version : 1 .. 2 * MaxRounds, round : 1 .. MaxRounds,
   answers : Seq(Responses), hypothesis : Hypothesis]
TypeOK ==
  /\ run.idea \in NodeStatus /\ run.contract \in NodeStatus
  /\ run.attempt \in 0 .. MaxAttempts /\ run.contract_attempt \in 0 .. MaxAttempts
  /\ run.checkpoint \in 0 .. 2 * MaxRounds
  /\ run.checkpoint # 0 => Checkpoint \in CheckpointType /\ Checkpoint.attempt = run.attempt
  /\ run.defined \in Versions \cup {0} /\ run.contracted \in Versions \cup {0}
  /\ run.gate \in {"PENDING", "WAITING", "OPEN", "INVALIDATED"}
  /\ DOMAIN files = Names
  /\ crashes \in 0 .. MaxCrashes

\* What an interview shows of the Snapshot.
Asked == Checkpoint.round
Given == Len(Checkpoint.answers)
Ending ==
  IF run.idea = "VERIFIED" THEN "researchable"
  ELSE IF run.idea = "BLOCKED" THEN "insufficient" ELSE "open"
Questions == INSTANCE Interview WITH asked <- Asked, answered <- Given, outcome <- Ending
\* Seen from outside, shaping is an Interview: whatever crashes, a question is
\* asked once, answered once, and the limit of rounds holds.
ImplementsInterview == Questions!Spec

\* No accepted answer is lost or rewritten while its Attempt goes on.
AnswersKept ==
  [][run'.attempt = run.attempt /\ run'.checkpoint # 0 =>
       IsPrefix(Checkpoint.answers, Checkpoint'.answers)]_vars

\* A verified idea can be researched: the Research Contract made from its last
\* definition has at least one question, although refs may also
\* list definitions found insufficient (_research_contract_document refuses such).
VerifiedIdeaIsResearchable ==
  run.idea = "VERIFIED" =>
    /\ run.refs # <<>> /\ Definition \notin {None, Torn}
    /\ Definition.attempt = run.attempt /\ Derivable(Definition.hypothesis)
    /\ Definition.outcome # "INSUFFICIENT_PRODUCT_CONTEXT"

\* Shaping ends: a running or answered Attempt comes to a result, unless a
\* crash has left a file under the name its next call must write.
Obstructed ==
  Idle /\ \E name \in {NextCheckpoint, NextIdea} : name \in Names /\ files[name] # None
ShapingEnds ==
  run.idea \in {"RUNNING", "WAITING_FOR_USER"} ~>
    (run.idea \in {"VERIFIED", "BLOCKED", "FAILED"} \/ Obstructed)
=============================================================================
