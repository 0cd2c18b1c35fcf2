------------------------- MODULE IdeaShapingProofs -------------------------
(***************************************************************************)
(* Idea shaping as an interview, for any proposals of the Host LLM, any    *)
(* answers, any number of rounds, Attempts and crashes.  A call computes   *)
(* all its writes before the first; the invariant says what the rest of a  *)
(* call may still hold, as seen from the Snapshot of the moment: the next  *)
(* Checkpoint, an Idea Definition, or writes that leave the idea alone.    *)
(***************************************************************************)
EXTENDS IdeaShaping, SequenceTheorems, TLAPS

RunType ==
  [idea : NodeStatus \ {"INVALIDATED"}, attempt : 0 .. MaxAttempts,
   checkpoint : 0 .. 2 * MaxRounds, refs : Seq(Versions), defined : Versions \cup {0},
   contract : NodeStatus, contract_attempt : 0 .. MaxAttempts,
   contracted : Versions \cup {0}, gate : {"PENDING", "WAITING", "OPEN", "INVALIDATED"}]
FileTypes == DOMAIN files = Names /\ crashes \in 0 .. MaxCrashes
\* The Checkpoint is of the Attempt, and says whose turn it is.
Held(d) == d \in CheckpointType /\ d.attempt = run.attempt /\ d.version = run.checkpoint
Paced ==
  /\ run.idea = "PENDING" => run.checkpoint = 0
  /\ run.idea # "PENDING" => run.attempt > 0
  /\ run.checkpoint # 0 => Held(Checkpoint)
  /\ run.idea \in {"RUNNING", "VERIFIED", "BLOCKED", "FAILED"} =>
       Checkpoint.version = 2 * Checkpoint.round /\ Len(Checkpoint.answers) = Checkpoint.round
  /\ run.idea = "WAITING_FOR_USER" =>
       /\ run.checkpoint # 0
       /\ Checkpoint.version + 1 = 2 * Checkpoint.round
       /\ Len(Checkpoint.answers) + 1 = Checkpoint.round
ShapingTypes == run \in RunType /\ FileTypes /\ Paced

\* What is left of a question or of an answer.
Follows(d) ==
  /\ d.attempt = run.attempt /\ d.version = Checkpoint.version + 1
  /\ \/ /\ run.idea = "RUNNING" /\ d.round = Checkpoint.round + 1 /\ d.answers = Checkpoint.answers
     \/ /\ run.idea = "WAITING_FOR_USER" /\ d.round = Checkpoint.round
        /\ \E r \in Responses : d.answers = Append(Checkpoint.answers, r)
Moved(d) ==
  [run EXCEPT !.idea = IF run.idea = "RUNNING" THEN "WAITING_FOR_USER" ELSE "RUNNING",
              !.checkpoint = d.version]
Checkpointing ==
  \E d \in CheckpointType :
    /\ Follows(d)
    /\ \/ todo = <<File(NextCheckpoint, d), Save(Moved(d))>>
       \/ todo = <<Save(Moved(d))>> /\ files[NextCheckpoint] = d

\* What is left of a conclusion.
Defined == [run EXCEPT !.defined = @ + 1, !.refs = Append(@, run.defined + 1)]
Ended == [Defined EXCEPT !.idea = "VERIFIED"]
GivenUp == [Defined EXCEPT !.idea = "BLOCKED"]
Researchable(d) ==
  /\ d.attempt = run.attempt /\ Derivable(d.hypothesis)
  /\ d.outcome # "INSUFFICIENT_PRODUCT_CONTEXT"
Verifying(d) ==
  \/ todo = <<File(NextIdea, d), Save(Ended)>>
  \/ todo = <<Save(Ended)>> /\ files[NextIdea] = d
GivingUp(d) ==
  \/ todo = <<File(NextIdea, d), Save(Defined), Save(GivenUp)>>
  \/ todo = <<Save(Defined), Save(GivenUp)>>
Concluding ==
  /\ run.idea = "RUNNING" /\ NextIdea \in Names
  /\ \E d \in IdeaDefinitions :
       \/ Researchable(d) /\ Verifying(d)
       \/ Checkpoint.round = MaxRounds /\ GivingUp(d)
Blocking ==
  /\ run.idea = "RUNNING" /\ Checkpoint.round = MaxRounds
  /\ todo = <<Save([run EXCEPT !.idea = "BLOCKED"])>>

\* What is left of a Research Contract: nothing that touches the idea.
SameIdea(r, s) ==
  /\ r.idea = s.idea /\ r.attempt = s.attempt /\ r.checkpoint = s.checkpoint
  /\ r.refs = s.refs /\ r.defined = s.defined
ContractDocuments == [attempt : 0 .. MaxAttempts, idea : Versions]
ContractWrites ==
  {File(ContractFile(v), d) : v \in Versions, d \in ContractDocuments} \cup
  {Save(r) : r \in {s \in RunType : SameIdea(s, run)}}
Contracting == todo \in Seq(ContractWrites)

TodoKnown == Checkpointing \/ Concluding \/ Blocking \/ Contracting
ShapingInv == ShapingTypes /\ TodoKnown /\ VerifiedIdeaIsResearchable

\* What every step must be.
Shown == <<Asked, Given, Ending>>
InterviewStep == [Questions!Next]_Shown
AnswersStep ==
  run'.attempt = run.attempt /\ run'.checkpoint # 0 =>
    IsPrefix(Checkpoint.answers, Checkpoint'.answers)
ShapingStep == ShapingInv' /\ InterviewStep /\ AnswersStep

-----------------------------------------------------------------------------
(* The parts of a hypothesis that a proposal names are replaced by ones of *)
(* their types.                                                            *)
LEMMA MergeTyped ==
  ASSUME NEW h \in Hypothesis, NEW p \in Proposals
  PROVE  Seeded(Merge(h, p)) \in Hypothesis
<1>1. PICK g \in Hypothesis : \A field \in DOMAIN p \ {"level"} : p[field] = g[field]
  BY ShapingAssumption
<1>2. DOMAIN h = {"level", "unknown", "researchable", "critical", "seeded"}
  BY DEF Hypothesis
<1>3. Merge(h, p).level \in [Dimensions -> Levels]
  <2>1. CASE "level" \in DOMAIN p
    <3>1. PICK known \in SUBSET Dimensions : p.level \in [known -> Levels]
      BY <2>1, ShapingAssumption
    <3>2. Merge(h, p).level =
            [d \in Dimensions |-> IF d \in DOMAIN p.level THEN p.level[d] ELSE h.level[d]]
      BY <1>2, <2>1 DEF Merge
    <3> QED
      BY <3>1, <3>2 DEF Hypothesis
  <2>2. CASE "level" \notin DOMAIN p
    BY <1>2, <2>2 DEF Merge, Hypothesis
  <2> QED
    BY <2>1, <2>2
<1>4. /\ Merge(h, p).unknown \in SUBSET Dimensions /\ Merge(h, p).researchable \in BOOLEAN
      /\ Merge(h, p).critical \in BOOLEAN /\ Merge(h, p).seeded \in BOOLEAN
  BY <1>1, <1>2 DEF Merge, Hypothesis
<1>5. Merge(h, p) \in Hypothesis
  BY <1>2, <1>3, <1>4 DEF Merge, Hypothesis
<1> QED
  BY <1>5 DEF Seeded, Hypothesis

(* The rest of a call after its first write.                               *)
LEMMA Tuples ==
  /\ \A a : <<a>> # <<>> /\ Head(<<a>>) = a /\ Tail(<<a>>) = <<>>
  /\ \A a, b : <<a, b>> # <<>> /\ Head(<<a, b>>) = a /\ Tail(<<a, b>>) = <<b>>
  /\ \A a, b, c : /\ <<a, b, c>> # <<>> /\ Head(<<a, b, c>>) = a
                 /\ Tail(<<a, b, c>>) = <<b, c>>
OBVIOUS

(* What a File and a Save are.                                             *)
LEMMA Writes ==
  /\ \A n, d : /\ File(n, d).kind = "file" /\ File(n, d).name = n
              /\ File(n, d).document = d
  /\ \A r : Save(r).kind = "snapshot" /\ Save(r).run = r
BY DEF File, Save

(* File names do not overlap.                                              *)
LEMMA NamesDiffer ==
  /\ \A a, v, b, w : CheckpointFile(a, v) = CheckpointFile(b, w) => a = b /\ v = w
  /\ \A a, v, w : /\ CheckpointFile(a, v) # IdeaFile(w) /\ CheckpointFile(a, v) # ContractFile(w)
                 /\ IdeaFile(v) # ContractFile(w)
  /\ \A v, w : IdeaFile(v) = IdeaFile(w) => v = w
  /\ \A v : IdeaFile(v) \in Names \/ ContractFile(v) \in Names => v \in Versions
  /\ \A a \in 1 .. MaxAttempts, v \in 1 .. 2 * MaxRounds + 2 : CheckpointFile(a, v) \in Names
BY DEF CheckpointFile, IdeaFile, ContractFile, Names

(* The Checkpoint of a Run, also before the first one is written.          *)
LEMMA CheckpointTyped ==
  ASSUME ShapingTypes
  PROVE  /\ Checkpoint \in [attempt : 0 .. MaxAttempts, version : 0 .. 2 * MaxRounds,
                            round : 0 .. MaxRounds, answers : Seq(Responses), hypothesis : Hypothesis]
         /\ Checkpoint.attempt = run.attempt /\ Checkpoint.version = run.checkpoint
         /\ run.checkpoint = 0 => Checkpoint.round = 0 /\ Checkpoint.answers = <<>>
<1>1. Empty \in Hypothesis
  BY DEF Empty, Hypothesis, Levels
<1>2. CASE run.checkpoint = 0
  <2>1. Checkpoint = Start
    BY <1>2 DEF Checkpoint
  <2> QED
    BY <1>1, <1>2, <2>1, ShapingAssumption DEF Start, ShapingTypes, RunType
<1>3. CASE run.checkpoint # 0
  BY <1>3, ShapingAssumption DEF ShapingTypes, Paced, Held, CheckpointType
<1> QED
  BY <1>2, <1>3

(* A Checkpoint is that of a Snapshot and of one file.                     *)
LEMMA CheckpointStays ==
  ASSUME run'.attempt = run.attempt, run'.checkpoint = run.checkpoint,
         run.checkpoint # 0 =>
           files'[CheckpointFile(run.attempt, run.checkpoint)]
             = files[CheckpointFile(run.attempt, run.checkpoint)]
  PROVE  Checkpoint' = Checkpoint
BY DEF Checkpoint, Start, CheckpointFile

(* A list of answers is kept by itself and by one answer more.             *)
LEMMA PrefixKept ==
  ASSUME NEW s \in Seq(Responses)
  PROVE  IsPrefix(s, s) /\ \A r \in Responses : IsPrefix(s, Append(s, r))
<1>1. SubSeq(s, 1, Len(s)) = s /\ Len(s) \in Nat
  BY SubSeqFull, LenProperties
<1>2. ASSUME NEW r \in Responses PROVE SubSeq(Append(s, r), 1, Len(s)) = s
  BY <1>1, AppendProperties, SubSeqProperties, SeqEqual
<1> QED
  BY <1>1, <1>2, AppendProperties DEF IsPrefix

-----------------------------------------------------------------------------
(* A step that changes neither the idea nor the files it refers to is      *)
(* known by what it leaves of the call.                                    *)
LEMMA QuietStep ==
  ASSUME ShapingInv, run' \in RunType, SameIdea(run', run), FileTypes', TodoKnown',
         run.checkpoint # 0 =>
           files'[CheckpointFile(run.attempt, run.checkpoint)]
             = files[CheckpointFile(run.attempt, run.checkpoint)],
         run.idea = "VERIFIED" => files'[IdeaFile(Last(run.refs))] = files[IdeaFile(Last(run.refs))]
  PROVE  ShapingStep
<1>1. Checkpoint' = Checkpoint
  BY CheckpointStays DEF SameIdea
<1>2. ShapingTypes'
  BY <1>1 DEF ShapingInv, ShapingTypes, Paced, Held, SameIdea
<1>3. VerifiedIdeaIsResearchable'
  BY DEF ShapingInv, VerifiedIdeaIsResearchable, Definition, SameIdea
<1>4. InterviewStep
  BY <1>1 DEF InterviewStep, Shown, Asked, Given, Ending, SameIdea
<1>5. AnswersStep
  BY <1>1, CheckpointTyped, PrefixKept DEF AnswersStep, ShapingInv
<1> QED
  BY <1>2, <1>3, <1>4, <1>5 DEF ShapingStep, ShapingInv

(* The next round of a running Attempt.                                    *)
LEMMA RoundFollows ==
  ASSUME ShapingTypes, run.idea = "RUNNING", Checkpoint.round < MaxRounds, NEW h \in Hypothesis
  PROVE  NextRound(h) \in CheckpointType /\ Follows(NextRound(h))
<1>1. /\ Checkpoint \in [attempt : 0 .. MaxAttempts, version : 0 .. 2 * MaxRounds,
                         round : 0 .. MaxRounds, answers : Seq(Responses), hypothesis : Hypothesis]
      /\ Checkpoint.attempt = run.attempt /\ Checkpoint.version = 2 * Checkpoint.round
      /\ run.attempt \in 1 .. MaxAttempts
  BY CheckpointTyped, ShapingAssumption DEF ShapingTypes, Paced, RunType
<1>2. PICK d : d = NextRound(h)
  OBVIOUS
<1>3. /\ d \in [attempt : 0 .. MaxAttempts, version : Nat, round : Nat,
                answers : Seq(Responses), hypothesis : Hypothesis]
      /\ d.attempt = run.attempt /\ d.version = Checkpoint.version + 1
      /\ d.round = Checkpoint.round + 1 /\ d.answers = Checkpoint.answers
  <2>1. PICK c \in [attempt : 0 .. MaxAttempts, version : 0 .. 2 * MaxRounds,
                     round : 0 .. MaxRounds, answers : Seq(Responses), hypothesis : Hypothesis] :
          c = Checkpoint
    BY <1>1
  <2>2. d = [c EXCEPT !.version = c.version + 1, !.round = c.round + 1, !.hypothesis = h]
    BY <1>2, <2>1 DEF NextRound
  <2>3. c.version + 1 \in Nat /\ c.round + 1 \in Nat
    BY ShapingAssumption
  <2> QED
    BY <1>1, <2>1, <2>2, <2>3
<1>4. d.version \in 1 .. 2 * MaxRounds /\ d.round \in 1 .. MaxRounds /\ d.attempt \in 1 .. MaxAttempts
  BY <1>1, <1>3, ShapingAssumption
<1>5. d \in CheckpointType
  BY <1>3, <1>4 DEF CheckpointType
<1> QED
  BY <1>2, <1>3, <1>5 DEF Follows

(* The answer to the question that waits.                                  *)
LEMMA AnswerFollows ==
  ASSUME ShapingTypes, run.idea = "WAITING_FOR_USER", NEW r \in Responses
  PROVE  Answered(Checkpoint, r) \in CheckpointType /\ Follows(Answered(Checkpoint, r))
<1>1. /\ Checkpoint \in CheckpointType /\ Checkpoint.attempt = run.attempt
      /\ Checkpoint.version + 1 = 2 * Checkpoint.round
  BY DEF ShapingTypes, Paced, Held
<1>2. PICK d : d = Answered(Checkpoint, r)
  OBVIOUS
<1>3. /\ d \in [attempt : 1 .. MaxAttempts, version : Nat, round : 1 .. MaxRounds,
                answers : Seq(Responses), hypothesis : Hypothesis]
      /\ d.attempt = run.attempt /\ d.version = Checkpoint.version + 1
      /\ d.round = Checkpoint.round /\ d.answers = Append(Checkpoint.answers, r)
  <2>1. PICK c \in CheckpointType : c = Checkpoint
    BY <1>1
  <2>2. d = [c EXCEPT !.version = c.version + 1, !.answers = Append(c.answers, r)]
    BY <1>2, <2>1 DEF Answered
  <2>3. c.version + 1 \in Nat /\ Append(c.answers, r) \in Seq(Responses)
    BY ShapingAssumption, AppendProperties DEF CheckpointType
  <2> QED
    BY <1>1, <2>1, <2>2, <2>3 DEF CheckpointType
<1>4. d.version \in 1 .. 2 * MaxRounds
  BY <1>1, <1>3, ShapingAssumption DEF CheckpointType
<1>5. d \in CheckpointType
  BY <1>3, <1>4 DEF CheckpointType
<1> QED
  BY <1>2, <1>3, <1>5 DEF Follows

(* A conclusion is researchable, or comes after the last round.            *)
LEMMA ConclusionFollows ==
  ASSUME ShapingTypes, run.idea = "RUNNING", NEW h \in Hypothesis, NEW outcome,
         outcome = Outcome(h, Checkpoint.round)
  PROVE  /\ outcome = "IN_PROGRESS" => Checkpoint.round < MaxRounds
         /\ outcome # "IN_PROGRESS" =>
              LET d == [attempt |-> run.attempt, outcome |-> outcome, hypothesis |-> h] IN
                /\ d \in IdeaDefinitions
                /\ outcome # "INSUFFICIENT_PRODUCT_CONTEXT" => Researchable(d)
                /\ outcome = "INSUFFICIENT_PRODUCT_CONTEXT" => Checkpoint.round = MaxRounds
<1>1. Checkpoint.round \in 0 .. MaxRounds /\ run.attempt \in 1 .. MaxAttempts
  BY CheckpointTyped, ShapingAssumption DEF ShapingTypes, Paced, RunType
<1>2. HasMinimum(h) => Derivable(h)
  BY DEF HasMinimum
<1>3. \/ outcome = "SUFFICIENT" /\ HasMinimum(h)
      \/ /\ OutOfRounds(Checkpoint.round)
         /\ \/ outcome = "PARTIAL_RESEARCHABLE" /\ Derivable(h)
            \/ outcome = "INSUFFICIENT_PRODUCT_CONTEXT"
      \/ outcome = "IN_PROGRESS" /\ ~ OutOfRounds(Checkpoint.round)
  BY DEF Outcome
<1>4. OutOfRounds(Checkpoint.round) <=> Checkpoint.round = MaxRounds
  BY <1>1, ShapingAssumption DEF OutOfRounds
<1>5. PICK d : d = [attempt |-> run.attempt, outcome |-> outcome, hypothesis |-> h]
  OBVIOUS
<1>6. outcome # "IN_PROGRESS" => d \in IdeaDefinitions
  BY <1>1, <1>3, <1>5 DEF IdeaDefinitions
<1>7. outcome \in {"SUFFICIENT", "PARTIAL_RESEARCHABLE"} => Derivable(d.hypothesis) /\ d.attempt = run.attempt
  BY <1>2, <1>3, <1>5
<1> QED
  BY <1>1, <1>3, <1>4, <1>5, <1>6, <1>7, ShapingAssumption DEF Researchable

-----------------------------------------------------------------------------
(* A call begins: its writes are those of a round, of an answer, of a      *)
(* conclusion or of a contract.                                            *)
LEMMA CallStep ==
  ASSUME ShapingInv,
         \/ \E p, q \in Proposals : AdvanceIdea(p, q)
         \/ \E r \in Responses : SubmitResponse(r)
         \/ AdvanceContract
  PROVE  ShapingStep
<1>1. UNCHANGED <<run, files, crashes>>
  BY DEF AdvanceIdea, SubmitResponse, AdvanceContract, Call
<1>2. TodoKnown'
  <2>1. ASSUME NEW p \in Proposals, NEW q \in Proposals, AdvanceIdea(p, q) PROVE TodoKnown'
    <3>1. PICK h \in Hypothesis : h = Seeded(Merge(Checkpoint.hypothesis, p))
      BY MergeTyped, CheckpointTyped DEF ShapingInv
    <3>2. PICK outcome : outcome = Outcome(h, Checkpoint.round)
      OBVIOUS
    <3>3. /\ run.idea = "RUNNING"
          /\ \/ outcome = "IN_PROGRESS" /\ Call(AskAgain(h, q))
             \/ outcome # "IN_PROGRESS" /\ NextIdea \in Names /\ Call(Conclude(h, outcome))
      BY <2>1, <3>1, <3>2 DEF AdvanceIdea
    <3>4. CASE outcome = "IN_PROGRESS"
      <4>1. PICK g \in Hypothesis : g = Seeded(Merge(h, q))
        BY MergeTyped
      <4>2. PICK d : d = NextRound(g)
        OBVIOUS
      <4>3. d \in CheckpointType /\ Follows(d)
        BY <3>2, <3>3, <3>4, <4>2, ConclusionFollows, RoundFollows DEF ShapingInv
      <4>4. todo' = <<File(NextCheckpoint, d), Save(Moved(d))>>
        BY <3>3, <3>4, <4>1, <4>2 DEF Call, AskAgain, Moved
      <4>5. Follows(d)' /\ (todo = <<File(NextCheckpoint, d), Save(Moved(d))>>)'
        BY <1>1, <4>3, <4>4 DEF Follows, Moved, NextCheckpoint, Checkpoint, Start, CheckpointFile
      <4> QED
        BY <4>3, <4>5 DEF TodoKnown, Checkpointing
    <3>5. CASE outcome # "IN_PROGRESS"
      <4>1. PICK d : d = [attempt |-> run.attempt, outcome |-> outcome, hypothesis |-> h]
        OBVIOUS
      <4>2. /\ d \in IdeaDefinitions
            /\ outcome # "INSUFFICIENT_PRODUCT_CONTEXT" => Researchable(d)
            /\ outcome = "INSUFFICIENT_PRODUCT_CONTEXT" => Checkpoint.round = MaxRounds
        BY <3>2, <3>3, <3>5, <4>1, ConclusionFollows DEF ShapingInv
      <4>3. \/ outcome # "INSUFFICIENT_PRODUCT_CONTEXT" /\ todo' = <<File(NextIdea, d), Save(Ended)>>
            \/ /\ outcome = "INSUFFICIENT_PRODUCT_CONTEXT"
               /\ todo' = <<File(NextIdea, d), Save(Defined), Save(GivenUp)>>
        BY <3>3, <3>5, <4>1 DEF Call, Conclude, Ended, GivenUp, Defined
      <4>4. UNCHANGED <<NextIdea, Ended, Defined, GivenUp, Checkpoint>> /\ (Researchable(d) => Researchable(d)')
        BY <1>1 DEF NextIdea, Ended, Defined, GivenUp, Checkpoint, Start, CheckpointFile, IdeaFile, Researchable
      <4>5. Concluding'
        <5>1. run'.idea = "RUNNING" /\ (NextIdea \in Names)' /\ Checkpoint'.round = Checkpoint.round
          BY <1>1, <3>3, <3>5, <4>4 DEF Names
        <5>2. CASE outcome = "INSUFFICIENT_PRODUCT_CONTEXT"
          <6>1. GivingUp(d)' /\ (Checkpoint.round = MaxRounds)'
            BY <4>2, <4>3, <4>4, <5>1, <5>2 DEF GivingUp
          <6> QED
            BY <4>2, <5>1, <6>1 DEF Concluding
        <5>3. CASE outcome # "INSUFFICIENT_PRODUCT_CONTEXT"
          <6>1. Verifying(d)' /\ Researchable(d)'
            BY <4>2, <4>3, <4>4, <5>3 DEF Verifying
          <6> QED
            BY <4>2, <5>1, <6>1 DEF Concluding
        <5> QED
          BY <5>2, <5>3
      <4> QED
        BY <4>5 DEF TodoKnown
    <3> QED
      BY <3>4, <3>5
  <2>2. ASSUME NEW r \in Responses, SubmitResponse(r) PROVE TodoKnown'
    <3>1. PICK d : d = Answered(Checkpoint, r)
      OBVIOUS
    <3>2. d \in CheckpointType /\ Follows(d) /\ run.idea = "WAITING_FOR_USER"
      BY <2>2, <3>1, AnswerFollows DEF ShapingInv, SubmitResponse
    <3>3. todo' = <<File(NextCheckpoint, d), Save(Moved(d))>>
      BY <2>2, <3>1, <3>2 DEF SubmitResponse, Call, Moved
    <3>4. Follows(d)' /\ (todo = <<File(NextCheckpoint, d), Save(Moved(d))>>)'
      BY <1>1, <3>2, <3>3 DEF Follows, Moved, NextCheckpoint, Checkpoint, Start, CheckpointFile
    <3> QED
      BY <3>2, <3>4 DEF TodoKnown, Checkpointing
  <2>3. CASE AdvanceContract
    <3>1. PICK done, d : /\ done = [run EXCEPT !.contract = "VERIFIED", !.contracted = run.contracted + 1]
                         /\ d = [attempt |-> run.contract_attempt, idea |-> Last(run.refs)]
      OBVIOUS
    <3>2. /\ run.refs # <<>> /\ NextContract \in Names
          /\ todo' = <<File(NextContract, d), Save(done), Save([done EXCEPT !.gate = "WAITING"]),
                       Save([done EXCEPT !.gate = "OPEN"])>>
      BY <2>3, <3>1 DEF AdvanceContract, Call
    <3>3. run.contracted + 1 \in Versions /\ NextContract = ContractFile(run.contracted + 1)
      BY <3>2, NamesDiffer DEF NextContract
    <3>4. d \in ContractDocuments
      <4>1. Last(run.refs) \in Versions
        BY <3>2, LenProperties, EmptySeq DEF Last, ShapingInv, ShapingTypes, RunType
      <4> QED
        BY <3>1, <4>1 DEF ContractDocuments, ShapingInv, ShapingTypes, RunType
    <3>5. ASSUME NEW s \in {done, [done EXCEPT !.gate = "WAITING"], [done EXCEPT !.gate = "OPEN"]}
          PROVE  s \in RunType /\ SameIdea(s, run)
      <4>1. run \in RunType
        BY DEF ShapingInv, ShapingTypes
      <4>2. done \in RunType /\ SameIdea(done, run)
        BY <3>1, <3>3, <4>1 DEF RunType, SameIdea, NodeStatus
      <4> QED
        BY <3>5, <4>2 DEF RunType, SameIdea
    <3>6. \A i \in 1 .. 4 : todo'[i] \in ContractWrites
      BY <3>2, <3>3, <3>4, <3>5 DEF ContractWrites
    <3>7. todo' \in Seq(ContractWrites)
      BY <3>2, <3>6
    <3>8. ContractWrites' = ContractWrites
      BY <1>1 DEF ContractWrites
    <3> QED
      BY <3>7, <3>8 DEF TodoKnown, Contracting
  <2> QED
    BY <2>1, <2>2, <2>3
<1> QED
  BY <1>1, <1>2, QuietStep DEF ShapingInv, ShapingTypes, FileTypes, SameIdea

(* The scheduler, the host and the user move the nodes between calls.      *)
LEMMA NodeStep ==
  ASSUME ShapingInv,
         \/ ScheduleIdea \/ FailIdea \/ RetryIdea
         \/ ScheduleContract \/ ScheduleGate \/ OpenGate
         \/ FailContract \/ RetryContract \/ InvalidateContract \/ ResumeInvalidated
  PROVE  ShapingStep
<1>1. todo = <<>> /\ UNCHANGED <<files, todo, crashes>>
  BY DEF ScheduleIdea, FailIdea, RetryIdea, ScheduleContract, ScheduleGate, OpenGate,
         FailContract, RetryContract, InvalidateContract, ResumeInvalidated, Change, Idle
<1>2. TodoKnown' /\ FileTypes' /\ run \in RunType /\ ShapingTypes
  <2>1. todo' \in Seq(ContractWrites')
    BY <1>1, EmptySeq
  <2> QED
    BY <1>1, <2>1 DEF TodoKnown, Contracting, ShapingInv, ShapingTypes, FileTypes
<1>3. CASE \/ ScheduleContract \/ ScheduleGate \/ OpenGate
           \/ FailContract \/ RetryContract \/ InvalidateContract \/ ResumeInvalidated
  <2>1. run' \in RunType /\ SameIdea(run', run)
    <3>1. CASE ScheduleContract
      <4>1. run.contract_attempt + 1 \in 0 .. MaxAttempts
        BY <1>2, <3>1, ShapingAssumption DEF ScheduleContract, RunType
      <4>2. run' = [run EXCEPT !.contract = "RUNNING", !.contract_attempt = run.contract_attempt + 1]
        BY <3>1 DEF ScheduleContract, Change
      <4> QED
        BY <1>2, <4>1, <4>2 DEF RunType, SameIdea, NodeStatus
    <3>2. CASE ScheduleGate \/ OpenGate
      BY <1>2, <3>2 DEF ScheduleGate, OpenGate, Change, RunType, SameIdea
    <3>3. CASE FailContract \/ RetryContract
      BY <1>2, <3>3 DEF FailContract, RetryContract, Change, RunType, SameIdea, NodeStatus
    <3>4. CASE ResumeInvalidated
      BY <1>2, <3>4 DEF ResumeInvalidated, Change, RunType, SameIdea, NodeStatus
    <3>5. CASE InvalidateContract
      <4>1. PICK version \in Versions \cup {0} :
              run' = [run EXCEPT !.contract = "INVALIDATED", !.gate = "INVALIDATED", !.contracted = version]
        BY <1>2, <3>5 DEF InvalidateContract, Change, RunType
      <4> QED
        BY <1>2, <4>1 DEF RunType, SameIdea, NodeStatus
    <3> QED
      BY <1>3, <3>1, <3>2, <3>3, <3>4, <3>5
  <2> QED
    BY <1>1, <1>2, <2>1, QuietStep
<1>4. CASE ScheduleIdea
  <2>1. /\ run.idea = "PENDING" /\ run.checkpoint = 0
        /\ run' = [run EXCEPT !.idea = "RUNNING", !.attempt = run.attempt + 1]
        /\ run.attempt < MaxAttempts
    BY <1>4 DEF ScheduleIdea, Change, ShapingInv, ShapingTypes, Paced
  <2>2. run' \in RunType /\ run'.idea = "RUNNING" /\ run'.attempt = run.attempt + 1 /\ run'.checkpoint = 0
    <3>1. run.attempt + 1 \in 0 .. MaxAttempts
      BY <1>2, <2>1, ShapingAssumption DEF RunType
    <3> QED
      BY <1>2, <2>1, <3>1 DEF RunType, NodeStatus
  <2>3. /\ Checkpoint.round = 0 /\ Checkpoint.answers = <<>>
        /\ Checkpoint'.round = 0 /\ Checkpoint'.answers = <<>> /\ Checkpoint'.version = 0
    BY <2>1, <2>2 DEF Checkpoint, Start
  <2>4. ShapingTypes' /\ VerifiedIdeaIsResearchable'
    BY <1>2, <2>2, <2>3, ShapingAssumption DEF ShapingTypes, Paced, RunType, VerifiedIdeaIsResearchable
  <2>5. UNCHANGED Shown
    BY <2>1, <2>2, <2>3 DEF Shown, Asked, Given, Ending
  <2> QED
    BY <1>2, <2>2, <2>4, <2>5 DEF ShapingStep, ShapingInv, InterviewStep, AnswersStep
<1>5. CASE FailIdea
  <2>1. run' = [run EXCEPT !.idea = "FAILED"] /\ run.idea = "RUNNING"
    BY <1>5 DEF FailIdea, Change
  <2>2. /\ run' \in RunType /\ run'.idea = "FAILED" /\ run'.attempt = run.attempt
        /\ run'.checkpoint = run.checkpoint
    BY <1>2, <2>1 DEF RunType, NodeStatus
  <2>3. Checkpoint' = Checkpoint
    BY <1>1, <2>2, CheckpointStays
  <2>4. ShapingTypes' /\ VerifiedIdeaIsResearchable'
    BY <1>2, <2>1, <2>2, <2>3 DEF ShapingTypes, Paced, Held, VerifiedIdeaIsResearchable
  <2>5. UNCHANGED Shown
    BY <2>1, <2>2, <2>3 DEF Shown, Asked, Given, Ending
  <2>6. AnswersStep
    BY <1>2, <2>3, CheckpointTyped, PrefixKept DEF AnswersStep
  <2> QED
    BY <1>2, <2>4, <2>5, <2>6 DEF ShapingStep, ShapingInv, InterviewStep
<1>6. CASE RetryIdea
  <2>1. run' = [run EXCEPT !.idea = "PENDING", !.checkpoint = 0] /\ run.idea \in {"FAILED", "BLOCKED"}
    BY <1>6 DEF RetryIdea, Change
  <2>2. run' \in RunType /\ run'.idea = "PENDING" /\ run'.checkpoint = 0
    <3>1. 0 \in 0 .. 2 * MaxRounds
      BY ShapingAssumption
    <3> QED
      BY <1>2, <2>1, <3>1 DEF RunType, NodeStatus
  <2>3. Checkpoint'.round = 0 /\ Checkpoint'.answers = <<>>
    BY <2>2 DEF Checkpoint, Start
  <2>4. ShapingTypes' /\ VerifiedIdeaIsResearchable'
    BY <1>2, <2>2 DEF ShapingTypes, Paced, VerifiedIdeaIsResearchable
  <2>5. Questions!Restart
    BY <2>1, <2>2, <2>3 DEF Questions!Restart, Asked, Given, Ending
  <2> QED
    BY <1>2, <2>2, <2>4, <2>5 DEF ShapingStep, ShapingInv, InterviewStep, AnswersStep, Questions!Next
<1> QED
  BY <1>3, <1>4, <1>5, <1>6

(* A call never writes to a file that the Snapshot refers to.              *)
LEMMA FreshName ==
  ASSUME ShapingInv, todo # <<>>, Head(todo).kind = "file"
  PROVE  /\ Head(todo).name # CheckpointFile(run.attempt, run.checkpoint)
         /\ run.idea = "VERIFIED" => Head(todo).name # IdeaFile(Last(run.refs))
<1>1. NextCheckpoint = CheckpointFile(run.attempt, run.checkpoint + 1) /\ run.checkpoint \in Nat
  BY CheckpointTyped, ShapingAssumption DEF NextCheckpoint, ShapingInv, ShapingTypes, RunType
<1>2. NextIdea = IdeaFile(run.defined + 1)
  BY DEF NextIdea
<1>3. CASE Checkpointing
  <2>1. Head(todo).name = NextCheckpoint /\ run.idea # "VERIFIED"
    BY <1>3, Tuples, Writes DEF Checkpointing, Follows
  <2> QED
    BY <1>1, <2>1, NamesDiffer
<1>4. CASE Concluding
  <2>1. Head(todo).name = NextIdea /\ run.idea # "VERIFIED"
    BY <1>4, Tuples, Writes DEF Concluding, Verifying, GivingUp
  <2> QED
    BY <1>2, <2>1, NamesDiffer
<1>5. CASE Blocking
  BY <1>5, Tuples, Writes DEF Blocking
<1>6. CASE Contracting
  <2>1. Head(todo) \in ContractWrites
    BY <1>6, HeadTailProperties DEF Contracting
  <2>2. PICK v \in Versions : Head(todo).name = ContractFile(v)
    BY <2>1, Writes DEF ContractWrites
  <2> QED
    BY <2>2, NamesDiffer
<1> QED
  BY <1>3, <1>4, <1>5, <1>6 DEF ShapingInv, TodoKnown

(* The files that the Snapshot refers to are among those it may.           *)
LEMMA ReferredNames ==
  ASSUME ShapingInv
  PROVE  /\ DOMAIN files = Names
         /\ run.checkpoint # 0 => CheckpointFile(run.attempt, run.checkpoint) \in Names
         /\ run.idea = "VERIFIED" => IdeaFile(Last(run.refs)) \in Names
<1>1. ASSUME run.checkpoint # 0 PROVE CheckpointFile(run.attempt, run.checkpoint) \in Names
  <2>1. run.attempt \in 1 .. MaxAttempts /\ run.checkpoint \in 1 .. 2 * MaxRounds + 2
    BY <1>1, ShapingAssumption DEF ShapingInv, ShapingTypes, RunType, Paced
  <2> QED
    BY <2>1, NamesDiffer
<1>2. ASSUME run.idea = "VERIFIED" PROVE IdeaFile(Last(run.refs)) \in Names
  <2>1. run.refs \in Seq(Versions) /\ run.refs # <<>>
    BY <1>2 DEF ShapingInv, ShapingTypes, RunType, VerifiedIdeaIsResearchable
  <2>2. Last(run.refs) \in Versions
    BY <2>1, LenProperties, EmptySeq DEF Last
  <2> QED
    BY <2>2 DEF IdeaFile, Names
<1> QED
  BY <1>1, <1>2 DEF ShapingInv, ShapingTypes, FileTypes

(* A write adds the file the rest of the call relies on, or ends the call. *)
LEMMA WriteStep ==
  ASSUME ShapingInv, WriteFile
  PROVE  ShapingStep
<1>1. PICK name : name = Head(todo).name
  OBVIOUS
<1>2. /\ run' = run /\ crashes' = crashes /\ todo # <<>> /\ Head(todo).kind = "file"
      /\ \/ /\ files' = [files EXCEPT ![name] = Head(todo).document] /\ todo' = Tail(todo)
         \/ files' = files /\ todo' = <<>>
  BY <1>1 DEF WriteFile
<1>3. /\ name # CheckpointFile(run.attempt, run.checkpoint)
      /\ run.idea = "VERIFIED" => name # IdeaFile(Last(run.refs))
  BY <1>1, <1>2, FreshName
<1>4. /\ run.checkpoint # 0 => files'[CheckpointFile(run.attempt, run.checkpoint)]
                                = files[CheckpointFile(run.attempt, run.checkpoint)]
      /\ run.idea = "VERIFIED" => files'[IdeaFile(Last(run.refs))] = files[IdeaFile(Last(run.refs))]
  BY <1>2, <1>3, ReferredNames
<1>5. DOMAIN files = Names /\ FileTypes' /\ run' \in RunType /\ SameIdea(run', run) /\ ContractWrites' = ContractWrites
  BY <1>2 DEF ShapingInv, ShapingTypes, FileTypes, SameIdea, ContractWrites
<1>6. /\ Checkpoint' = Checkpoint /\ NextCheckpoint' = NextCheckpoint /\ NextIdea' = NextIdea
      /\ Defined' = Defined /\ Ended' = Ended /\ GivenUp' = GivenUp
  BY <1>2, <1>4, CheckpointStays DEF NextCheckpoint, NextIdea, Defined, Ended, GivenUp, CheckpointFile, IdeaFile
<1>7. CASE todo' = <<>>
  BY <1>4, <1>5, <1>7, QuietStep, EmptySeq DEF TodoKnown, Contracting
<1>8. ASSUME files' = [files EXCEPT ![name] = Head(todo).document], todo' = Tail(todo) PROVE TodoKnown'
  <2>1. CASE Checkpointing
    <3>1. PICK d \in CheckpointType : Follows(d) /\ todo = <<File(NextCheckpoint, d), Save(Moved(d))>>
      BY <1>2, <2>1, Tuples, Writes DEF Checkpointing
    <3>2. NextCheckpoint \in Names
      <4>1. d.attempt \in 1 .. MaxAttempts /\ d.version \in 1 .. 2 * MaxRounds + 2
        BY ShapingAssumption DEF CheckpointType
      <4> QED
        BY <3>1, <4>1, NamesDiffer DEF Follows, NextCheckpoint
    <3>3. name = NextCheckpoint /\ todo' = <<Save(Moved(d))>> /\ files'[NextCheckpoint] = d
      BY <1>1, <1>5, <1>8, <3>1, <3>2, Tuples, Writes
    <3>4. Follows(d)' /\ (todo = <<Save(Moved(d))>>)' /\ (files[NextCheckpoint] = d)'
      BY <1>2, <1>6, <3>1, <3>3 DEF Follows, Moved
    <3> QED
      BY <3>4 DEF TodoKnown, Checkpointing
  <2>2. CASE Concluding
    <3>1. PICK d \in IdeaDefinitions :
            \/ Researchable(d) /\ todo = <<File(NextIdea, d), Save(Ended)>>
            \/ /\ Checkpoint.round = MaxRounds
               /\ todo = <<File(NextIdea, d), Save(Defined), Save(GivenUp)>>
      BY <1>2, <2>2, Tuples, Writes DEF Concluding, Verifying, GivingUp
    <3>2. run.idea = "RUNNING" /\ NextIdea \in Names
      BY <2>2 DEF Concluding
    <3>3. /\ name = NextIdea /\ files'[NextIdea] = d
          /\ \/ Researchable(d) /\ todo' = <<Save(Ended)>>
             \/ Checkpoint.round = MaxRounds /\ todo' = <<Save(Defined), Save(GivenUp)>>
      <4>1. Head(todo) = File(NextIdea, d)
        BY <3>1, Tuples
      <4>2. name = NextIdea /\ files'[NextIdea] = d
        BY <1>1, <1>5, <1>8, <3>2, <4>1, Writes
      <4>3. /\ Tail(<<File(NextIdea, d), Save(Ended)>>) = <<Save(Ended)>>
            /\ Tail(<<File(NextIdea, d), Save(Defined), Save(GivenUp)>>) = <<Save(Defined), Save(GivenUp)>>
        BY Tuples
      <4> QED
        BY <1>8, <3>1, <4>2, <4>3
    <3>4. /\ (run.idea = "RUNNING" /\ NextIdea \in Names)'
          /\ \/ Researchable(d)' /\ Verifying(d)'
             \/ (Checkpoint.round = MaxRounds)' /\ GivingUp(d)'
      BY <1>2, <1>6, <3>2, <3>3 DEF Researchable, Verifying, GivingUp, Names
    <3> QED
      BY <3>4 DEF TodoKnown, Concluding
  <2>3. CASE Contracting
    BY <1>2, <1>5, <1>8, <2>3, HeadTailProperties DEF TodoKnown, Contracting
  <2>4. CASE Blocking
    BY <1>2, <2>4, Tuples, Writes DEF Blocking
  <2> QED
    BY <2>1, <2>2, <2>3, <2>4 DEF ShapingInv, TodoKnown
<1> QED
  BY <1>2, <1>4, <1>5, <1>7, <1>8, QuietStep

(* A crash ends the call, and cuts off no file that the Snapshot refers to.*)
LEMMA CrashStep ==
  ASSUME ShapingInv, Crash
  PROVE  ShapingStep
<1>1. /\ run' = run /\ todo' = <<>> /\ crashes' \in 0 .. MaxCrashes /\ DOMAIN files' = DOMAIN files
  BY ShapingAssumption DEF Crash, ShapingInv, ShapingTypes, FileTypes
<1>2. /\ run.checkpoint # 0 => files'[CheckpointFile(run.attempt, run.checkpoint)]
                                = files[CheckpointFile(run.attempt, run.checkpoint)]
      /\ run.idea = "VERIFIED" => files'[IdeaFile(Last(run.refs))] = files[IdeaFile(Last(run.refs))]
  BY FreshName, ReferredNames DEF Crash, Idle
<1>3. TodoKnown' /\ FileTypes' /\ run' \in RunType /\ SameIdea(run', run)
  BY <1>1, EmptySeq DEF TodoKnown, Contracting, ShapingInv, ShapingTypes, FileTypes, SameIdea, Names
<1> QED
  BY <1>2, <1>3, QuietStep

(* A commit asks, takes an answer, concludes, or leaves the idea alone.    *)
LEMMA CommitStep ==
  ASSUME ShapingInv, Commit
  PROVE  ShapingStep
<1>1. /\ todo # <<>> /\ Head(todo).kind = "snapshot" /\ run' = Head(todo).run /\ todo' = Tail(todo)
      /\ UNCHANGED <<files, crashes>>
  BY DEF Commit
<1>2. FileTypes' /\ run \in RunType /\ ShapingTypes
  BY <1>1 DEF ShapingInv, ShapingTypes, FileTypes
<1>3. ASSUME todo' = <<>> PROVE TodoKnown'
  BY <1>3, EmptySeq DEF TodoKnown, Contracting
<1>4. CASE Checkpointing
  <2>1. PICK d \in CheckpointType :
          Follows(d) /\ todo = <<Save(Moved(d))>> /\ files[NextCheckpoint] = d
    BY <1>1, <1>4, Tuples, Writes DEF Checkpointing
  <2>2. run' = Moved(d) /\ todo' = <<>>
    BY <1>1, <2>1, Tuples, Writes
  <2>3. /\ run' \in RunType /\ run'.attempt = run.attempt /\ run'.checkpoint = d.version
        /\ run'.idea = IF run.idea = "RUNNING" THEN "WAITING_FOR_USER" ELSE "RUNNING"
        /\ run'.checkpoint # 0
    <3>1. d.version \in 0 .. 2 * MaxRounds /\ d.version # 0
      BY ShapingAssumption DEF CheckpointType
    <3> QED
      BY <1>2, <2>2, <3>1 DEF Moved, RunType, NodeStatus
  <2>4. Checkpoint' = d
    BY <1>1, <2>1, <2>3 DEF Checkpoint, Follows, NextCheckpoint, CheckpointFile
  <2>5. PICK c : c = Checkpoint
    OBVIOUS
  <2>6. /\ c.round \in Nat /\ c.answers \in Seq(Responses) /\ c.version \in Nat
        /\ d.round \in 1 .. MaxRounds /\ d.answers \in Seq(Responses)
    BY <1>2, <2>5, CheckpointTyped, ShapingAssumption DEF CheckpointType
  <2>7. CASE run.idea = "RUNNING"
    <3>1. /\ d.round = c.round + 1 /\ d.answers = c.answers /\ d.version = c.version + 1
          /\ d.attempt = run.attempt
          /\ c.version = 2 * c.round /\ Len(c.answers) = c.round
      BY <1>2, <2>1, <2>5, <2>7 DEF Follows, ShapingTypes, Paced
    <3>2. d.version + 1 = 2 * d.round /\ Len(d.answers) + 1 = d.round
      BY <2>6, <3>1
    <3>3. ShapingTypes' /\ VerifiedIdeaIsResearchable'
      BY <1>2, <2>3, <2>4, <2>7, <3>1, <3>2
      DEF ShapingTypes, Paced, Held, VerifiedIdeaIsResearchable
    <3>4. Questions!Ask
      BY <2>3, <2>4, <2>5, <2>6, <2>7, <3>1, ShapingAssumption DEF Questions!Ask, Asked, Given, Ending
    <3>5. AnswersStep
      BY <2>4, <2>5, <2>6, <3>1, PrefixKept DEF AnswersStep
    <3> QED
      BY <1>3, <2>2, <3>3, <3>4, <3>5 DEF ShapingStep, ShapingInv, InterviewStep, Questions!Next
  <2>8. CASE run.idea = "WAITING_FOR_USER"
    <3>1. PICK r \in Responses : d.answers = Append(c.answers, r)
      BY <2>1, <2>5, <2>8 DEF Follows
    <3>2. /\ d.round = c.round /\ d.version = c.version + 1 /\ d.attempt = run.attempt
          /\ c.version + 1 = 2 * c.round /\ Len(c.answers) + 1 = c.round
      BY <1>2, <2>1, <2>5, <2>8 DEF Follows, ShapingTypes, Paced
    <3>3. Len(d.answers) = Len(c.answers) + 1 /\ IsPrefix(c.answers, d.answers)
      BY <2>6, <3>1, AppendProperties, PrefixKept
    <3>4. ShapingTypes' /\ VerifiedIdeaIsResearchable'
      BY <1>2, <2>3, <2>4, <2>8, <3>2, <3>3
      DEF ShapingTypes, Paced, Held, VerifiedIdeaIsResearchable
    <3>5. Questions!Answer
      BY <2>3, <2>4, <2>5, <2>6, <2>8, <3>2, <3>3 DEF Questions!Answer, Asked, Given, Ending
    <3>6. AnswersStep
      BY <2>4, <2>5, <3>3 DEF AnswersStep
    <3> QED
      BY <1>3, <2>2, <3>4, <3>5, <3>6 DEF ShapingStep, ShapingInv, InterviewStep, Questions!Next
  <2> QED
    BY <2>1, <2>7, <2>8 DEF Follows
<1>5. ASSUME run.idea = "RUNNING", run'.attempt = run.attempt, run'.checkpoint = run.checkpoint,
             run' \in RunType
      PROVE  /\ Checkpoint' = Checkpoint /\ AnswersStep
             /\ run'.idea \in {"RUNNING", "VERIFIED", "BLOCKED"} => ShapingTypes'
             /\ Asked' = Asked /\ Given' = Given /\ Asked = Given
  <2>1. Checkpoint' = Checkpoint
    BY <1>1, <1>5, CheckpointStays
  <2>2. AnswersStep
    BY <1>2, <2>1, CheckpointTyped, PrefixKept DEF AnswersStep
  <2> QED
    BY <1>2, <1>5, <2>1, <2>2 DEF ShapingTypes, Paced, Held, Asked, Given
<1>6. CASE Concluding
  <2>1. PICK d \in IdeaDefinitions :
          \/ Researchable(d) /\ todo = <<Save(Ended)>> /\ files[NextIdea] = d
          \/ Checkpoint.round = MaxRounds /\ todo = <<Save(Defined), Save(GivenUp)>>
    BY <1>1, <1>6, Tuples, Writes DEF Concluding, Verifying, GivingUp
  <2>2. run.idea = "RUNNING" /\ run.defined + 1 \in Versions
    BY <1>6, NamesDiffer DEF Concluding, NextIdea
  <2>3. Append(run.refs, run.defined + 1) \in Seq(Versions)
        /\ Append(run.refs, run.defined + 1) # <<>>
        /\ Last(Append(run.refs, run.defined + 1)) = run.defined + 1
    BY <1>2, <2>2, AppendProperties DEF RunType, Last
  <2>4. PICK v, s : v = run.defined + 1 /\ s = Append(run.refs, v)
    OBVIOUS
  <2>5. Defined = [run EXCEPT !.defined = v, !.refs = s]
    BY <2>4 DEF Defined
  <2>6. /\ Defined \in RunType /\ Defined.idea = "RUNNING" /\ Defined.attempt = run.attempt
        /\ Defined.checkpoint = run.checkpoint /\ Defined.refs = s
    BY <1>2, <2>2, <2>3, <2>4, <2>5 DEF RunType
  <2>7. CASE Researchable(d) /\ todo = <<Save(Ended)>> /\ files[NextIdea] = d
    <3>1. run' = [Defined EXCEPT !.idea = "VERIFIED"] /\ todo' = <<>>
      BY <1>1, <2>7, Tuples, Writes DEF Ended
    <3>2. /\ run' \in RunType /\ run'.idea = "VERIFIED" /\ run'.attempt = run.attempt
          /\ run'.checkpoint = run.checkpoint /\ run'.refs = s
      BY <2>6, <3>1 DEF RunType, NodeStatus
    <3>3. Definition' = d
      BY <1>1, <2>3, <2>4, <2>7, <3>2 DEF Definition, NextIdea, IdeaFile
    <3>4. VerifiedIdeaIsResearchable'
      BY <2>3, <2>4, <2>7, <3>2, <3>3, FileAssumption DEF VerifiedIdeaIsResearchable, Researchable
    <3>5. Questions!Conclude
      BY <1>5, <2>2, <3>2 DEF Questions!Conclude, Ending
    <3> QED
      BY <1>3, <1>5, <2>2, <3>1, <3>2, <3>4, <3>5
      DEF ShapingStep, ShapingInv, InterviewStep, Questions!Next
  <2>8. CASE Checkpoint.round = MaxRounds /\ todo = <<Save(Defined), Save(GivenUp)>>
    <3>1. run' = Defined /\ todo' = <<Save(GivenUp)>>
      BY <1>1, <2>8, Tuples, Writes
    <3>2. GivenUp = [run' EXCEPT !.idea = "BLOCKED"]
      BY <3>1 DEF GivenUp
    <3>3. Checkpoint' = Checkpoint /\ run'.idea = "RUNNING"
      BY <1>5, <2>2, <2>6, <3>1
    <3>4. Blocking'
      BY <2>8, <3>1, <3>2, <3>3 DEF Blocking
    <3>5. UNCHANGED Shown /\ VerifiedIdeaIsResearchable'
      BY <1>5, <2>2, <2>6, <3>1, <3>3 DEF Shown, Ending, VerifiedIdeaIsResearchable
    <3> QED
      BY <1>5, <2>2, <2>6, <3>1, <3>3, <3>4, <3>5 DEF ShapingStep, ShapingInv, TodoKnown, InterviewStep
  <2> QED
    BY <2>1, <2>7, <2>8
<1>7. CASE Blocking
  <2>1. run.idea = "RUNNING" /\ Checkpoint.round = MaxRounds /\ run' = [run EXCEPT !.idea = "BLOCKED"] /\ todo' = <<>>
    BY <1>1, <1>7, Tuples, Writes DEF Blocking
  <2>2. /\ run' \in RunType /\ run'.idea = "BLOCKED" /\ run'.attempt = run.attempt
        /\ run'.checkpoint = run.checkpoint
    BY <1>2, <2>1 DEF RunType, NodeStatus
  <2>3. Questions!Conclude
    BY <1>5, <2>1, <2>2 DEF Questions!Conclude, Ending, Asked
  <2> QED
    BY <1>3, <1>5, <2>1, <2>2, <2>3
    DEF ShapingStep, ShapingInv, InterviewStep, Questions!Next, VerifiedIdeaIsResearchable
<1>8. CASE Contracting
  <2>1. Head(todo) \in ContractWrites /\ Tail(todo) \in Seq(ContractWrites)
    BY <1>1, <1>8, HeadTailProperties DEF Contracting
  <2>2. run' \in RunType /\ SameIdea(run', run)
    BY <1>1, <2>1, Writes DEF ContractWrites
  <2>3. ContractWrites' = ContractWrites
    BY <2>2 DEF ContractWrites, SameIdea
  <2>4. TodoKnown'
    BY <1>1, <2>1, <2>3 DEF TodoKnown, Contracting
  <2> QED
    BY <1>1, <1>2, <2>2, <2>4, QuietStep
<1> QED
  BY <1>4, <1>6, <1>7, <1>8 DEF ShapingInv, TodoKnown

-----------------------------------------------------------------------------
(* The invariant holds in every state, and every step is one of shaping.   *)
LEMMA ShapingAlways == Spec => [](ShapingInv) /\ [][ShapingStep]_vars
<1>1. Init => ShapingInv
  <2> SUFFICES ASSUME Init PROVE ShapingInv
    OBVIOUS
  <2>1. run \in RunType /\ run.idea = "PENDING" /\ run.checkpoint = 0
    <3>1. 0 \in 0 .. 2 * MaxRounds /\ 0 \in 0 .. MaxAttempts /\ <<>> \in Seq(Versions)
      BY ShapingAssumption
    <3> QED
      BY <3>1 DEF Init, RunType, NodeStatus
  <2>2. FileTypes
    BY ShapingAssumption DEF Init, FileTypes
  <2>3. TodoKnown
    BY EmptySeq DEF Init, TodoKnown, Contracting
  <2> QED
    BY <2>1, <2>2, <2>3 DEF ShapingInv, ShapingTypes, Paced, VerifiedIdeaIsResearchable
<1>2. ShapingInv /\ Next => ShapingStep
  BY CallStep, NodeStep, WriteStep, CrashStep, CommitStep DEF Next, Advance, Respond
<1>3. ShapingInv /\ UNCHANGED vars => ShapingInv'
  <2> SUFFICES ASSUME ShapingInv, UNCHANGED vars PROVE ShapingInv'
    OBVIOUS
  <2>1. run' = run /\ files' = files /\ todo' = todo /\ crashes' = crashes
    BY DEF vars, callVars
  <2>2. run' \in RunType /\ SameIdea(run', run)
    BY <2>1 DEF ShapingInv, ShapingTypes, SameIdea
  <2>3. FileTypes'
    BY <2>1 DEF ShapingInv, ShapingTypes, FileTypes
  <2>4. /\ Checkpoint' = Checkpoint /\ NextCheckpoint' = NextCheckpoint
        /\ NextIdea' = NextIdea /\ ContractWrites' = ContractWrites
    BY <2>1 DEF Checkpoint, Start, CheckpointFile, NextCheckpoint, NextIdea, IdeaFile, ContractWrites, SameIdea
  <2>5. ASSUME Checkpointing PROVE Checkpointing'
    BY <2>1, <2>4, <2>5 DEF Checkpointing, Follows, Moved
  <2>6. ASSUME Concluding PROVE Concluding'
    BY <2>1, <2>4, <2>6 DEF Concluding, Researchable, Verifying, GivingUp, Ended, GivenUp, Defined
  <2>7. ASSUME Blocking PROVE Blocking'
    BY <2>1, <2>4, <2>7 DEF Blocking
  <2>8. ASSUME Contracting PROVE Contracting'
    BY <2>1, <2>4, <2>8 DEF Contracting
  <2>9. TodoKnown'
    BY <2>5, <2>6, <2>7, <2>8 DEF ShapingInv, TodoKnown
  <2> QED
    BY <2>1, <2>2, <2>3, <2>9, QuietStep DEF ShapingStep
<1>4. ShapingInv /\ [Next]_vars => ShapingInv'
  BY <1>2, <1>3 DEF ShapingStep
<1>5. ShapingInv /\ [Next]_vars => [ShapingStep]_vars
  BY <1>2
<1> QED
  BY <1>1, <1>4, <1>5, PTL DEF Spec

\* The Snapshot, and the Checkpoint it refers to, are of their types: an
\* Attempt never has more rounds than the limit.
THEOREM TypeCorrect == Spec => []TypeOK
<1>1. ShapingInv => TypeOK
  BY DEF ShapingInv, ShapingTypes, RunType, FileTypes, Paced, Held, TypeOK
<1> QED
  BY <1>1, ShapingAlways, PTL

\* A verified idea has an Idea Definition of its Attempt from which research
\* questions can be made, whatever crashed or was found insufficient before.
THEOREM VerifiedIdeaIsResearchableCorrect == Spec => []VerifiedIdeaIsResearchable
<1>1. ShapingInv => VerifiedIdeaIsResearchable
  BY DEF ShapingInv
<1> QED
  BY <1>1, ShapingAlways, PTL

\* Idea shaping implements Interview: questions and answers alternate within
\* the limit, and only the last answer can end in an insufficient idea.
THEOREM InterviewImplemented == Spec => ImplementsInterview
<1>1. Init => Questions!Init
  BY DEF Init, Questions!Init, Asked, Given, Ending, Checkpoint, Start
<1>2. [ShapingStep]_vars => [Questions!Next]_<<Asked, Given, Ending>>
  <2>1. ShapingStep => [Questions!Next]_<<Asked, Given, Ending>>
    BY DEF ShapingStep, InterviewStep, Shown
  <2>2. UNCHANGED vars => UNCHANGED <<Asked, Given, Ending>>
    BY DEF vars, callVars, Asked, Given, Ending, Checkpoint, Start, CheckpointFile
  <2> QED
    BY <2>1, <2>2
<1> QED
  BY <1>1, <1>2, ShapingAlways, PTL DEF Spec, ImplementsInterview, Questions!Spec

\* No accepted answer of an Attempt is lost or rewritten.
THEOREM AnswersKeptCorrect == Spec => AnswersKept
<1>1. ShapingStep => AnswersStep
  BY DEF ShapingStep
<1> QED
  BY <1>1, ShapingAlways, PTL DEF AnswersKept, AnswersStep
=============================================================================
