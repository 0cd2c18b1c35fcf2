# A formal model of the SkillGraph Runtime

The repository holds the contracts of a product-discovery workflow and the
*SkillGraph Runtime* (`src/skillgraph_runtime/`), a Python library that executes
one **Run** of such a workflow: it schedules nodes, hands *Attempts* to
Executors, asks the user through *Human Gates* and questions, and commits after
every operation an immutable *RunSnapshot* with a new `state_version`. This
directory models it in TLA+, checks it with TLC on small instances and proves
with TLAPS, for every value of the constants, every safety property that it checks.

Paths below are relative to `src/skillgraph_runtime/` unless they say otherwise.

## 1. Inventory

| part | state it keeps | operations | what makes it correct |
|---|---|---|---|
| Scheduler (`scheduler.py`) | none: a pure function of Snapshot and Bundle | `schedule_snapshot`: settle all nodes, start Attempts, derive the Run's status | dependencies, conditions and Subgraphs are settled before slots are filled; the quota; a driven Run ends |
| Runtime state (`runtime_state.py`, `error_policy.py`) | none: Snapshot to Snapshot | Executor results, failures, interactions, Gates, External Inputs | a result reaches only the Attempt it is of; a waiting node can be served; retry and cycle limits |
| Attempts (`attempts.py`) | the Attempt log in the Snapshot | plan, reuse by input fingerprint, resume | one live Attempt per node, append-only log |
| Invalidation (`invalidation.py`) | none | `invalidate_downstream`, `resume_invalidated` | exactly the dependents become stale, nothing points to them any more |
| Transitions (`transitions.py`) | none | tables of node, Workflow and Attempt statuses | the Attempt table is an abstract specification here |
| Kernel (`kernel.py`) | none between calls: loads, computes, persists | every operation above, run control, retry, Research Gap, aggregation | each operation is one commit |
| Storage (`storage.py`) | files of the Run: Manifest, states, Event and Decision logs, Artifacts, idempotency ledger | `commit_snapshot`, `append_event`, `append_decision`, `load_snapshot`, `recover` | after a crash the last committed state is found and can be continued |
| Operations (`operations.py`, `adapters.py`, `cli.py`) | the idempotency ledger (in storage) | compare-and-set mutation envelopes, adapter execution | a repeated call has its effect once |
| Bundle compilation (`graph.py`, `bundles.py`) | none | compile a Contract Bundle to graphs | acyclic, conditions name dependencies |
| Executor boundary (`executor.py`) | none | validate a result on the wire | a result names a running node's own Attempt |
| Idea shaping (`idea_shaping.py`) | Checkpoints as files, Idea Definitions as Artifacts | ask, answer, conclude; the Research Contract | rounds are bounded, answers kept, a verified idea can be researched |
| Competitor research (`competitor_research.py`) | Artifacts of a Subgraph, its fan-out in the Snapshot | discover, rank, fan out, dive, normalise, analyse, project | one selection per Projection; research ends |
| Research Gap (`research_gap.py`) | Gap Artifacts, the cycle count | plan, invalidate, resume, restart | repeated is what was planned; what is repeated starts or is offered its earlier result |
| Integration of Contract 0.3.2 (`runtime_integration.py`) | Manifest entries, receipts, Artifacts, assets | staged commits of charts, publication projection, report, score; validation in `load_run` | once per key; the same call finishes what a crash cut short, torn files apart; the Run stays loadable |
| Report publisher (`report_publisher.py`) | version directories, the current pointer, records | publish, replay | Reports form one line, complete or absent |
| Publication projection, charts, provenance (`publication_projection.py`, `chart_rendering.py`, `fact_provenance.py`) | none | pure functions over research records | what is shown is supported; no later rule refuses what an earlier one admitted |
| Scoring (`scoring.py`) | none | verify, aggregate, rank | arithmetic at thresholds, ties, agreement of ranks |

**How they interact.** Everything goes through the Kernel: an operation loads
the committed Snapshot, a pure function of `scheduler`, `runtime_state`,
`attempts` or `invalidation` computes the next one, `_persist` validates it
against the wire schema and commits it. The business services (idea shaping,
competitor research, Research Gap) are hosts of the Kernel: one call of theirs
is several Kernel operations, each a commit. The staged integration and the
Report publisher write files of their own before, or beside, the commit. There are no threads; concurrency is
that of the callers: Executors, hosts and the user work on several Attempts at
a time and their calls arrive in any order, late or twice. The hard behaviours
are therefore orders of calls nobody tested, the agreement of several records
(node state, Attempt log, pointers to the current Gate and question), limits,
and the crash between the files of one commit or the commits of one call. `PROJECT.json` lists each such
hazard at its line.

## 2. Modules

| module | models |
|---|---|
| `RunKernel` | the Snapshot of one Run and every operation that replaces it |
| `AttemptLedger` | the abstract promise of the Attempt log; `RunKernel` implements it |
| `MCRunKernel` | the Workflows TLC checks, cut from `contracts/0.3.0/workflow.yaml` |
| `RunKernelProofs` | types, agreement of nodes and Attempts, Attempt counts, the refinement of `AttemptLedger`; where the scheduling loop ends |
| `DependencyProofs` | dependency closure, backing of verified nodes, current inputs; what a scheduling call starts; Gate records and waits |
| `RunStorage` | the directory of one Run, every durable write of a commit, crash, recovery |
| `RunOperations` | envelopes, the idempotency ledgers and the host's own mutations over `RunStorage` |
| `RunHistory` | what the directory promises; `RunOperations` implements it |
| `MCRunOperations` | the instances TLC checks of it |
| `StorageProofs` | types of the directory, the refinement of `RunHistory`, readability; effect once, linked Decisions, complete audit trail, complete sources |
| `HostCalls` | how a business service writes: files refused where they exist, then commits, with a crash between any two |
| `IdeaShaping` | the rounds, Checkpoints and results of idea shaping, over `HostCalls` |
| `Interview` | what idea shaping promises; `IdeaShaping` implements it |
| `CompetitorResearch` | the Competitor Subgraph and its fan-out, over `HostCalls` |
| `ResearchGap` | branches, verification and gap cycles, composed with `CompetitorResearch` |
| `RuntimeIntegration` | the four staged commits, write by write, with retry, invalidation and `load_run` |
| `ReportPublisher` | publish and replay of the Report store, every read and write a step |
| `ReportLineage` | what the Report store promises; `ReportPublisher` implements it |
| `ReportAssembly` | which facts and charts three modules admit to a Report |
| `TransparentScoring` | Judgments, aggregation, ranks, over `ReportAssembly` |
| `MCIdeaShaping`, `MCResearchGap`, `MCRuntimeIntegration`, `MCReportPublisher`, `MCTransparentScoring` | the instances TLC checks of these |
| `IdeaShapingProofs` | types, verified ideas, the refinement of `Interview`, answers kept |
| `ResearchGapProofs` | types, one selection per Projection, what a cycle repeats |
| `RuntimeIntegrationProofs` | types, once per key, loadability, which interrupted calls can finish |
| `ReportPublisherProofs` | types, complete publication, nothing claimed early, the refinement of `ReportLineage` |
| `ReportAssemblyProofs` | what a Report shows is supported, when it can be published, ranks agree |

### State of RunKernel

`status`, `active_attempt`, `attempt_count`, `artifact_refs` and `gate_decision`
are the fields of `NodeState`. A Subgraph child that has no entry in
`node_states` yet is `ABSENT`. `attempts` is the Attempt log per node; the
ordinal replaces the Attempt id, 0 stands for no active Attempt. `inputs` and
`contract` of an Attempt are what its input fingerprint distinguishes.
`current_gate`, `gate_request` and `gate_modification` are `current_gate` and
the two references saved for a Gate (of which the model remembers the node they
were saved for), `current_interaction` the open question. An Artifact is named
by the Attempt that wrote it and whether it was written before or with the
completion; ordinal 0 is an external proof.

Left out: Artifact contents, permissions, token and cost budgets (time alone
pauses a Run: `budget_exhausted`), messages, timestamps, the audit logs.
`verification_result` and `feasibility_result` are never set by an operation,
so predicates on them are never decided; the Run status COMPLETED is never set
by one either. Both are in the types and nothing reaches them.

### Actions

One action is one Kernel operation, from load to commit.

* `Schedule`, `ScheduleOutOfTime`: `schedule_persisted`. The loop over the sorted
  nodes is `Settle`, the fixed point of `Round`. The code's loop moves a node as
  soon as it reads it; every move depends monotonically on the others, so
  deciding all nodes at once ends at the same place (`VisitsEndAtSettle`, section 4).
  `Schedule` also states the loop's exit test, which most proofs about a
  scheduling call use; by `LoopEnds` it excludes no call.
* `CompleteBusiness`, `ApplyCompleted`, `ApplyFailed`, `RequestInteraction`,
  `AnswerInteraction`, `OpenManualWait`, `ResumeManual`, `WriteArtifact`: the
  Executor's side. The guard `Active` is what `executor.py` and
  `apply_executor_result` ask of a result.
* `OpenGate`, `SubmitGateDecision`, `ModifyGate`, `SubmitProof`: the user's side.
* `PauseRun`, `ResumeRun`, `CancelRun`, `RetryNode`, `InvalidateDownstream`,
  `ResumeInvalidated`: control.

`WireValid'` in `Next` is the validation in `_persist`: an operation whose
Snapshot breaks the schema's rule on open questions raises and commits nothing.

### State and actions of RunStorage and RunOperations

`RunKernel` takes a commit for one step; these two modules take it apart, and
leave to `RunKernel` what the Snapshots contain. A Snapshot is the sequence of
the mutations it was computed from, so that two Snapshots of one version can be
told apart and its `state_version` is its length. `snapshots`, `state_file`,
`manifest`, `events`, `decisions`, `side` are the files under `runtime/`;
`torn_logs` are the logs whose last line is cut off. `side` holds the files
that are named by a version and written ahead of its commit: the creation
identity, the Source Index (an operation that writes Research Provenance too
treats that file by the same rules), Gate requests and modifications.
`created` and `ledger` are the two idempotency logs, `envelope` the
`expected_state_version` a client put into the envelope of a request, `answer`
what it was last told.

There is one writer per Run (`storage.py:1-8`, `SPEC_v0.2.md:3072`), `at` is its
next durable write, in the order of `_persist` and `commit_snapshot`:

    side -> tail -> audit* -> [decide] -> snapshot -> state -> manifest [-> ... -> ledger]

A request goes through the last steps twice: `record_persisted_operation_result`
commits the loaded Snapshot again with an Event of its own before the ledger is
written. `Crash` may strike before each write, and with `TornWrites` inside it:
files written in place and appended lines may be cut off, files replaced
atomically (`state.json`, the Manifest) are not. A cut off file *exists*, which
is all that `commit_snapshot` asks; a cut off log line makes every reader of the
log fail, so what needs it is refused. `Recover` is `recover_run`.

Left out: Artifact and asset files and mutation receipts (immutable, of their
own names): they decide whether a retried operation may proceed, not what a
commit does, and are in `HostCalls` and `RuntimeIntegration`; read-only operations.

### Business services: HostCalls, IdeaShaping, CompetitorResearch, ResearchGap

A call of a service computes from one Snapshot all that it will write (`todo`)
and then writes it, file by file and commit by commit; `WriteFile`, `Commit` and
`Crash` of `HostCalls` are the steps. A file whose name is taken is refused and
ends the call, as `_write_immutable_json` does: each of these documents carries
the time of its call, so the one that exists is never the same. `run` is the
part of the Snapshot the service reads.

* `IdeaShaping`: a hypothesis is what the completion check sees of it (how clear
  each dimension is, unknowns, a critical assumption, a research seed);
  `Proposals` are what the Host LLM may return, at any time. `AdvanceIdea` merges
  a proposal, concludes or asks again; `SubmitResponse` is the user's answer.
  `run.refs` are the versions of the Idea Definition the node carries,
  `run.defined` that of the Manifest. `ImplementsInterview` maps questions and
  answers of the effective Checkpoint to `Interview`.
* `CompetitorResearch`: nodes are pairs of a name and an instance; the Deep Dives
  are `ABSENT` until `FannedOut` makes them. One action per node's part of
  `advance`; `Obstructed` names every place where the code stops for good.
  `NextVersion` is the version rule of `_artifact_header`, which looks at the
  node's refs only. `PENDING` stands for PENDING, READY and RETRY_READY: a node is
  scheduled once its dependencies are verified, *unless* an Attempt of it was
  verified on the same inputs (`plan_attempt`). `run.inputs` are the Artifacts its
  Attempt was started on, which is what varies of its fingerprint, `run.reusable` the pairs
  that were verified once, which an invalidation does not erase. Such a node stays
  ready as a `verified_reuse_candidate` (`Offered`).
* `ResearchGap` adds the other branches (`Plain`), the verifier and the gap node.
  `AdvanceGap` is one commit for Artifact, cycle and invalidation, and up to three
  that resume and start what was planned; a planned branch starts only if it is
  `Startable`. The branches, and the discovery in the Subgraph, read what is
  verified above them: `InputsAt`. The Container is no executable node and is never
  offered anything. Left out: proposals its checks refuse.

### Reports: RuntimeIntegration, ReportPublisher, ReportAssembly, TransparentScoring

* `RuntimeIntegration`: `current` is `current_artifacts` of the Manifest; `receipts`,
  `artifacts`, `assets` are the immutable files of a staged commit, in the order
  `BindReceipt`, `WriteArtifact`, `WriteAssets`, `Commit`. A document is its request
  (`request_hash` covers all it is computed from), a reference is type, identity
  and version as `_header` computes them. `Loadable` is
  `validate_staged_runtime_resume`, a guard of every operation because `load_run`
  runs it. `committed` is a history variable. Nodes above the charts are
  verified and stay so, `fact_provenance` apart.
* `ReportPublisher`: `bundles` are the version directories, `pointer` is
  `runtime/current-report.json`, `records` the publications by key, `staging` what a
  caller has staged. Several publishers interleave at every read and write
  (nothing is locked); a rename may be denied and tried again. `lineage` is a
  history variable for the refinement.
* `ReportAssembly`: `records` are Evidence, Claims and Sources as research wrote them,
  whose two directions need not agree; `charts` any collection that
  `chart_rendering.py` admits. A Source is `citable` if it has the HTTP(S) URL and
  the citation metadata a reference needs; the schema asks for neither. A call that is refused changes nothing.
* `TransparentScoring`: a Judgment is a score with its Claims and Evidence, or none;
  `CommitScore` commits one competitor from the Judgments handed over. Weights
  are tenths, means twentieths: exact, where the code uses decimals. A sum of scores
  counts points, and the sorted outcomes are *the* sequence in the order of the
  sort key (which ends with the competitor's id, so there is one): both say what
  the code's `sum` and `sorted` return, in a form the provers can expand.

## 3. What TLC checks

Each run takes from seconds to about two minutes on one machine.

| run | instance | properties |
|---|---|---|
| `research` | interactive root, Subgraph of two children beside a plain skill, a join; failures, retries, invalidation of two nodes, host-written Artifacts; two slots | `DependencyClosure`, `InputsCurrent`, `VerifiedIsBacked`, `StartsLast`, `ImplementsLedger` |
| `gates` | two Gates in a row, a branch on the first decision (`any_of`), an External Input, a node with a terminal event; MODIFY, CANCEL, invalidation | `GateRecordsAgree` |
| `team` | three skills, one slot, every ErrorAction, all adapters, late Artifacts, exhausted time | `TypeOK`, `NodeAttemptAgreement`, `AttemptsCounted`, `WaitsAreAnswerable`, `StartsWithinQuota` |
| `driver` | one node of each kind, driven fairly | `Finishes` |
| `storage` | five mutations, one of each shape (a plain request, one with a Decision, a Gate, an Artifact with sources, a staged completion with two Events), two versions, two crashes, torn writes | `TypeOK`, `ImplementsHistory`, `AppliedOnce`, `AuditComplete`, `DecisionsLinked`, `SourcesComplete` |
| `shaping` | two rounds, two Attempts, a proposal with an anchor, the value and a first mechanism, one that takes the anchor back for unknowns, one that adds nothing; a crash with torn files | `TypeOK`, `VerifiedIdeaIsResearchable`, `ImplementsInterview`, `AnswersKept`, `ShapingEnds` |
| `pipeline` | three provider results (enough, too few and one-sided, an unsourced candidate), two selected, two analyses, two other branches, two issues, one host retry, two crashes | `TypeOK`, `ProjectionOfOneSelection`, `RetriedAsPlanned`, `RetryStartsOrIsOffered`, `ResearchEnds` |
| `integration` | three keys, two contents, two Attempts, two versions, invalidation of what depends on the facts or on the charts, a crash with torn files | `TypeOK`, `CommittedLoadable`, `OnceOnly`, `InterruptedFinishesUnlessTorn` |
| `publication` | two publishers, two first and two second versions with a shared key, denied renames, a crash with torn records | `TypeOK`, `PublishedComplete`, `NothingClaimedEarly`, `ImplementsLineage`, `PublicationGoesOn` |
| `assembly` | all record graphs over two Claims, two Evidence records and two Sources, citable or not, all collections over three chart types; three competitors with ten Judgment sheets around the thresholds | `ReportSupported`, `PublishedExactlyWhen`, `RanksAgree` |
| `unloadable_score` | violates `CommittedLoadable`: invalidation of `scoring` | |
| `retry_refused` | violates `RetriesCanWrite`: a repeated competitor branch | |

The two violating runs are disagreements of the code with its documents;
`PROJECT.json` quotes both sides under `findings`, section 5 has them all.

**Bounds.** Of the Kernel: `MaxAttempts = 2` Attempts per node: one retry or one recomputation
after an invalidation, which is where old and new Attempts can be confused; a
third adds no new pair. A call that would start a further Attempt is disabled,
nothing else is. Slots are one or two, so that they run out. Each host-written
Artifact is written once per Attempt. `Requests` are all nodes or one of them.
The Workflows have three to nine nodes: every shape of the 0.3.0 Workflow
(chain, branch, join, Subgraph, conditional node, Gate, External Input) occurs
in one of them, never all with all operations at once. Without symmetry: the
nodes differ. In `storage`, `MaxVersion = 2` gives a creation, a mutation on it and one
on the result, which is all a leftover file can meet: it is of the next version
and either adopted or refused by the commit of that version. `MaxCrashes = 2`
lets a retry be interrupted too.

`shaping` needs two rounds to see an answer of an earlier round kept and the limit
met on a round that is not the first; two Attempts let files of a failed one
meet the next. In `pipeline` three candidates for two places make a tie and a
rejected one; of two other branches a Gap can name one, both or none, and the
limit of two cycles is never met: after one Gap every named branch is offered
its old result or finds its Artifact's name taken, so no second verification comes about
(section 5). In
`integration` two versions and two Attempts give each reference a successor and
each file a leftover; the third key is needed to commit a report after the
charts and the projection under keys of their own. In `publication` two callers
are what a race takes; `CommitAttempts = 2` (`_DIRECTORY_COMMIT_ATTEMPTS = 5` in `report_publisher.py:42`) is one denial that is retried
and one that is final. In `assembly` two Claims with two Evidence records are
what it takes for the directions of a record to disagree; the sheets hold a mean
of seven over four and over five dimensions, one twentieth beside it, coverage
below the threshold and each kind of refused Judgment. `MaxScores = 2`: the
property compares two scores. `MCTransparentScoring` varies the records or the
Judgments, not both, as scores read the projection and change nothing in it.

**Symmetry** in `integration` alone: keys and contents are only compared, and the
run has no liveness property.

**Deadlock.** `CHECK_DEADLOCK FALSE` everywhere but in `publication`, where someone can
always call again: a cancelled or finished Run, or one whose
Attempts within the bound are used up, really stops; so does a Run whose
directory can no longer be read, or that has reached the bound on versions, an
interview that has ended, research that is done or stopped, and a Report that
is published and has no call left within the bounds.

**Fairness** is assumed in `driver`, `shaping`, `pipeline` and `publication`. `DriverSpec` is a Run nobody
intervenes in: the host calls `schedule` for all nodes while that changes
anything, every question, Gate, External Input and parked Attempt is eventually
answered (weak fairness: each stays enabled until it is), and an Executor whose
Attempt keeps being started eventually completes one (strong fairness: failures
interrupt it). Failures are not forced; with `MaxRetriesPerNode = 1` they may
exhaust a node's retries, and then the Run rests with that node `BLOCKED`.

`FairSpec` of `IdeaShaping` and `ResearchGap`: a call that has begun runs to its end
unless it crashes (weak fairness of `WriteFile` and `Commit`: it is sequential
code), the host advances what is running, resumes and schedules again and again
(that is its loop), and the user answers an open question in the end. Failures,
retries, invalidation, crashes, and what the provider proposes are not forced. The
limit of rounds is what ends an interview whose provider never learns anything.
`FairSpec` of `ReportPublisher`: a call goes on (weak), a rename that is tried for
ever is not denied for ever (strong; the comment of `_commit_staging_directory`
calls the denial transient), and a caller who wants a publication asks again
(strong, because the call is not enabled while others are busy).

**What the storage runs show together.** The committed state is always some whole
history of mutations (`ImplementsHistory`), each request is in it at most once
(`AppliedOnce`), and its audit trail is complete (`AuditComplete`); but it need
not be the history the clients were told of, a client whose answer was lost is
told of a conflict, and where a crash may cut off a file a Run can be committed
out of reach (section 5).
`ImplementsHistory` allows for the last by `RunHistory!Break`. `SourcesComplete`
is about readable indexes and says nothing of sources listed too many: those of
a crashed mutation can appear.

**Scope of some properties.** `GateRecordsAgree` and the Gate part of
`WaitsAreAnswerable` hold where Gates follow each other, as in the shipped
Workflows; of two Gates waiting at once the scheduler makes the first declared
current while the saved request is the other's. `InputsCurrent` excludes hosts
that write Artifacts of finished Attempts, and entry nodes of a Subgraph, which
read the whole Run. `ResearchEnds`, `ShapingEnds` and `PublicationGoesOn` name the
places where the code stops for good (`Obstructed`, `Orphaned`) and say that it
stops nowhere else: in research an Artifact whose name is taken, a lost
fan-out, a candidate without sources, and a node that is only offered its earlier
result. `RetryStartsOrIsOffered` says of a repeated branch which of the two ends it
comes to. `InterruptedFinishesUnlessTorn` says of a whole Artifact a crash has
left that its call finishes exactly when its assets are not torn, and of a torn
Artifact that no call for its reference does; a torn receipt costs its key alone,
since the document it is for was not written and another key starts afresh. `RanksAgree` compares scores committed over the same
Judgments only.

## 4. What is proved

Of the Kernel, for every finite set of nodes and every value of the constants that
meets the assumptions of `RunKernel` (`GraphAssumption`: dependencies stay in one
graph, Subgraph nodes own children, Gates and interactive skills are top-level, no
two nodes have the same sort key (it ends with the node's id);
`NoneAssumption`; `BoundAssumption`; `InputAssumption`; `WellFormedAssumption`: the
graph is acyclic and a condition names dependencies, which `compile_bundle` and
the contract validator enforce):

* `TypeCorrect`: `TypeOK` is inductive by itself. The cycle counter stays within
  its limit because a failure spends a cycle only below it.
* `AgreementCorrect`, `CountCorrect`: inductive together in `AgreementInv`, which
  adds that nodes of other kinds never have Attempts. The count is needed to see
  that a scheduling call starts an Attempt at a free ordinal, the agreement to
  see that no live one is left behind it.
* `LedgerImplemented`: each step maps to a step of `AttemptLedger` or leaves its
  log alone. `LedgerInv` adds `VerifiedCompleted`: only completed Attempts are
  verified.
* `DependencyClosureCorrect`: the closure is inductive given the types. The heart
  is the scheduling call (what the loop enters is satisfied *where the loop
  ends*, because what it has settled stays settled) and invalidation, where the
  set of dependents is closed.
* `VerifiedIsBackedCorrect`: by `BackedInv`, which adds `LastLive` (a live Attempt
  is the last of its node).
* `InputsCurrentCorrect`, under `~LateWrites`: by `InputsInv`, the conjunction with
  the closure: the refs of a dependency can change only while it is not settled,
  and then, by the closure, no node stands on it.
* `StartsLastCorrect`: the call that starts Attempts ends at a fixed point of its
  loop, and a node one more look would move is not at rest there.
* `StartsWithinQuotaCorrect`: the slots filled are the first free ones of the sorted
  ready nodes; the rank of a node by its sort key is an injection of the started
  nodes into the free slots. With resumed Attempts above the quota none is free.
* `GateRecordsAgreeCorrect`, `WaitsAreAnswerableCorrect`, under the hypothesis
  `OneAfterAnother`: of any two nodes that talk to the user (Gates, interactive
  skills) one stands *behind* the other, through dependencies that cannot be skipped
  and the Gates those passed. `RecordsInv` holds the saved records and the open
  question; it rests on `OneTalking` (of the talkers one at most works or waits), which follows
  from `PassageInv` (the closure; an entered node has its Gates behind it settled;
  what no condition can skip is not skipped). The main graph of
  `contracts/0.3.2/workflow.yaml` satisfies the hypothesis: its interactive idea, then four
  Gates, each below the one before (evaluated by TLC on that chain). For two parallel Gates both properties
  are false (section 3, Scope).
* `LoopEnds`, `VisitsEndAtSettle`, under `TerminalNodesDecided` (a node with terminal events
  has no condition on another node's status; `validate_contracts.py:922` allows such events
  for `build_readiness_verifier` alone, which has no condition): the heart is
  that one node's move is monotone in the statuses of the others
  (`DecideMonotone`), in the order in which a call takes a node on. So the passes
  climb in a finite set and rest at the least fixed point above the
  statuses before; and single moves, in any order, stay below it, and where none is left they have
  reached it. That `Settle`, the recursive function TLC evaluates, yields that place
  needs no induction: the function that sends statuses to where their orbit rests
  satisfies the recursion, so `Settle`'s own does, and it has one value along an orbit.

Of the directory, for every set of mutations and requests, every number of
versions and crashes, with and without torn writes, under the assumptions of
`RunStorage` and `RunOperations` (each mutation has an Event; one that writes a
Source Index writes no Gate file; `None` and `Torn` are no data):

* `StorageTypeCorrect`, `HistoryImplemented`, `CommittedReadableCorrect` (the
  latter where `~TornWrites`): from `StorageInv`, which adds to the types what is
  in the Snapshot files (`FilesInv`: nothing beyond the next version; the file of
  the next version, if whole, extends the committed Snapshot by one mutation,
  whoever wrote it) and what the writer holds (`WriterInv`: the Snapshot being
  committed is the committed one or one mutation more, and its file is there
  before the Manifest moves). That leftover file is why `ImplementsHistory` is
  not inductive alone: the Manifest may move to it.
* `AppliedOnceCorrect`: by `EnvelopeInv`. A request is accepted only at the version
  its envelope names, so it stands right after that version in every Snapshot
  that contains it, committed or left behind, and in none twice.
* `DecisionsLinkedCorrect`: by `LinkInv`, the last line of the log is the
  mutation's own last Event when the Decision is appended.
* `AuditCompleteCorrect`: by `CoverInv`, which extends the claim to a leftover
  Snapshot (its Events are somewhere in the log) and to the Events a staged retry
  takes up (it has compared them all).
* `SourcesCompleteCorrect`: by `IndexInv`. An index names its version, not the
  mutation it was written for; the invariant says that a later index contains
  every earlier one, that the sources of each mutation are in the index of its own
  version, and what the writer has listed by the step it is at.

Of the business services, for every set of proposals, responses, provider results,
branches and gap plans, every number of rounds, cycles, Attempts, retries and crashes:

* `IdeaShapingProofs`: by `ShapingInv`, which lists what the rest of a call under way may
  be as seen from the Snapshot of the moment (the next Checkpoint, an Idea Definition, or
  writes that leave the idea alone), and what file stands when only its commit is left. `InterviewImplemented` and `AnswersKeptCorrect` are statements about single steps in its
  states: only the commit of a Checkpoint moves a question, and its file
  prolongs the one before. Assumed: a proposal's parts are of a hypothesis' types,
  `None` and `Torn` are no Idea Definitions.
* `ResearchGapProofs`: `ProjectionOfOneSelection` speaks of the verified end of the
  Subgraph; `GapInv` says of *each* verified node that its Artifact is one it could
  make from what the others hold at the moment (`Made`), so a step that changes what was used must
  have taken the node with it, that the fan-out is the ranking's selection or
  empty, and what the call under way will write and commit.
  That the selection has `RequiredCount` members is a bijection of the selected
  with the ranks `1 .. RequiredCount`, for which candidates are
  finitely many with ids of their own (`_advance_discovery` refuses others). `RetriedAsPlannedCorrect`: by the
  same invariant.

Of the staged commits and the Report:

* `RuntimeIntegrationProofs!TypeCorrect`, `OnceOnlyCorrect`: by `OnceInv`. `OnceOnly`
  speaks of results alone; the invariant says which files hold it in place: the
  receipt of a call from its first write on, its document from the second, and
  an immutable file is never replaced. Assumed: `None` and `Torn` are no documents.
* `CommittedLoadableCorrect`, under the hypothesis that `scoring` itself is not
  invalidated (`"scoring" \notin Changeable`): by `OnceInv` with `LoadInv`, which adds
  the order of the Attempts (what runs stands on verified nodes), the assets of
  every result, and that a call under way is still made of the current inputs,
  since nothing runs between its checks and its commit. The hypothesis is
  needed: `unloadable_score` is the counterexample without it.
* `InterruptedFinishesUnlessTornCorrect`: by `OnceInv` with `FinishInv` and what `AssetsBound`
  and `ReportKept` add: assets lie beside a whole document and are its own or torn, and a report is in the
  Manifest only while its node is verified, so the repeated call finds no base. Every whole
  document has a key bound to it, and one that is in no commit is of a past Attempt or, while
  its Attempt is open, has the next reference of its type; Attempt numbers never come back.
* `ReportPublisherProofs!TypeCorrect`, `PublishedCompleteCorrect`, `NothingClaimedEarlyCorrect`: by `PublicationInv`, which adds what
  each caller has staged and may conclude from the step it is at.
* `LineageImplemented`: by `LineInv` too. The compare and the set are steps far apart;
  whoever passed the compare still has the current Report for its base *or* finds
  the directory of its version taken (`CompareHolds`), and of all who want one
  version only one gets to the pointer (`OneAtPointer`). Hypothesis
  `OneInitialVersion`: all requests without a base propose the same version. The
  code does not check that; see section 5.
* `ReportSupportedCorrect`: by `Supported`. The Report is three documents away from
  the records; the invariant says of each document what it carries over: a fact
  is whole as soon as it is projected or drawn, and bound to its records once it
  is in a publication.
* `PublishedExactlyWhenCorrect`: by `Drawn` (the Projection is that of the analyses,
  charts are drawn from it). The two directions are lemmas about records: which
  pair of facts can disagree on a Claim, and which chart cites only a part of it.
* `RanksAgreeCorrect`: by `ScoresKnown`, each committed score is the outcome its Judgments
  give. The rest is about the ranking itself: outcomes can be sorted
  (places in the order are counted, so no induction), ties share the first place, a
  first place is the number of those ahead, and to be ahead by mean and coverage is
  what the property says by cross-multiplication.

The argument is the same in every module: one lemma per action or group of
actions, an invariant of named parts, and one temporal step at the end.

Only model-checked are the liveness properties `Finishes`, `ShapingEnds`, `RetryStartsOrIsOffered`,
`ResearchEnds` and `PublicationGoesOn`: they rest on fairness, hence on ENABLED, which
the provers do not treat. Every invariant, action property and refinement the
passing runs check is proved. Some theorems have a hypothesis that is not an
assumption of the model, because the code allows for more and the property fails
there: `~LateWrites`, `~TornWrites`, `OneAfterAnother`, `"scoring" \notin Changeable`,
`OneInitialVersion`; for `TerminalNodesDecided` the validator is the warrant. TLC's
instances meet each where they check the property; sections 3 and 5 say what happens
elsewhere.

## 5. Disagreements

Where the code does something else than a document, comment or test of the
repository says. The first two are checked by runs of their own.

* **A score makes its Run unloadable** (`unloadable_score`; `runtime_integration.py:895`).
  Invalidating the dependents of `scoring` clears the refs of `score_verifier` and
  leaves the Manifest entry of the score, which the Skill of `scoring` declares; every
  later `load_run` fails. `SPEC_v0.3.1.md:181-183` has the score invalidated too.
* **A repeated competitor branch cannot write** (`retry_refused`; `competitor_research.py:139`). The
  next Artifact version is taken from the node's refs, which invalidation has
  cleared, and the storage refuses version 1 a second time. `_artifact_version` and
  `_header` (`idea_shaping.py:403`, `runtime_integration.py:130`) take it from the Manifest, whose
  entry may have been removed as well.

The others concern states the models reach, and were traced in the code and in
the models; the properties that hold are stated so as to leave room for them.

* **Parked Attempts exceed the quota** (`kernel.py:1792`, `attempts.py:202`): resumption counts no
  slots; `SPEC_v0.2.md:2690` has one global quota. `StartsWithinQuota` says what scheduling does.
* **A Run with an open question can be neither cancelled nor paused** (`kernel.py:1726`): the
  operation keeps `current_interaction`, which the schema allows in
  `WAITING_FOR_USER` only; `SPEC_v0.2.md:2858`, `transitions.py:55`.
* **A failed or cancelled Run comes back** by `retry_node` (`kernel.py:1755`);
  `SPEC_v0.2.md:2599`, `scheduler.py:258`, `tests/runtime/test_domain_transitions.py:138`.
* **Invalidation stops at a Subgraph's border** (`invalidation.py:25-39`): the node goes, its
  children stay verified; `SPEC_v0.2.md:2247`. Research Gap retries add the children
  by hand (`kernel.py:1427`), which `RetriedAsPlanned` checks.
* **A leftover Snapshot is adopted** (`storage.py:907`): an operation is answered as done and
  the committed state is that of an interrupted other one; `SPEC_v0.2.md:1069`.
* **A cut off Snapshot is committed** (`storage.py:906`): it exists, so it is kept and
  the Manifest moved to it; `SPEC_v0.2.md:1068` has files replaced atomically.
* **A repeated request is a conflict** (`operations.py:388`) if a crash came between its
  commit and its ledger entry; `SPEC_v0.2.md:2630` has it return the original result.
* **An unsourced candidate stops ranking for ever** (`competitor_research.py:475-490`, `519-521`):
  discovery counts the sourced candidates and verifies; ranking refuses all if
  one has no resolvable Source.
* **A branch named by a Research Gap does not run again** (`scheduler.py:408-422`, `attempts.py:148-160`):
  its inputs are what they were, so its fingerprint is that of its verified Attempt, the
  node stays READY as a `verified_reuse_candidate`, no caller takes the offer up and
  none asks for `AttemptMode.REFRESH`; `SPEC_v0.2.md:2258-2266` re-runs the affected graph.
  `tests/runtime/test_research_gap.py:156-168` and `194-219` see RUNNING because their Run has
  verified nodes without Attempts. The Container is no executable node and starts; its discovery
  is offered too, if it first ran on the same verified branches. So a Run gets to one
  Research Gap and not past it.
* **A torn file ends its call for good** (`storage.py:412-427`): whatever differs from what is to be
  written is refused, so after a crash inside an asset (`storage.py:668`) the same call
  fails for ever, and after one inside an Artifact (`storage.py:1032`) every call with its reference: that of the
  projection, the report and the score names the Run and a version, so a new Attempt
  meets it too. A torn receipt (`storage.py:598`) costs its key. `SPEC_v0.2.md:1068` has files
  replaced atomically; `tests/runtime/test_p004_runtime_integration.py:288` repeats a call after
  whole files. `InterruptedFinishesUnlessTorn` states both.
* **A Source admitted by research stops the publication** (`competitor_research.py:200-205`): a public
  Source without an HTTP(S) URL or without `citation_metadata`, both optional in its schema, passes,
  and Projection and charts are committed; `runtime_integration.py:584-597` and
  `report_publisher.py:180-200`, `1142-1149` refuse it.
* **A lost fan-out is not made up for** (`competitor_research.py:529-537`): ranking and fan-out are two
  commits, and only the call that ranks expands.
* **Charts are committed that cannot be published**: `chart_rendering.py` asks neither that Claims
  and Evidence name each other nor for the Profile's types nor for citable Sources, `publication_projection.py` and
  `report_publisher.py` do. `PublishedExactlyWhen` states the conditions.
* **Ranks that do not fit together** (`runtime_integration.py:736`): a score ranks its competitor
  among the Judgments the caller hands over, which may be others for the next.
* **Two first Reports** (`report_publisher.py:753`): two initial requests with different ids or
  versions claim different directories, both pass the compare with no Report,
  and both become current, one after the other.
* **An orphaned version directory** (`report_publisher.py:828`): after a crash between rename and
  pointer every publication of that version finds its place taken.
* **The order of questions** (`idea_shaping.py:315`): a critical assumption comes first and then the
  fixed order of dimensions, while `SPEC_v0.2.md:866-872` begins with unknowns others
  depend on. Which question is asked is data here.

## 6. Plan

Done: the Kernel's operations with their invariants and refinement; the directory
of a Run; idea shaping, competitor research and Research Gap; the staged commits,
the Report store, its contents and scores; proofs of every safety property of the
runs, and of where the scheduling loop ends.

Worth doing next:

1. Theorems beyond the properties of the runs: that `recover` restores what a reader of the
   committed state gets, that the transition tables are respected by every operation.
2. Liveness of a Run that is retried and invalidated finitely often.

## 7. Not modelled

* `graph.py`, `bundles.py`, `scripts/validate_contracts.py`: run once, before any Run, and write
  nothing; what they guarantee of a Workflow is an assumption of `RunKernel`.
* `chart_renderer.py`, the HTML of the Report, and all linting of templates and SVG: text.
  What decides *whether* something is rendered is in `ReportAssembly`.
* `fact_provenance.py` hashes and JSON pointers: identities, which are values here.
* `executor.py` beyond the binding of a result to its Attempt, `adapters.py`, `cli.py`, read-only
  queries: they reject or translate data and change no state.
* `errors.py`: an exception class. `contracts/`: data, of which the instances are cut.
