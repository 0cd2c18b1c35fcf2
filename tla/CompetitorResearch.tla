------------------------- MODULE CompetitorResearch -------------------------
(***************************************************************************)
(* CompetitorResearchService (competitor_research.py): the Competitor      *)
(* Subgraph from discovery to the Report Projection, its fan-out into Deep *)
(* Dives and the fan-in after them, commit by commit.  A candidate is what *)
(* selection sees of it.  The provider may return anything of Discoveries; *)
(* whether a Deep Dive's or an analysis's sources resolve is its choice    *)
(* too.  Charts, report and score, which follow, are RuntimeIntegration's. *)
(***************************************************************************)
EXTENDS HostCalls, FiniteSets, SequencesExt

CONSTANTS
  Discoveries,              \* what discovery may find: [candidates, varied]
  RequiredCount,            \* required_evidence.competitor_count
  Analyses,                 \* of the four analyses
  OtherNodes,               \* nodes outside the Subgraph
  MaxRetries                \* bound on failures retried by the host

Candidates == UNION {d.candidates : d \in Discoveries}
Ids == {c.id : c \in Candidates}

\* A node is <<node id, instance key>>; the key is 0 unless fanned out.
Container == <<"competitor", 0>>
Discovery == <<"discovery", 0>>
Ranking == <<"candidate_ranking", 0>>
DeepDive(id) == <<"deep_dive", id>>
Normalizer == <<"normalizer", 0>>
Analysis(a) == <<a, 0>>
AnalysisNodes == {Analysis(a) : a \in Analyses}
Facts == <<"fact_provenance", 0>>
DeepDives == {DeepDive(id) : id \in Ids}
Subgraph == {Discovery, Ranking, Normalizer, Facts} \cup DeepDives \cup AnalysisNodes
Nodes == Subgraph \cup {Container} \cup OtherNodes

ASSUME ResearchAssumption ==
  /\ RequiredCount \in Nat \ {0} /\ MaxRetries \in Nat
  /\ \A d \in Discoveries : IsFiniteSet(d.candidates)
  /\ \A c \in Candidates :
       c.id \in Nat \ {0} /\ c.score \in 1 .. 5 /\ c.fresh \in Nat /\ c.sources \in Nat
  /\ \A c, d \in Candidates : c.id = d.id => c = d
  \* node ids are unique
  /\ (AnalysisNodes \cup OtherNodes) \cap {Container, Discovery, Ranking, Normalizer, Facts} = {}
  /\ AnalysisNodes \cap (DeepDives \cup OtherNodes) = {} /\ DeepDives \cap OtherNodes = {}

MaxVersion == MaxRetries + 2
Names == (Subgraph \cup OtherNodes) \X (1 .. MaxVersion)
ArtifactName(n, version) == <<n, version>>

Verified(n) == run.status[n] = "VERIFIED"
Running(n) == run.status[n] = "RUNNING"
Present(n) == run.status[n] # "ABSENT"

\* _artifact_header: one above the node's own references.
NextVersion(n) == IF run.refs[n] = <<>> THEN 1 ELSE Last(run.refs[n]) + 1
NextName(n) == ArtifactName(n, NextVersion(n))
\* A call whose Artifact is refused changes nothing, and is left out.
CanWrite(n) == NextName(n) \in Names /\ files[NextName(n)] = None
FirstRef(n) == Head(run.refs[n])                                  \* mutant
CurrentRef(n) == Last(run.refs[n])
Document(n) == files[ArtifactName(n, CurrentRef(n))]

-----------------------------------------------------------------------------
\* _dependency_members and _subgraph_is_complete: what a node waits for.
Instances == {DeepDive(id) : id \in run.fanout}
DependsOn(n) ==
  CASE n = Discovery          -> {Container}
    [] n = Ranking            -> {Discovery}
    [] n \in DeepDives        -> {Ranking}
    [] n = Normalizer         -> Instances
    [] n \in AnalysisNodes    -> {Normalizer}
    [] n = Facts              -> AnalysisNodes
Ready(n) ==
  /\ run.status[n] = "PENDING" /\ run.status[Container] = "RUNNING"
  /\ n = Discovery \/ (DependsOn(n) # {} /\ \A m \in DependsOn(n) : Verified(m))
\* _input_refs: discovery, which opens the Subgraph, reads all that is verified
\* outside it.
RefsOf(snapshot, nodes) ==
  UNION {{ArtifactName(n, snapshot.refs[n][i]) : i \in DOMAIN snapshot.refs[n]} : n \in nodes}
Inputs(snapshot, n) ==
  RefsOf(snapshot, IF n = Discovery THEN {m \in OtherNodes : snapshot.status[m] = "VERIFIED"}
                   ELSE DependsOn(n))
\* plan_attempt: of a fingerprint, all but the node and its inputs is constant;
\* what an Attempt has verified stays to be reused when it is invalidated.
Reusable(snapshot, n, inputs) == <<n, inputs>> \in snapshot.reusable
Begun(snapshot, n, inputs) ==
  [snapshot EXCEPT !.status[n] = "RUNNING", !.inputs[n] = inputs]
Schedule(n) ==
  /\ Ready(n) /\ ~ Reusable(run, n, Inputs(run, n))
  /\ Change(Begun(run, n, Inputs(run, n)))
\* A node left ready, as a verified_reuse_candidate: no caller makes use of one,
\* and none asks for AttemptMode.REFRESH.
Offered(n) == Ready(n) /\ Reusable(run, n, Inputs(run, n))
CompleteSubgraph ==
  /\ Running(Container) /\ run.fanout # {}
  /\ \A n \in Subgraph : Present(n) => Verified(n)
  /\ Change([run EXCEPT !.status[Container] = "VERIFIED"])

\* complete_persisted_business_attempt, write_typed_artifact, _blocked_outcome.
Referring(n) == [run EXCEPT !.refs[n] = Append(@, NextVersion(n))]
Completed(n) ==
  [Referring(n) EXCEPT !.status[n] = "VERIFIED", !.reusable = @ \cup {<<n, run.inputs[n]>>}]
Blocked(snapshot, n) == [snapshot EXCEPT !.status[n] = "BLOCKED"]
Complete(n, document) ==
  CanWrite(n) /\ Call(<<File(NextName(n), document), Save(Completed(n))>>)
Insufficient(n, document) ==
  /\ CanWrite(n)
  /\ Call(<<File(NextName(n), document), Save(Referring(n)), Save(Blocked(Referring(n), n))>>)
\* From the normalizer on, an Artifact that is refused blocks the node.
CompleteOrBlock(n, document) ==
  IF CanWrite(n) THEN Complete(n, document) ELSE Change(Blocked(run, n))

-----------------------------------------------------------------------------
\* _advance_discovery: candidates without public sources stay in the document,
\* and do not count.
Enough(d) ==
  d.varied /\ Cardinality({c \in d.candidates : c.resolved}) >= RequiredCount
AdvanceDiscovery(d) ==
  /\ Running(Discovery)
  /\ \/ Enough(d) /\ Complete(Discovery, [candidates |-> d.candidates])
     \/ ~ Enough(d) /\ Insufficient(Discovery, [candidates |-> d.candidates])

\* _ranking_document: category, FRESH sources, sources, then name and ID.
Key(c) == <<c.score, c.fresh, c.sources>>
Better(c, d) ==
  \/ \E i \in 1 .. 3 : Key(c)[i] > Key(d)[i] /\ \A j \in 1 .. i - 1 : Key(c)[j] = Key(d)[j]
  \/ Key(c) = Key(d) /\ c.id < d.id
Selected(candidates) ==
  {c.id : c \in {x \in candidates : Cardinality({y \in candidates : Better(y, x)}) < RequiredCount}}
Rankable ==
  LET candidates == Document(Discovery).candidates IN
  (\A c \in candidates : c.resolved) /\ Cardinality(candidates) >= RequiredCount
Unexpanded(snapshot, ids) == snapshot                             \* mutant
KeysOnly(snapshot, ids) == [snapshot EXCEPT !.fanout = ids]       \* mutant
\* _apply_fanout_expansions, of an expansion not made before.
FannedOut(snapshot, ids) ==
  [snapshot EXCEPT !.fanout = ids,
     !.status = [n \in Nodes |-> IF n \in {DeepDive(id) : id \in ids} THEN "PENDING" ELSE @[n]]]
\* _advance_ranking: the ranking, and then the fan-out, in two commits.
AdvanceRanking ==
  /\ Running(Ranking) /\ Verified(Discovery) /\ Rankable /\ CanWrite(Ranking)
  /\ LET ids == Selected(Document(Discovery).candidates)
         document == [selected |-> ids, candidates |-> CurrentRef(Discovery)]
     IN Call(<<File(NextName(Ranking), document), Save(Completed(Ranking)),
               Save(FannedOut(Completed(Ranking), ids))>>)

\* _advance_deep_dive.
AdvanceDeepDive(id, resolved) ==
  LET n == DeepDive(id)
      document == [id |-> id, resolved |-> resolved]
  IN /\ Running(n) /\ Verified(Ranking) /\ id \in Document(Ranking).selected
     /\ \/ resolved /\ Complete(n, document)
        \/ ~ resolved /\ Insufficient(n, document)

\* _selected_deep_dives: fan-in.
AllDived ==
  /\ Verified(Ranking)
  /\ \A id \in Document(Ranking).selected : Present(DeepDive(id)) /\ Verified(DeepDive(id))
Dived == [id \in Document(Ranking).selected |-> CurrentRef(DeepDive(id))]
AdvanceNormalizer ==
  Running(Normalizer) /\ AllDived /\ CompleteOrBlock(Normalizer, [deep_dives |-> Dived])
\* _dataset_input, _advance_analysis.
AdvanceAnalysis(n) ==
  /\ Running(n) /\ Verified(Normalizer) /\ AllDived
  /\ DOMAIN Document(Normalizer).deep_dives = Document(Ranking).selected
  /\ CompleteOrBlock(n, [dataset |-> CurrentRef(Normalizer), deep_dives |-> Dived])
\* _report_projection_input_refs, _advance_fact_provenance.
ProjectionInputs == {Discovery, Ranking, Normalizer} \cup AnalysisNodes \cup
                      {n \in DeepDives : Present(n)}
AdvanceFacts ==
  /\ Running(Facts) /\ \A n \in ProjectionInputs : Verified(n)
  /\ CompleteOrBlock(Facts, [inputs |-> [n \in ProjectionInputs |-> CurrentRef(n)]])
\* _blocked_outcome: sources, claims or evidence that do not close.
Block ==
  \E n \in {Normalizer, Facts} \cup AnalysisNodes :
    Running(n) /\ run.retries < MaxRetries /\ Change(Blocked(run, n))

Advance ==
  \/ \E d \in Discoveries : AdvanceDiscovery(d)
  \/ AdvanceRanking
  \/ \E id \in Ids, resolved \in BOOLEAN : AdvanceDeepDive(id, resolved)
  \/ AdvanceNormalizer
  \/ \E n \in AnalysisNodes : AdvanceAnalysis(n)
  \/ AdvanceFacts

\* retry_persisted_node.
Retry(n) ==
  /\ run.status[n] \in {"BLOCKED", "FAILED"} /\ run.retries < MaxRetries
  /\ Change([run EXCEPT !.status[n] = "PENDING", !.retries = @ + 1])

-----------------------------------------------------------------------------
\* A Report Projection stands on one selection, of the required size: on the
\* current Artifact of every node, each made from the current ones before it,
\* and on no Deep Dive found insufficient (_advance_fact_provenance).
ProjectionOfOneSelection ==
  Verified(Facts) =>
    LET doc(n) == files[ArtifactName(n, Last(run.refs[n]))]
        ids == doc(Ranking).selected
        dives == [id \in ids |-> Last(run.refs[DeepDive(id)])]
    IN /\ run.fanout = ids /\ Cardinality(ids) = RequiredCount
       /\ ids \subseteq {c.id : c \in doc(Discovery).candidates}
       /\ doc(Ranking).candidates = Last(run.refs[Discovery])
       /\ \A id \in ids : doc(DeepDive(id)) = [id |-> id, resolved |-> TRUE]
       /\ doc(Normalizer).deep_dives = dives
       /\ \A n \in AnalysisNodes :
            doc(n) = [dataset |-> Last(run.refs[Normalizer]), deep_dives |-> dives]
       /\ \A n \in Subgraph \ {Facts} :
            Present(n) => Verified(n) /\ doc(Facts).inputs[n] = Last(run.refs[n])

\* Where research stops for good: a crash or an earlier cycle has left an
\* Artifact under the next name; a crash has lost the fan-out; a candidate
\* without sources got past discovery; a repeated node reads what it read
\* before, and is only offered its earlier result.
Obstructed ==
  \/ Idle /\ \E n \in Subgraph : Running(n) /\ ~ CanWrite(n)
  \/ crashes > 0 /\ Idle /\ Verified(Ranking) /\ run.fanout = {}
  \/ Running(Ranking) /\ ~ Rankable
  \/ \E n \in Subgraph : Offered(n)
\* Competitor research that has started comes to its end or to a node the host
\* must see to, and stops short in no other place than these.
ResearchEnds ==
  Running(Container) ~>
    (Verified(Container) \/ Obstructed \/
     \E n \in Subgraph : run.status[n] \in {"BLOCKED", "FAILED"})
=============================================================================
