------------------------- MODULE ResearchGapProofs -------------------------
(***************************************************************************)
(* Competitor research and its repetition by Research Gaps, for any        *)
(* candidates, analyses, branches, retries, cycles and crashes.  The idea  *)
(* of the invariant: the current Artifact of a verified node is one that   *)
(* the node would make again, from the current Artifacts before it.        *)
(***************************************************************************)
EXTENDS ResearchGap, FiniteSetTheorems, FunctionTheorems, SequenceTheorems, TLAPS

RunType ==
  [status : [Nodes -> Status], refs : [Nodes -> Seq(1 .. MaxVersion)],
   inputs : [Nodes -> SUBSET Names], reusable : SUBSET (Nodes \X SUBSET Names), fanout : SUBSET Ids,
   retries : 0 .. MaxRetries, issues : SUBSET Issues, result : {None, "PASS", "PARTIAL", "FAIL"},
   waived : BOOLEAN, cycle : 0 .. MaxGlobalResearchCycles, gap_attempt : 0 .. MaxVersion]

\* The Artifacts a node would make of the current ones before it.
Projected == [n \in ProjectionInputs |-> CurrentRef(n)]
Made(n) ==
  CASE n = Discovery        -> {[candidates |-> d.candidates] : d \in Discoveries}
    [] n = Ranking          ->
         {d \in {[selected |-> Selected(Document(Discovery).candidates),
                  candidates |-> CurrentRef(Discovery)]} : Verified(Discovery) /\ Rankable}
    [] n \in DeepDives      ->
         {d \in [id : Ids, resolved : {TRUE}] :
            n = DeepDive(d.id) /\ Verified(Ranking) /\ d.id \in Document(Ranking).selected}
    [] n = Normalizer       -> {d \in {[deep_dives |-> Dived]} : AllDived}
    [] n \in AnalysisNodes  ->
         {d \in {[dataset |-> CurrentRef(Normalizer), deep_dives |-> Dived]} :
            Verified(Normalizer) /\ AllDived}
    [] n = Facts            ->
         {d \in {[inputs |-> Projected]} : \A m \in ProjectionInputs : Verified(m)}
Standing == \A n \in Subgraph : Verified(n) => run.refs[n] # <<>> /\ Document(n) \in Made(n)
\* The fan-out is the current ranking's, and Deep Dives are there for it only.
Fanned ==
  /\ run.fanout # {} => Verified(Ranking) /\ run.fanout = Document(Ranking).selected
  /\ \A id \in Ids : Present(DeepDive(id)) <=> id \in run.fanout
AbsentEmpty == \A n \in Nodes : ~ Present(n) => n \in DeepDives /\ run.refs[n] = <<>>
VerifierLast == Verified(Verifier) => \A b \in Branches : Verified(b)

\* What a call may change without changing what was found.
Kept(s, r) ==
  /\ s.refs = r.refs /\ s.fanout = r.fanout /\ s.cycle = r.cycle
  /\ \A n \in Nodes :
       s.status[n] = r.status[n] \/ {s.status[n], r.status[n]} \cap {"VERIFIED", "ABSENT"} = {}
Saves(r) == {Save(s) : s \in {t \in RunType : Kept(t, r)}}

\* What is left of a call: of a node's result, of the ranking and its fan-out,
\* of a result that is not enough, of a Gap, or of what a Gap starts again.
Writable(n) == Running(n) /\ NextName(n) \in Names
Completing ==
  \E n \in Subgraph \ {Ranking} : \E d \in Made(n) :
    /\ Writable(n)
    /\ \/ todo = <<File(NextName(n), d), Save(Completed(n))>>
       \/ todo = <<Save(Completed(n))>> /\ files[NextName(n)] = d
RankingDone(d) == FannedOut(Completed(Ranking), d.selected)
RankingOut ==
  \E d \in Made(Ranking) :
    /\ Writable(Ranking)
    /\ \/ todo = <<File(NextName(Ranking), d), Save(Completed(Ranking)), Save(RankingDone(d))>>
       \/ /\ todo = <<Save(Completed(Ranking)), Save(RankingDone(d))>>
          /\ files[NextName(Ranking)] = d
FanningOut ==
  /\ Verified(Ranking) /\ run.fanout = {}
  /\ todo = <<Save(FannedOut(run, Document(Ranking).selected))>>
Findings ==
  {[candidates |-> d.candidates] : d \in Discoveries} \cup [id : Ids, resolved : {FALSE}]
Stopped(n) == Blocked(Referring(n), n)
Insufficing ==
  \E n \in {Discovery} \cup DeepDives :
    /\ Writable(n)
    /\ \/ \E d \in Findings : todo = <<File(NextName(n), d), Save(Referring(n)), Save(Stopped(n))>>
       \/ todo = <<Save(Referring(n)), Save(Stopped(n))>>
Repeating ==
  \E roots \in SUBSET Branches :
    /\ roots # Branches /\ Verified(Verifier) /\ run.cycle < MaxGlobalResearchCycles
    /\ GapName \in Names /\ todo # <<>>
    /\ \/ /\ Head(todo) = File(GapName, [roots |-> roots])
          /\ Tail(todo) # <<>> /\ Head(Tail(todo)) = Save(Invalidated(roots))
          /\ Tail(Tail(todo)) \in Seq(Saves(Invalidated(roots)))
       \/ /\ Head(todo) = Save(Invalidated(roots)) /\ files[GapName] = [roots |-> roots]
          /\ Tail(todo) \in Seq(Saves(Invalidated(roots)))
Restarting == todo \in Seq(Saves(run))
TodoKnown ==
  Completing \/ RankingOut \/ FanningOut \/ Insufficing \/ Repeating \/ Restarting

GapTypes == run \in RunType /\ DOMAIN files = Names
GapInv == GapTypes /\ Standing /\ Fanned /\ AbsentEmpty /\ VerifierLast /\ TodoKnown

\* What every step must be.
CycleStep ==
  run'.cycle # run.cycle =>
    LET roots == files[GapName].roots
        below == IF Container \in roots THEN Subgraph ELSE {}
    IN /\ run'.cycle = run.cycle + 1
       /\ \E b \in Branches : b \notin roots /\ Verified(b)
       /\ \A n \in (Branches \cup Subgraph) \ (roots \cup below) :
            run'.status[n] = run.status[n] /\ run'.refs[n] = run.refs[n]
       /\ \A n \in roots \cup below :
            run'.status[n] \in {"INVALIDATED", "ABSENT"} /\ run'.refs[n] = <<>>
GapStep == GapInv' /\ CycleStep

-----------------------------------------------------------------------------
(* Selection.  On candidates of different ids Better is a strict order     *)
(* in which any two can be compared.                                       *)
LEMMA BetterMeans ==
  ASSUME NEW c \in Candidates, NEW d \in Candidates
  PROVE  Better(c, d) <=>
           \/ c.score > d.score
           \/ c.score = d.score /\ c.fresh > d.fresh
           \/ c.score = d.score /\ c.fresh = d.fresh /\ c.sources > d.sources
           \/ /\ c.score = d.score /\ c.fresh = d.fresh /\ c.sources = d.sources
              /\ c.id < d.id
<1>1. /\ Key(c)[1] = c.score /\ Key(c)[2] = c.fresh /\ Key(c)[3] = c.sources
      /\ Key(d)[1] = d.score /\ Key(d)[2] = d.fresh /\ Key(d)[3] = d.sources
  BY DEF Key
<1>2. Key(c) = Key(d) <=> c.score = d.score /\ c.fresh = d.fresh /\ c.sources = d.sources
  BY DEF Key
<1>3. (\E i \in 1 .. 3 : Key(c)[i] > Key(d)[i] /\ \A j \in 1 .. i - 1 : Key(c)[j] = Key(d)[j]) <=>
        \/ c.score > d.score
        \/ c.score = d.score /\ c.fresh > d.fresh
        \/ c.score = d.score /\ c.fresh = d.fresh /\ c.sources > d.sources
  <2>1. 1 .. 3 = {1, 2, 3} /\ 1 .. 1 - 1 = {} /\ 1 .. 2 - 1 = {1} /\ 1 .. 3 - 1 = {1, 2}
    OBVIOUS
  <2> QED
    BY <1>1, <2>1
<1> QED
  BY <1>2, <1>3 DEF Better

LEMMA BetterOrders ==
  /\ \A c \in Candidates : ~ Better(c, c)
  /\ \A c, d \in Candidates : c = d \/ Better(c, d) \/ Better(d, c)
  /\ \A c, d, e \in Candidates : Better(c, d) /\ Better(d, e) => Better(c, e)
<1>1. \A c \in Candidates : c.id \in Nat /\ c.score \in Nat /\ c.fresh \in Nat /\ c.sources \in Nat
  BY ResearchAssumption
<1> QED
  BY <1>1, BetterMeans, ResearchAssumption

(* So as many are selected as there should be: a candidate's rank, the     *)
(* number of better ones, is its own among as many ranks as candidates.    *)
LEMMA SelectionCounted ==
  ASSUME NEW C \in SUBSET Candidates, IsFiniteSet(C), Cardinality(C) >= RequiredCount
  PROVE  Cardinality(Selected(C)) = RequiredCount
<1> DEFINE above(c) == {d \in C : Better(d, c)}
           rank == [c \in C |-> Cardinality(above(c))]
           ranks == 0 .. Cardinality(C) - 1
           chosen == {c \in C : Cardinality(above(c)) < RequiredCount}
           name == [c \in chosen |-> c.id]
<1>1. Cardinality(C) \in Nat /\ RequiredCount \in Nat
  BY FS_CardinalityType, ResearchAssumption
<1>2. \A c \in C : IsFiniteSet(above(c)) /\ Cardinality(above(c)) \in Nat
  BY FS_Subset, FS_CardinalityType
<1>3. ASSUME NEW c \in C PROVE Cardinality(above(c)) < Cardinality(C)
  <2>1. c \notin above(c)
    BY BetterOrders
  <2> QED
    BY <1>1, <1>2, <2>1, FS_Subset
<1>4. ASSUME NEW c \in C, NEW d \in C, Better(c, d)
      PROVE  Cardinality(above(c)) < Cardinality(above(d))
  <2>1. above(c) \subseteq above(d) /\ c \in above(d) /\ c \notin above(c)
    BY <1>4, BetterOrders
  <2> QED
    BY <1>2, <2>1, FS_Subset
<1>5. rank \in Injection(C, ranks)
  <2>1. rank \in [C -> ranks]
    BY <1>1, <1>2, <1>3
  <2>2. ASSUME NEW c \in C, NEW d \in C, rank[c] = rank[d] PROVE c = d
    <3>1. Cardinality(above(c)) = Cardinality(above(d))
      BY <2>2
    <3>2. Cardinality(above(c)) \in Nat /\ Cardinality(above(d)) \in Nat
      BY <1>2
    <3>3. ~ Better(c, d) /\ ~ Better(d, c)
      BY <1>4, <3>1, <3>2
    <3> QED
      BY <3>3, BetterOrders
  <2> HIDE DEF rank, ranks
  <2> QED
    BY <2>1, <2>2, Fun_IsInj
<1>6. ASSUME NEW n \in Nat PROVE IsFiniteSet(0 .. n - 1) /\ Cardinality(0 .. n - 1) = n
  <2>1. 0 \in Int /\ n - 1 \in Int
    OBVIOUS
  <2>2. Cardinality(0 .. n - 1) = IF 0 > n - 1 THEN 0 ELSE n - 1 - 0 + 1
    BY <2>1, FS_Interval
  <2> QED
    BY <2>1, <2>2, FS_Interval
<1>7. rank \in Surjection(C, ranks)
  <2>1. IsFiniteSet(ranks) /\ Cardinality(ranks) = Cardinality(C)
    BY <1>1, <1>6
  <2> QED
    BY <1>5, <2>1, FS_Injection
<1>8. \A k \in ranks : \E c \in C : rank[c] = k
  <2> HIDE DEF rank, ranks
  <2> QED
    BY <1>7, Fun_SurjectionProperties
<1>9. Cardinality(chosen) = RequiredCount
  <2> DEFINE first == [c \in chosen |-> rank[c]]
  <2>1. first \in [chosen -> 0 .. RequiredCount - 1]
    BY <1>1, <1>2
  <2>2. first \in Injection(chosen, 0 .. RequiredCount - 1)
    <3>1. \A c, d \in chosen : first[c] = first[d] => c = d
      BY <1>5, Fun_InjectionProperties
    <3> HIDE DEF first, chosen
    <3> QED
      BY <2>1, <3>1, Fun_IsInj
  <2>3. \A k \in 0 .. RequiredCount - 1 : \E c \in chosen : first[c] = k
    <3> SUFFICES ASSUME NEW k \in 0 .. RequiredCount - 1 PROVE \E c \in chosen : first[c] = k
      OBVIOUS
    <3>1. k \in ranks
      BY <1>1
    <3>2. PICK c \in C : rank[c] = k
      BY <1>8, <3>1
    <3>3. c \in chosen
      BY <1>1, <3>2
    <3> QED
      BY <3>2, <3>3
  <2>4. first \in Surjection(chosen, 0 .. RequiredCount - 1)
    BY <2>1, <2>3, Fun_IsSurj
  <2>5. /\ IsFiniteSet(0 .. RequiredCount - 1)
        /\ Cardinality(0 .. RequiredCount - 1) = RequiredCount
    BY <1>1, <1>6
  <2> QED
    BY <2>2, <2>4, <2>5, FS_Injection
<1>10. name \in Surjection(chosen, Selected(C)) /\ name \in Injection(chosen, Selected(C))
  <2>1. name \in [chosen -> Selected(C)] /\ \A i \in Selected(C) : \E c \in chosen : name[c] = i
    BY DEF Selected
  <2>2. \A c, d \in chosen : name[c] = name[d] => c = d
    BY ResearchAssumption
  <2> QED
    BY <2>1, <2>2, Fun_IsSurj, Fun_IsInj
<1>11. IsFiniteSet(chosen)
  BY FS_Subset
<1> QED
  BY <1>9, <1>10, <1>11, FS_Surjection

-----------------------------------------------------------------------------
(* Nodes are told apart.                                                   *)
LEMMA NodesDiffer ==
  /\ \A m, n \in {Discovery, Ranking, Normalizer, Facts, Container, Verifier, Gap} :
       m = n \/ m[1] # n[1]
  /\ Discovery # Ranking /\ Discovery # Normalizer /\ Discovery # Facts
  /\ Ranking # Normalizer /\ Ranking # Facts /\ Normalizer # Facts /\ Verifier # Gap
  /\ {Discovery, Ranking, Normalizer, Facts} \cap (DeepDives \cup AnalysisNodes) = {}
  /\ DeepDives \cap AnalysisNodes = {}
  /\ Subgraph \cap (OtherNodes \cup {Container}) = {}
  /\ Branches \cap Subgraph = {} /\ Branches \cap {Verifier, Gap} = {}
  /\ \A i, j \in Ids : DeepDive(i) = DeepDive(j) => i = j
<1>1. {Discovery, Ranking, Normalizer, Facts, Container, Verifier, Gap} \cap DeepDives = {}
  BY DEF Discovery, Ranking, Normalizer, Facts, Container, Verifier, Gap, DeepDives, DeepDive
<1>2. /\ Discovery # Ranking /\ Discovery # Normalizer /\ Discovery # Facts
      /\ Ranking # Normalizer /\ Ranking # Facts /\ Normalizer # Facts /\ Verifier # Gap
      /\ {Discovery, Ranking, Normalizer, Facts} \cap {Container, Verifier, Gap} = {}
      /\ Container # Verifier /\ Container # Gap
  BY DEF Discovery, Ranking, Normalizer, Facts, Container, Verifier, Gap
<1>3. \A i, j \in Ids : DeepDive(i) = DeepDive(j) => i = j
  BY DEF DeepDive
<1>4. \A m, n \in {Discovery, Ranking, Normalizer, Facts, Container, Verifier, Gap} :
        m = n \/ m[1] # n[1]
  BY DEF Discovery, Ranking, Normalizer, Facts, Container, Verifier, Gap
<1> QED
  BY <1>1, <1>2, <1>3, <1>4, ResearchAssumption, GapAssumption DEF Subgraph, Branches

LEMMA NodesKnown ==
  /\ {Discovery, Ranking, Normalizer, Facts} \cup DeepDives \cup AnalysisNodes = Subgraph
  /\ Subgraph \subseteq Nodes /\ Branches \subseteq Nodes /\ Verifier \in Nodes /\ Gap \in Nodes
  /\ \A n \in Subgraph : n = Discovery \/ n = Ranking \/ n \in DeepDives \/ n = Normalizer
                           \/ n \in AnalysisNodes \/ n = Facts
BY GapAssumption DEF Nodes, Subgraph, Branches

(* What each node of the Subgraph makes.                                   *)
LEMMA MadeMeans ==
  /\ Made(Discovery) = {[candidates |-> d.candidates] : d \in Discoveries}
  /\ \A d : d \in Made(Ranking) <=>
       /\ Verified(Discovery) /\ Rankable
       /\ d = [selected |-> Selected(Document(Discovery).candidates),
               candidates |-> CurrentRef(Discovery)]
  /\ \A id \in Ids : \A d : d \in Made(DeepDive(id)) <=>
       d = [id |-> id, resolved |-> TRUE] /\ Verified(Ranking) /\ id \in Document(Ranking).selected
  /\ \A d : d \in Made(Normalizer) <=> d = [deep_dives |-> Dived] /\ AllDived
  /\ \A n \in AnalysisNodes : \A d : d \in Made(n) <=>
       /\ d = [dataset |-> CurrentRef(Normalizer), deep_dives |-> Dived]
       /\ Verified(Normalizer) /\ AllDived
  /\ \A d : d \in Made(Facts) <=>
       d = [inputs |-> Projected] /\ \A m \in ProjectionInputs : Verified(m)
<1>1. Made(Discovery) = {[candidates |-> d.candidates] : d \in Discoveries}
  BY NodesDiffer DEF Made
<1>2. Made(Ranking) = {d \in {[selected |-> Selected(Document(Discovery).candidates),
                               candidates |-> CurrentRef(Discovery)]} : Verified(Discovery) /\ Rankable}
  BY NodesDiffer DEF Made
<1>3. ASSUME NEW id \in Ids, NEW d
      PROVE  d \in Made(DeepDive(id)) <=>
               d = [id |-> id, resolved |-> TRUE] /\ Verified(Ranking) /\ id \in Document(Ranking).selected
  <2>1. DeepDive(id) \in DeepDives
    BY DEF DeepDives
  <2>2. Made(DeepDive(id)) =
          {x \in [id : Ids, resolved : {TRUE}] :
             DeepDive(id) = DeepDive(x.id) /\ Verified(Ranking) /\ x.id \in Document(Ranking).selected}
    BY <2>1, NodesDiffer DEF Made
  <2>3. ASSUME d \in Made(DeepDive(id)) PROVE d.id = id /\ d = [id |-> id, resolved |-> TRUE]
    <3>1. d \in [id : Ids, resolved : {TRUE}] /\ DeepDive(id) = DeepDive(d.id)
      BY <2>2, <2>3
    <3>2. d.id = id
      BY <3>1, NodesDiffer
    <3> QED
      BY <3>1, <3>2
  <2>4. ASSUME d = [id |-> id, resolved |-> TRUE]
        PROVE  d \in [id : Ids, resolved : {TRUE}] /\ d.id = id
    BY <2>4
  <2> QED
    BY <2>2, <2>3, <2>4
<1>4. Made(Normalizer) = {d \in {[deep_dives |-> Dived]} : AllDived}
  BY NodesDiffer DEF Made
<1>5. ASSUME NEW n \in AnalysisNodes
      PROVE  Made(n) = {d \in {[dataset |-> CurrentRef(Normalizer), deep_dives |-> Dived]} :
                          Verified(Normalizer) /\ AllDived}
  BY NodesDiffer DEF Made
<1>6. Made(Facts) = {d \in {[inputs |-> Projected]} : \A m \in ProjectionInputs : Verified(m)}
  BY NodesDiffer DEF Made
<1> QED
  BY <1>1, <1>2, <1>3, <1>4, <1>5, <1>6

(* A verified ranking has selected as many candidates as it should, and    *)
(* once Deep Dives were read, the fan-out is of them.                      *)
LEMMA RankingChosen ==
  ASSUME Standing, Verified(Ranking)
  PROVE  /\ Verified(Discovery) /\ Document(Ranking).candidates = CurrentRef(Discovery)
         /\ Document(Ranking).selected = Selected(Document(Discovery).candidates)
         /\ Document(Ranking).selected \subseteq {c.id : c \in Document(Discovery).candidates}
         /\ Document(Ranking).selected \subseteq Ids
         /\ Cardinality(Document(Ranking).selected) = RequiredCount
         /\ Document(Ranking).selected # {}
<1>1. /\ Verified(Discovery) /\ Rankable
      /\ Document(Ranking) = [selected |-> Selected(Document(Discovery).candidates),
                              candidates |-> CurrentRef(Discovery)]
  BY MadeMeans, NodesKnown DEF Standing
<1>2. PICK d \in Discoveries : Document(Discovery) = [candidates |-> d.candidates]
  BY <1>1, MadeMeans, NodesKnown DEF Standing
<1>3. d.candidates \in SUBSET Candidates /\ IsFiniteSet(d.candidates)
  BY ResearchAssumption DEF Candidates
<1>4. Document(Discovery).candidates = d.candidates
  BY <1>2
<1>5. Cardinality(Selected(d.candidates)) = RequiredCount
  BY <1>1, <1>3, <1>4, SelectionCounted DEF Rankable
<1>6. Selected(d.candidates) # {}
  BY <1>5, FS_EmptySet, ResearchAssumption
<1>7. Selected(d.candidates) \subseteq {c.id : c \in d.candidates}
  BY DEF Selected
<1>8. {c.id : c \in d.candidates} \subseteq Ids
  BY <1>3 DEF Ids
<1> QED
  BY <1>1, <1>4, <1>5, <1>6, <1>7, <1>8

LEMMA DivedFanout ==
  ASSUME Standing, Fanned, AllDived
  PROVE  /\ Verified(Ranking) /\ run.fanout = Document(Ranking).selected /\ run.fanout # {}
         /\ run.fanout \subseteq Ids
<1>1. Verified(Ranking)
  BY DEF AllDived
<1>2. PICK id \in Document(Ranking).selected : TRUE
  BY <1>1, RankingChosen
<1>3. Present(DeepDive(id)) /\ id \in Ids
  BY <1>1, RankingChosen DEF AllDived
<1> QED
  BY <1>1, <1>3, RankingChosen DEF Fanned

-----------------------------------------------------------------------------
(* What a verified node stands on stays with it: a node makes the same of  *)
(* what is verified before it, whatever else becomes verified.             *)
Preserved ==
  \A m \in Subgraph : Verified(m) =>
    /\ run'.status[m] = "VERIFIED" /\ run'.refs[m] = run.refs[m]
    /\ files'[ArtifactName(m, Last(run.refs[m]))] = files[ArtifactName(m, Last(run.refs[m]))]
SamePresent ==
  \A m \in Nodes : run'.status[m] = "ABSENT" <=> run.status[m] = "ABSENT"

LEMMA VerifiedStays ==
  ASSUME Preserved, NEW m \in Subgraph, Verified(m)
  PROVE  Verified(m)' /\ CurrentRef(m)' = CurrentRef(m) /\ Document(m)' = Document(m)
BY DEF Preserved, Verified, CurrentRef, Document

LEMMA DivedStays ==
  ASSUME Preserved, Standing, Verified(Ranking) \/ AllDived
  PROVE  /\ Verified(Ranking)' /\ Document(Ranking)' = Document(Ranking)
         /\ AllDived => AllDived' /\ Dived' = Dived
<1>1. Verified(Ranking)' /\ Document(Ranking)' = Document(Ranking) /\ Verified(Ranking)
  BY VerifiedStays, NodesKnown DEF AllDived
<1>2. ASSUME AllDived PROVE AllDived' /\ Dived' = Dived
  <2>1. ASSUME NEW id \in Document(Ranking).selected
        PROVE  /\ run'.status[DeepDive(id)] = "VERIFIED"
               /\ Last(run'.refs[DeepDive(id)]) = Last(run.refs[DeepDive(id)])
    <3>1. DeepDive(id) \in Subgraph /\ Verified(DeepDive(id))
      BY <1>1, <1>2, RankingChosen, NodesKnown DEF AllDived, DeepDives
    <3> QED
      BY <3>1 DEF Preserved
  <2>2. \A id \in Document(Ranking)'.selected : run'.status[DeepDive(id)] = "VERIFIED"
    BY <1>1, <2>1
  <2>3. AllDived'
    BY <1>1, <2>2 DEF AllDived, Present, Verified, DeepDive
  <2>4. Dived = [id \in Document(Ranking).selected |-> Last(run.refs[DeepDive(id)])]
    BY DEF Dived, CurrentRef, DeepDive
  <2>5. Dived' = [id \in Document(Ranking)'.selected |-> Last(run'.refs[DeepDive(id)])]
    BY DEF Dived, CurrentRef, DeepDive
  <2> QED
    BY <1>1, <2>1, <2>3, <2>4, <2>5
<1> QED
  BY <1>1, <1>2

LEMMA MadeStays ==
  ASSUME Preserved, Standing, NEW n \in Subgraph, n = Facts => SamePresent, NEW d, d \in Made(n)
  PROVE  d \in Made(n)'
<1>1. CASE n = Discovery
  <2>1. Made(Discovery)' = {[candidates |-> x.candidates] : x \in Discoveries}
    BY NodesDiffer DEF Made
  <2> QED
    BY <1>1, <2>1, MadeMeans
<1>2. CASE n = Ranking
  <2>1. Verified(Discovery) /\ Rankable /\ d = [selected |-> Selected(Document(Discovery).candidates),
                                               candidates |-> CurrentRef(Discovery)]
    BY <1>2, MadeMeans
  <2>2. Verified(Discovery)' /\ Document(Discovery)' = Document(Discovery)
        /\ CurrentRef(Discovery)' = CurrentRef(Discovery)
    BY <2>1, VerifiedStays, NodesKnown
  <2>3. Rankable'
    BY <2>1, <2>2 DEF Rankable
  <2>4. d = [selected |-> Selected(Document(Discovery)'.candidates),
             candidates |-> CurrentRef(Discovery)']
    BY <2>1, <2>2
  <2>5. Made(Ranking)' = {x \in {[selected |-> Selected(Document(Discovery)'.candidates),
                                  candidates |-> CurrentRef(Discovery)']} : Verified(Discovery)' /\ Rankable'}
    BY NodesDiffer DEF Made, Selected, Better, Key
  <2> QED
    BY <1>2, <2>2, <2>3, <2>4, <2>5
<1>3. CASE n \in DeepDives
  <2>1. PICK id \in Ids : n = DeepDive(id)
    BY <1>3 DEF DeepDives
  <2>2. d = [id |-> id, resolved |-> TRUE] /\ Verified(Ranking) /\ id \in Document(Ranking).selected
    BY <2>1, MadeMeans
  <2>3. Verified(Ranking)' /\ Document(Ranking)' = Document(Ranking)
    BY <2>2, VerifiedStays, NodesKnown
  <2>4. d \in [id : Ids, resolved : {TRUE}] /\ n = DeepDive(d.id) /\ d.id \in Document(Ranking)'.selected
    BY <2>1, <2>2, <2>3
  <2>5. Made(n)' = {x \in [id : Ids, resolved : {TRUE}] :
                     n = DeepDive(x.id) /\ Verified(Ranking)' /\ x.id \in Document(Ranking)'.selected}
    BY <1>3, NodesDiffer DEF Made, DeepDive
  <2> QED
    BY <2>3, <2>4, <2>5
<1>4. CASE n = Normalizer
  <2>1. d = [deep_dives |-> Dived] /\ AllDived
    BY <1>4, MadeMeans
  <2>2. Made(Normalizer)' = {x \in {[deep_dives |-> Dived']} : AllDived'}
    BY NodesDiffer DEF Made
  <2> QED
    BY <1>4, <2>1, <2>2, DivedStays
<1>5. CASE n \in AnalysisNodes
  <2>1. d = [dataset |-> CurrentRef(Normalizer), deep_dives |-> Dived] /\ Verified(Normalizer) /\ AllDived
    BY <1>5, MadeMeans
  <2>2. Made(n)' = {x \in {[dataset |-> CurrentRef(Normalizer)', deep_dives |-> Dived']} :
                     Verified(Normalizer)' /\ AllDived'}
    BY <1>5, NodesDiffer DEF Made
  <2>3. Verified(Normalizer)' /\ CurrentRef(Normalizer)' = CurrentRef(Normalizer)
    BY <2>1, VerifiedStays, NodesKnown
  <2> QED
    BY <2>1, <2>2, <2>3, DivedStays
<1>6. CASE n = Facts
  <2>1. d = [inputs |-> Projected] /\ \A m \in ProjectionInputs : Verified(m)
    BY <1>6, MadeMeans
  <2>2. ProjectionInputs \subseteq Subgraph
    BY NodesKnown DEF ProjectionInputs
  <2>3. ProjectionInputs' = ProjectionInputs
    BY <1>6, NodesKnown DEF ProjectionInputs, SamePresent, Present
  <2>4. \A m \in ProjectionInputs :
          run'.status[m] = "VERIFIED" /\ Last(run'.refs[m]) = Last(run.refs[m])
    BY <2>1, <2>2 DEF Preserved
  <2>5. Projected = [m \in ProjectionInputs |-> Last(run.refs[m])]
        /\ Projected' = [m \in ProjectionInputs' |-> Last(run'.refs[m])]
    BY DEF Projected, CurrentRef
  <2>6. Projected' = Projected
    BY <2>3, <2>4, <2>5
  <2>7. Made(Facts)' = {x \in {[inputs |-> Projected']} :
                         \A m \in ProjectionInputs' : run'.status[m] = "VERIFIED"}
    BY NodesDiffer DEF Made, Verified
  <2> QED
    BY <1>6, <2>1, <2>3, <2>4, <2>6, <2>7
<1> QED
  BY <1>1, <1>2, <1>3, <1>4, <1>5, <1>6, NodesKnown

-----------------------------------------------------------------------------
(* A step that keeps what is verified, and verifies only what it has made. *)
LEMMA MoreVerified ==
  ASSUME GapInv, GapTypes', Preserved, SamePresent, VerifierLast', TodoKnown',
         run'.fanout = run.fanout, run'.cycle = run.cycle,
         \A n \in Nodes : run.status[n] = "ABSENT" => run'.refs[n] = run.refs[n],
         \A n \in Subgraph : run'.status[n] = "VERIFIED" =>
           \/ Verified(n)
           \/ run'.refs[n] # <<>> /\ files'[ArtifactName(n, Last(run'.refs[n]))] \in Made(n)
  PROVE  GapStep
<1>1. Standing'
  <2>1. ASSUME NEW n \in Subgraph, run'.status[n] = "VERIFIED"
        PROVE  /\ run'.refs[n] # <<>>
               /\ files'[ArtifactName(n, Last(run'.refs[n]))] \in Made(n)'
    <3>1. /\ run'.refs[n] # <<>>
          /\ files'[ArtifactName(n, Last(run'.refs[n]))] \in Made(n)
      BY <2>1 DEF Preserved, GapInv, Standing, Document, CurrentRef
    <3> QED
      BY <3>1, MadeStays DEF GapInv
  <2> QED
    BY <2>1 DEF Standing, Verified, Document, CurrentRef
<1>2. Fanned'
  <2>1. run.fanout # {} =>
          Verified(Ranking)' /\ Document(Ranking)' = Document(Ranking)
    BY VerifiedStays, NodesKnown DEF GapInv, Fanned
  <2>2. \A id \in Ids : run'.status[DeepDive(id)] # "ABSENT" <=> id \in run'.fanout
    BY NodesKnown DEF GapInv, Fanned, SamePresent, Present, DeepDives
  <2> QED
    BY <2>1, <2>2 DEF GapInv, Fanned, Present, DeepDive
<1>3. AbsentEmpty'
  BY DEF GapInv, AbsentEmpty, SamePresent, Present
<1>4. CycleStep
  BY DEF CycleStep
<1> QED
  BY <1>1, <1>2, <1>3, <1>4 DEF GapStep, GapInv

(* A step that verifies nothing.                                           *)
LEMMA NothingVerified ==
  ASSUME GapInv, run' \in RunType, Kept(run', run), DOMAIN files' = Names, TodoKnown',
         \A m \in Subgraph : Verified(m) =>
           files'[ArtifactName(m, Last(run.refs[m]))] = files[ArtifactName(m, Last(run.refs[m]))]
  PROVE  GapStep
<1>1. \A n \in Nodes : run'.status[n] = "VERIFIED" <=> run.status[n] = "VERIFIED"
  BY DEF Kept
<1>2. SamePresent
  BY DEF Kept, SamePresent
<1>3. Preserved
  BY <1>1, NodesKnown DEF Preserved, Kept, Verified
<1>4. VerifierLast'
  BY <1>1, NodesKnown DEF GapInv, VerifierLast, Verified
<1> QED
  BY <1>1, <1>2, <1>3, <1>4, NodesKnown, MoreVerified DEF Kept, Verified, GapTypes

(* What one Snapshot keeps of another.                                     *)
LEMMA KeptEquivalence ==
  ASSUME NEW r, NEW s, NEW t, Kept(s, r)
  PROVE  Kept(r, r) /\ (Kept(t, s) <=> Kept(t, r))
BY DEF Kept

LEMMA SavesKept ==
  ASSUME NEW r, NEW s, Kept(s, r)
  PROVE  Saves(s) = Saves(r)
BY KeptEquivalence DEF Saves

(* An idle call has nothing left.                                          *)
LEMMA IdleRests ==
  ASSUME todo' = <<>>
  PROVE  TodoKnown'
BY EmptySeq DEF TodoKnown, Restarting

-----------------------------------------------------------------------------
(* Calls change neither Snapshot nor files.                                *)
LEMMA Tuples ==
  /\ \A a : <<a>> # <<>> /\ Head(<<a>>) = a /\ Tail(<<a>>) = <<>>
  /\ \A a, b : <<a, b>> # <<>> /\ Head(<<a, b>>) = a /\ Tail(<<a, b>>) = <<b>>
  /\ \A a, b, c : <<a, b, c>> # <<>> /\ Head(<<a, b, c>>) = a /\ Tail(<<a, b, c>>) = <<b, c>>
OBVIOUS

LEMMA Writes ==
  /\ \A name, document : File(name, document).kind = "file" /\ File(name, document).name = name
                           /\ File(name, document).document = document
  /\ \A snapshot : Save(snapshot).kind = "snapshot" /\ Save(snapshot).run = snapshot
  /\ \A r : \A write \in Saves(r) : write.kind = "snapshot" /\ write.run \in RunType /\ Kept(write.run, r)
BY DEF File, Save, Saves

(* What is known of a call depends on the Snapshot and the files.          *)
LEMMA CallStep ==
  ASSUME GapInv, UNCHANGED <<run, files>>, TodoKnown'
  PROVE  GapStep
<1>1. Kept(run', run) /\ run' \in RunType /\ DOMAIN files' = Names
  BY DEF Kept, GapInv, GapTypes
<1> QED
  BY <1>1, NothingVerified

(* The next version of a node's Artifact is none it refers to.             *)
LEMMA NextIsOther ==
  ASSUME GapTypes, NEW n \in Subgraph \cup OtherNodes
  PROVE  /\ NextVersion(n) \in Nat
         /\ NextName(n) \in Names <=> NextVersion(n) \in 1 .. MaxVersion
         /\ \A m \in Subgraph : m # n => ArtifactName(m, Last(run.refs[m])) # NextName(n)
         /\ \A m \in Subgraph : ArtifactName(m, Last(run.refs[m])) # GapName
<1>1. run.refs[n] \in Seq(1 .. MaxVersion)
  BY DEF Nodes, GapTypes, RunType
<1>2. NextVersion(n) \in Nat
  <2>1. run.refs[n] # <<>> => Last(run.refs[n]) \in 1 .. MaxVersion
    <3>1. PICK s \in Seq(1 .. MaxVersion) : s = run.refs[n]
      BY <1>1
    <3>2. s # <<>> => Len(s) \in 1 .. Len(s)
      BY EmptySeq, LenProperties
    <3>3. s # <<>> => s[Len(s)] \in 1 .. MaxVersion
      BY <3>2, ElementOfSeq
    <3> QED
      BY <3>1, <3>3 DEF Last
  <2>2. MaxVersion \in Nat
    BY ResearchAssumption DEF MaxVersion
  <2> QED
    BY <2>1, <2>2 DEF NextVersion
<1>3. NextName(n) \in Names <=> NextVersion(n) \in 1 .. MaxVersion
  BY DEF NextName, ArtifactName, Names
<1>4. Gap \notin Subgraph
  BY NodesDiffer, GapAssumption
<1> QED
  BY <1>2, <1>3, <1>4 DEF NextName, ArtifactName, GapName

(* The current Artifact of a verified node has a name.                     *)
LEMMA CurrentNamed ==
  ASSUME GapTypes, Standing
  PROVE  \A m \in Subgraph : Verified(m) => ArtifactName(m, Last(run.refs[m])) \in Names
<1> SUFFICES ASSUME NEW m \in Subgraph, Verified(m)
             PROVE  ArtifactName(m, Last(run.refs[m])) \in Names
  OBVIOUS
<1>1. PICK s \in Seq(1 .. MaxVersion) : s = run.refs[m] /\ s # <<>>
  BY NodesKnown DEF GapTypes, RunType, Standing
<1>2. Len(s) \in 1 .. Len(s)
  BY <1>1, EmptySeq, LenProperties
<1>3. s[Len(s)] \in 1 .. MaxVersion
  BY <1>2, ElementOfSeq
<1> QED
  BY <1>1, <1>3 DEF Last, ArtifactName, Names

(* What an Attempt reads are names of Artifacts.                           *)
LEMMA RefsNamed ==
  ASSUME NEW r \in RunType, NEW nodes \in SUBSET (Subgraph \cup OtherNodes)
  PROVE  RefsOf(r, nodes) \in SUBSET Names
<1> SUFFICES ASSUME NEW n \in nodes, NEW i \in DOMAIN r.refs[n] PROVE ArtifactName(n, r.refs[n][i]) \in Names
  BY DEF RefsOf
<1>1. n \in Nodes /\ r.refs[n] \in Seq(1 .. MaxVersion)
  BY DEF Nodes, RunType
<1>2. r.refs[n][i] \in 1 .. MaxVersion
  <2>1. PICK seq \in Seq(1 .. MaxVersion) : seq = r.refs[n]
    BY <1>1
  <2>2. DOMAIN seq = 1 .. Len(seq)
    OBVIOUS
  <2>3. i \in 1 .. Len(seq)
    BY <2>1, <2>2
  <2> QED
    BY <2>1, <2>3, ElementOfSeq
<1> QED
  BY <1>2 DEF ArtifactName, Names

LEMMA InputsNamed ==
  ASSUME GapTypes, NEW r \in RunType, NEW n \in Nodes
  PROVE  InputsAt(r, n) \in SUBSET Names
<1>1. CASE n \in Branches
  <2>1. InputsAt(r, n) = {}
    BY <1>1, NodesDiffer, GapAssumption DEF InputsAt
  <2> QED
    BY <2>1
<1>2. CASE n = Verifier
  <2>1. InputsAt(r, n) = RefsOf(r, Plain)
    BY <1>2, NodesDiffer, GapAssumption DEF InputsAt
  <2> QED
    BY <2>1, RefsNamed, GapAssumption
<1>3. CASE n = Gap
  <2>1. InputsAt(r, n) = RefsOf(r, {Verifier})
    BY <1>3, NodesDiffer, GapAssumption DEF InputsAt
  <2> QED
    BY <2>1, RefsNamed, GapAssumption
<1>4. CASE n \in Subgraph
  <2>1. InputsAt(r, n) = Inputs(r, n)
    BY <1>4, NodesDiffer, GapAssumption DEF InputsAt
  <2>2. CASE n = Discovery
    BY <2>1, <2>2, RefsNamed DEF Inputs
  <2>3. CASE n # Discovery
    <3>1. Instances \subseteq DeepDives
      BY DEF GapTypes, RunType, Instances, DeepDives
    <3>2. DependsOn(n) \subseteq Subgraph
      BY <1>4, <2>3, <3>1, NodesDiffer, NodesKnown DEF DependsOn
    <3> QED
      BY <2>1, <2>3, <3>2, RefsNamed DEF Inputs
  <2> QED
    BY <2>2, <2>3
<1> QED
  BY <1>1, <1>2, <1>3, <1>4, GapAssumption DEF Nodes, Branches

(* A node refers to one Artifact more.                                     *)
LEMMA ReferredTyped ==
  ASSUME GapTypes, NEW n \in Subgraph \cup OtherNodes, NextName(n) \in Names
  PROVE  LET refs == [run.refs EXCEPT ![n] = Append(run.refs[n], NextVersion(n))] IN
         /\ n \in Nodes /\ refs \in [Nodes -> Seq(1 .. MaxVersion)]
         /\ refs[n] = Append(run.refs[n], NextVersion(n)) /\ refs[n] # <<>>
         /\ Last(refs[n]) = NextVersion(n)
         /\ \A m \in Nodes \ {n} : refs[m] = run.refs[m]
<1>1. n \in Nodes /\ run.refs[n] \in Seq(1 .. MaxVersion) /\ NextVersion(n) \in 1 .. MaxVersion
  BY NextIsOther DEF Nodes, GapTypes, RunType
<1>2. /\ Append(run.refs[n], NextVersion(n)) \in Seq(1 .. MaxVersion)
      /\ Append(run.refs[n], NextVersion(n)) # <<>>
      /\ Last(Append(run.refs[n], NextVersion(n))) = NextVersion(n)
  BY <1>1, AppendProperties DEF Last
<1> QED
  BY <1>1, <1>2 DEF GapTypes, RunType

(* A Snapshot with one reference more, or with nodes of other statuses.    *)
LEMMA ReferringTyped ==
  ASSUME GapTypes, NEW n \in Subgraph \cup OtherNodes, Writable(n)
  PROVE  /\ Referring(n) \in RunType /\ Completed(n) \in RunType /\ Stopped(n) \in RunType
         /\ \A r \in {Referring(n), Completed(n), Stopped(n)} :
              /\ r.refs[n] = Append(run.refs[n], NextVersion(n))
              /\ r.refs[n] # <<>> /\ Last(r.refs[n]) = NextVersion(n)
              /\ \A m \in Nodes \ {n} : r.refs[m] = run.refs[m] /\ r.status[m] = run.status[m]
              /\ r.fanout = run.fanout /\ r.cycle = run.cycle
         /\ Referring(n).status = run.status
         /\ Completed(n).status = [run.status EXCEPT ![n] = "VERIFIED"]
         /\ Completed(n).status[n] = "VERIFIED"
         /\ Kept(Stopped(n), Referring(n))
<1> DEFINE refs == [run.refs EXCEPT ![n] = Append(run.refs[n], NextVersion(n))]
           done == [run.status EXCEPT ![n] = "VERIFIED"]
           stopped == [run.status EXCEPT ![n] = "BLOCKED"]
           reusable == run.reusable \cup {<<n, run.inputs[n]>>}
<1>1. n \in Nodes /\ NextName(n) \in Names
  BY DEF Nodes, Writable
<1>2. /\ refs \in [Nodes -> Seq(1 .. MaxVersion)] /\ refs[n] = Append(run.refs[n], NextVersion(n))
      /\ refs[n] # <<>> /\ Last(refs[n]) = NextVersion(n)
      /\ \A m \in Nodes \ {n} : refs[m] = run.refs[m]
  BY <1>1, ReferredTyped
<1>3. reusable \in SUBSET (Nodes \X SUBSET Names)
  BY <1>1 DEF GapTypes, RunType
<1>4. /\ done \in [Nodes -> Status] /\ stopped \in [Nodes -> Status]
      /\ done[n] = "VERIFIED" /\ stopped[n] = "BLOCKED" /\ run.status[n] = "RUNNING"
      /\ \A m \in Nodes \ {n} : done[m] = run.status[m] /\ stopped[m] = run.status[m]
  BY <1>1 DEF GapTypes, RunType, Status, Writable, Running
<1>5. /\ Referring(n) = [run EXCEPT !.refs = refs]
      /\ Completed(n) = [run EXCEPT !.refs = refs, !.status = done, !.reusable = reusable]
      /\ Stopped(n) = [run EXCEPT !.refs = refs, !.status = stopped]
  BY DEF GapTypes, RunType, Referring, Completed, Stopped, Blocked
<1> HIDE DEF refs, done, stopped, reusable
<1>6. Referring(n) \in RunType /\ Completed(n) \in RunType /\ Stopped(n) \in RunType
  BY <1>2, <1>3, <1>4, <1>5 DEF GapTypes, RunType
<1>7. /\ Referring(n).refs = refs /\ Completed(n).refs = refs /\ Stopped(n).refs = refs
      /\ Referring(n).status = run.status /\ Completed(n).status = done /\ Stopped(n).status = stopped
      /\ \A r \in {Referring(n), Completed(n), Stopped(n)} : r.fanout = run.fanout /\ r.cycle = run.cycle
  BY <1>5 DEF GapTypes, RunType
<1>8. Kept(Stopped(n), Referring(n))
  BY <1>1, <1>4, <1>7 DEF Kept
<1>9. ASSUME NEW r \in {Referring(n), Completed(n), Stopped(n)}
      PROVE  /\ r.refs = refs /\ r.fanout = run.fanout /\ r.cycle = run.cycle
             /\ \A m \in Nodes \ {n} : r.status[m] = run.status[m]
  BY <1>4, <1>7
<1>10. Completed(n).status = [run.status EXCEPT ![n] = "VERIFIED"]
  BY <1>7 DEF done
<1> QED
  BY <1>2, <1>4, <1>6, <1>7, <1>8, <1>9, <1>10

(* What a Gap writes after its own result.                                 *)
LEMMA ResumedKept ==
  ASSUME NEW r \in RunType
  PROVE  Resumed(r) \in RunType /\ Kept(Resumed(r), r)
<1> DEFINE status == [n \in Nodes |-> IF r.status[n] = "INVALIDATED" THEN "PENDING" ELSE r.status[n]]
<1>1. Resumed(r) = [r EXCEPT !.status = status]
  BY DEF Resumed, RunType
<1>2. status \in [Nodes -> Status]
  BY DEF RunType, Status
<1>3. \A n \in Nodes :
        status[n] = r.status[n] \/ {status[n], r.status[n]} \cap {"VERIFIED", "ABSENT"} = {}
  OBVIOUS
<1> HIDE DEF status
<1> QED
  BY <1>1, <1>2, <1>3 DEF RunType, Kept

LEMMA StartedKept ==
  ASSUME GapTypes, NEW r \in RunType, NEW nodes \in SUBSET Nodes
  PROVE  Started(r, nodes) \in RunType /\ Kept(Started(r, nodes), r)
<1> DEFINE starting == {n \in nodes : Startable(r, n)}
           status == [n \in Nodes |-> IF n \in starting THEN "RUNNING" ELSE r.status[n]]
           inputs == [n \in Nodes |-> IF n \in starting THEN InputsAt(r, n) ELSE r.inputs[n]]
<1>1. Started(r, nodes) = [r EXCEPT !.status = status, !.inputs = inputs]
  BY DEF Started, RunType
<1>2. status \in [Nodes -> Status]
  BY DEF RunType, Status
<1>3. inputs \in [Nodes -> SUBSET Names]
  BY InputsNamed DEF RunType
<1>4. \A n \in Nodes :
        status[n] = r.status[n] \/ {status[n], r.status[n]} \cap {"VERIFIED", "ABSENT"} = {}
  BY DEF Startable
<1> HIDE DEF status, inputs
<1> QED
  BY <1>1, <1>2, <1>3, <1>4 DEF RunType, Kept

(* A node is invalidated, dropped or kept.                                 *)
LEMMA InvalidatedTyped ==
  ASSUME GapTypes, AbsentEmpty, NEW roots \in SUBSET Branches, run.cycle < MaxGlobalResearchCycles
  PROVE  LET r == Invalidated(roots)
             below == IF Container \in roots THEN Subgraph ELSE {} IN
         /\ r \in RunType /\ r.cycle = run.cycle + 1
         /\ r.fanout = IF Container \in roots THEN {} ELSE run.fanout
         /\ r.status[Verifier] = "INVALIDATED"
         /\ \A n \in (Branches \cup Subgraph) \ (roots \cup below) :
              r.status[n] = run.status[n] /\ r.refs[n] = run.refs[n]
         /\ \A n \in roots \cup below :
              r.status[n] \in {"INVALIDATED", "ABSENT"} /\ r.refs[n] = <<>>
         /\ \A n \in Nodes \ DeepDives : run.status[n] # "ABSENT" => r.status[n] # "ABSENT"
         /\ \A n \in Nodes : r.refs[n] = run.refs[n] \/ r.refs[n] = <<>>
         /\ Container \in roots => \A n \in DeepDives : r.status[n] = "ABSENT"
         /\ Container \notin roots => \A n \in DeepDives : r.status[n] = run.status[n]
<1> DEFINE dropped == IF Container \in roots THEN DeepDives ELSE {}
           below == IF Container \in roots THEN Subgraph ELSE {}
           status == [n \in Nodes |-> IF n \in dropped THEN "ABSENT"
                                      ELSE IF n \in Targets(roots) THEN "INVALIDATED" ELSE run.status[n]]
           refs == [n \in Nodes |-> IF n \in Targets(roots) THEN <<>> ELSE run.refs[n]]
           fanout == IF Container \in roots THEN {} ELSE run.fanout
           reusable == run.reusable \cup {<<Gap, run.inputs[Gap]>>}
<1>1. Invalidated(roots) = [run EXCEPT !.status = status, !.refs = refs, !.fanout = fanout,
                                       !.reusable = reusable, !.waived = FALSE,
                                       !.cycle = run.cycle + 1]
  BY DEF Invalidated, GapTypes, RunType
<1>2. status \in [Nodes -> Status]
  BY DEF GapTypes, RunType, Status
<1>3. refs \in [Nodes -> Seq(1 .. MaxVersion)]
  BY EmptySeq DEF GapTypes, RunType
<1>4. /\ fanout \in SUBSET Ids /\ run.cycle + 1 \in 0 .. MaxGlobalResearchCycles
      /\ reusable \in SUBSET (Nodes \X SUBSET Names)
  BY NodesKnown, GapAssumption DEF GapTypes, RunType
<1>5. Verifier \in Targets(roots) /\ Verifier \notin dropped /\ roots \cap dropped = {}
  BY NodesDiffer, NodesKnown, GapAssumption DEF Targets
<1>6. \A n \in (Branches \cup Subgraph) \ (roots \cup below) : n \notin Targets(roots) /\ n \notin dropped
  BY NodesDiffer, NodesKnown, GapAssumption DEF Targets
<1>7. \A n \in below : n \in Targets(roots) \/ run.status[n] = "ABSENT"
  BY DEF Targets, Present
<1>8. \A n \in Nodes : run.status[n] = "ABSENT" => n \in DeepDives /\ run.refs[n] = <<>>
  BY DEF AbsentEmpty, Present
<1>9. roots \subseteq Targets(roots) /\ roots \subseteq Nodes /\ below \subseteq Nodes /\ Verifier \in Nodes
  BY NodesKnown DEF Targets
<1>10. Container \notin roots => Targets(roots) \cap DeepDives = {}
  BY NodesDiffer, NodesKnown, GapAssumption DEF Targets
<1>11. DeepDives \subseteq Nodes
  BY NodesKnown
<1>12. /\ Invalidated(roots) \in RunType
       /\ Invalidated(roots).status = status /\ Invalidated(roots).refs = refs
       /\ Invalidated(roots).fanout = fanout /\ Invalidated(roots).cycle = run.cycle + 1
  <2> HIDE DEF status, refs, fanout, reusable
  <2> QED
    BY <1>1, <1>2, <1>3, <1>4 DEF GapTypes, RunType
<1>13. \A n \in roots \cup below : status[n] \in {"INVALIDATED", "ABSENT"} /\ refs[n] = <<>>
  BY <1>5, <1>7, <1>8, <1>9
<1>14. \A n \in (Branches \cup Subgraph) \ (roots \cup below) :
         status[n] = run.status[n] /\ refs[n] = run.refs[n]
  BY <1>6, NodesKnown
<1>15. \A n \in Nodes \ DeepDives : run.status[n] # "ABSENT" => status[n] # "ABSENT"
  OBVIOUS
<1>16. /\ status[Verifier] = "INVALIDATED" /\ \A n \in Nodes : refs[n] = run.refs[n] \/ refs[n] = <<>>
       /\ Container \in roots => \A n \in DeepDives : status[n] = "ABSENT"
       /\ Container \notin roots => \A n \in DeepDives : status[n] = run.status[n]
  BY <1>5, <1>9, <1>10, <1>11
<1> HIDE DEF status, refs, fanout
<1> QED
  BY <1>12, <1>13, <1>14, <1>15, <1>16 DEF fanout

-----------------------------------------------------------------------------
(* The operations of the service.                                          *)
LEMMA CompleteStep ==
  ASSUME GapInv, NEW n \in Subgraph \ {Ranking}, NEW d \in Made(n), Running(n), Complete(n, d)
  PROVE  GapStep
<1>1. Completing' /\ UNCHANGED <<run, files>>
  <2>1. todo' = <<File(NextName(n), d), Save(Completed(n))>> /\ UNCHANGED <<run, files>>
    BY DEF Complete, Call
  <2>2. NextName(n)' = NextName(n) /\ Completed(n)' = Completed(n) /\ Writable(n)'
    BY <2>1 DEF Complete, CanWrite, NextName, NextVersion, Completed, Referring, Writable, Running
  <2>3. d \in Made(n)'
    <3>1. Preserved /\ SamePresent
      BY <2>1 DEF Preserved, SamePresent, Verified
    <3> QED
      BY <3>1, MadeStays DEF GapInv
  <2> QED
    BY <2>1, <2>2, <2>3 DEF Completing
<1> QED
  BY <1>1, CallStep DEF TodoKnown

LEMMA InsufficientStep ==
  ASSUME GapInv, NEW n \in {Discovery} \cup DeepDives, NEW d \in Findings, Running(n), Insufficient(n, d)
  PROVE  GapStep
<1>1. todo' = <<File(NextName(n), d), Save(Referring(n)), Save(Stopped(n))>> /\ UNCHANGED <<run, files>>
  BY DEF Insufficient, Call, Stopped
<1>2. /\ NextName(n)' = NextName(n) /\ Referring(n)' = Referring(n) /\ Stopped(n)' = Stopped(n)
      /\ Writable(n)'
  BY <1>1 DEF Insufficient, CanWrite, NextName, NextVersion, Stopped, Blocked, Referring, Writable, Running
<1>3. Insufficing'
  BY <1>1, <1>2 DEF Insufficing
<1> QED
  BY <1>1, <1>3, CallStep DEF TodoKnown

LEMMA RankingStep ==
  ASSUME GapInv, AdvanceRanking
  PROVE  GapStep
<1> DEFINE ids == Selected(Document(Discovery).candidates)
           d == [selected |-> ids, candidates |-> CurrentRef(Discovery)]
<1>1. /\ todo' = <<File(NextName(Ranking), d), Save(Completed(Ranking)), Save(RankingDone(d))>>
      /\ UNCHANGED <<run, files>>
  <2>1. d.selected = ids
    OBVIOUS
  <2> QED
    BY <2>1 DEF AdvanceRanking, Call, RankingDone
<1>2. d \in Made(Ranking) /\ Running(Ranking) /\ CanWrite(Ranking)
  BY MadeMeans DEF AdvanceRanking
<1> HIDE DEF d
<1>3. d \in Made(Ranking)'
  <2>1. Preserved /\ SamePresent
    BY <1>1 DEF Preserved, SamePresent, Verified
  <2> QED
    BY <1>2, <2>1, MadeStays, NodesKnown DEF GapInv
<1>4. PICK c : c = d
  OBVIOUS
<1>5. /\ NextName(Ranking)' = NextName(Ranking) /\ Completed(Ranking)' = Completed(Ranking)
      /\ Writable(Ranking)'
  BY <1>1, <1>2
  DEF CanWrite, NextName, NextVersion, Completed, Referring, Writable, Running, Ranking
<1>6. RankingDone(c)' = RankingDone(c)
  BY <1>5 DEF RankingDone, FannedOut
<1>7. RankingOut'
  BY <1>1, <1>3, <1>4, <1>5, <1>6 DEF RankingOut
<1> QED
  BY <1>1, <1>7, CallStep DEF TodoKnown

LEMMA ChangeKept ==
  ASSUME GapInv, NEW r \in RunType, Kept(r, run), Change(r)
  PROVE  GapStep
<1>1. run' = r /\ UNCHANGED files /\ todo' = <<>>
  BY DEF Change, Idle
<1> QED
  BY <1>1, IdleRests, NothingVerified DEF GapInv, GapTypes

(* A node's status may change, but for VERIFIED and ABSENT.                *)
LEMMA StatusKept ==
  ASSUME GapTypes, NEW n \in Nodes, run.status[n] \notin {"VERIFIED", "ABSENT"},
         NEW status \in Status \ {"VERIFIED", "ABSENT"}
  PROVE  LET r == [run EXCEPT !.status[n] = status] IN
         /\ r \in RunType /\ Kept(r, run)
         /\ \A k \in 0 .. MaxRetries :
              [run EXCEPT !.status[n] = status, !.retries = k] \in RunType
                /\ Kept([run EXCEPT !.status[n] = status, !.retries = k], run)
<1>1. PICK changed : changed = [run.status EXCEPT ![n] = status]
  OBVIOUS
<1>2. changed \in [Nodes -> Status]
      /\ \A m \in Nodes : changed[m] = run.status[m]
                            \/ {changed[m], run.status[m]} \cap {"VERIFIED", "ABSENT"} = {}
  BY <1>1 DEF GapTypes, RunType
<1>3. /\ [run EXCEPT !.status[n] = status] = [run EXCEPT !.status = changed]
      /\ \A k : [run EXCEPT !.status[n] = status, !.retries = k] = [run EXCEPT !.status = changed, !.retries = k]
  BY <1>1 DEF GapTypes, RunType
<1>4. ASSUME NEW k \in 0 .. MaxRetries
      PROVE  /\ [run EXCEPT !.status = changed, !.retries = k] \in RunType
             /\ Kept([run EXCEPT !.status = changed, !.retries = k], run)
  BY <1>2 DEF GapTypes, RunType, Kept
<1>5. [run EXCEPT !.status = changed] \in RunType /\ Kept([run EXCEPT !.status = changed], run)
  BY <1>2 DEF GapTypes, RunType, Kept
<1> QED
  BY <1>3, <1>4, <1>5

(* An Attempt begins.                                                      *)
LEMMA BegunKept ==
  ASSUME GapTypes, NEW n \in Nodes, run.status[n] = "PENDING", NEW inputs \in SUBSET Names
  PROVE  LET r == Begun(run, n, inputs) IN
         /\ r \in RunType /\ Kept(r, run)
         /\ \A k \in 0 .. MaxVersion : [r EXCEPT !.gap_attempt = k] \in RunType
                                         /\ Kept([r EXCEPT !.gap_attempt = k], run)
<1>1. PICK changed, read : /\ changed = [run.status EXCEPT ![n] = "RUNNING"]
                          /\ read = [run.inputs EXCEPT ![n] = inputs]
  OBVIOUS
<1>2. /\ changed \in [Nodes -> Status] /\ read \in [Nodes -> SUBSET Names]
      /\ \A m \in Nodes : changed[m] = run.status[m]
                            \/ {changed[m], run.status[m]} \cap {"VERIFIED", "ABSENT"} = {}
  BY <1>1 DEF GapTypes, RunType, Status
<1>3. Begun(run, n, inputs) = [run EXCEPT !.status = changed, !.inputs = read]
  BY <1>1 DEF Begun, GapTypes, RunType
<1>4. PICK r : r = [run EXCEPT !.status = changed, !.inputs = read]
  OBVIOUS
<1>5. r \in RunType /\ Kept(r, run)
  BY <1>2, <1>4 DEF GapTypes, RunType, Kept
<1>6. ASSUME NEW k \in 0 .. MaxVersion
      PROVE  [r EXCEPT !.gap_attempt = k] \in RunType /\ Kept([r EXCEPT !.gap_attempt = k], run)
  BY <1>5 DEF RunType, Kept
<1> QED
  BY <1>3, <1>4, <1>5, <1>6

LEMMA BlockStep ==
  ASSUME GapInv, NEW n \in Nodes, Running(n), Change(Blocked(run, n))
  PROVE  GapStep
<1>1. Blocked(run, n) \in RunType /\ Kept(Blocked(run, n), run)
  BY StatusKept DEF GapInv, Blocked, Running, Status
<1> QED
  BY <1>1, ChangeKept

LEMMA AdvanceStep ==
  ASSUME GapInv, Advance
  PROVE  GapStep
<1>1. ASSUME NEW d \in Discoveries, AdvanceDiscovery(d) PROVE GapStep
  <2>1. [candidates |-> d.candidates] \in Made(Discovery) \cap Findings
    BY MadeMeans DEF Findings
  <2>2. Discovery \in Subgraph \ {Ranking} /\ Running(Discovery)
    BY <1>1, NodesKnown, NodesDiffer DEF AdvanceDiscovery
  <2>3. CASE Complete(Discovery, [candidates |-> d.candidates])
    BY <2>1, <2>2, <2>3, CompleteStep
  <2>4. CASE Insufficient(Discovery, [candidates |-> d.candidates])
    BY <2>1, <2>2, <2>4, InsufficientStep
  <2> QED
    BY <1>1, <2>3, <2>4 DEF AdvanceDiscovery
<1>2. ASSUME NEW id \in Ids, NEW resolved \in BOOLEAN, AdvanceDeepDive(id, resolved) PROVE GapStep
  <2>1. /\ DeepDive(id) \in DeepDives /\ DeepDive(id) \in Subgraph \ {Ranking}
        /\ Running(DeepDive(id)) /\ Verified(Ranking) /\ id \in Document(Ranking).selected
    BY <1>2, NodesKnown, NodesDiffer DEF AdvanceDeepDive, DeepDives
  <2>2. CASE resolved /\ Complete(DeepDive(id), [id |-> id, resolved |-> resolved])
    <3>1. resolved = TRUE
      BY <2>2
    <3>2. [id |-> id, resolved |-> resolved] \in Made(DeepDive(id))
      BY <2>1, <3>1, MadeMeans
    <3> QED
      BY <2>1, <2>2, <3>2, CompleteStep
  <2>3. CASE ~ resolved /\ Insufficient(DeepDive(id), [id |-> id, resolved |-> resolved])
    <3>1. resolved = FALSE
      BY <2>3
    <3>2. [id |-> id, resolved |-> resolved] \in Findings
      BY <3>1 DEF Findings
    <3> QED
      BY <2>1, <2>3, <3>2, InsufficientStep
  <2> QED
    BY <1>2, <2>2, <2>3 DEF AdvanceDeepDive
<1>3. ASSUME NEW n \in Subgraph \ {Ranking}, NEW d \in Made(n), Running(n), CompleteOrBlock(n, d)
      PROVE  GapStep
  BY <1>3, CompleteStep, BlockStep, NodesKnown DEF CompleteOrBlock
<1>4. ASSUME AdvanceNormalizer PROVE GapStep
  <2>1. [deep_dives |-> Dived] \in Made(Normalizer) /\ Normalizer \in Subgraph \ {Ranking}
    BY <1>4, MadeMeans, NodesKnown, NodesDiffer DEF AdvanceNormalizer
  <2> QED
    BY <1>3, <1>4, <2>1 DEF AdvanceNormalizer
<1>5. ASSUME NEW n \in AnalysisNodes, AdvanceAnalysis(n) PROVE GapStep
  <2>1. /\ [dataset |-> CurrentRef(Normalizer), deep_dives |-> Dived] \in Made(n)
        /\ n \in Subgraph \ {Ranking}
    BY <1>5, MadeMeans, NodesKnown, NodesDiffer DEF AdvanceAnalysis
  <2> QED
    BY <1>3, <1>5, <2>1 DEF AdvanceAnalysis
<1>6. ASSUME AdvanceFacts PROVE GapStep
  <2>1. [inputs |-> Projected] \in Made(Facts) /\ Facts \in Subgraph \ {Ranking}
    BY <1>6, MadeMeans, NodesKnown, NodesDiffer DEF AdvanceFacts
  <2> QED
    BY <1>3, <1>6, <2>1 DEF AdvanceFacts, Projected
<1> QED
  BY <1>1, <1>2, <1>4, <1>5, <1>6, RankingStep DEF Advance

-----------------------------------------------------------------------------
(* What the scheduler, the host and the other executors do.                *)
LEMMA HostStep ==
  ASSUME GapInv,
         \/ ScheduleAny \/ ScheduleBranches \/ Block \/ RequestMoreResearch \/ ScheduleGap
         \/ ResumeInvalidated \/ (\E n \in {Discovery, Gap} : Fail(n)) \/ (\E n \in Nodes : Retry(n))
  PROVE  GapStep
<1>1. ASSUME NEW n \in Nodes, run.status[n] = "PENDING", NEW inputs \in SUBSET Names,
             Change(Begun(run, n, inputs))
      PROVE  GapStep
  BY <1>1, BegunKept, ChangeKept DEF GapInv
<1>2. CASE ScheduleAny
  <2>1. PICK n \in Subgraph : Schedule(n)
    BY <1>2 DEF ScheduleAny
  <2>2. n \in Nodes /\ InputsAt(run, n) = Inputs(run, n)
    BY NodesKnown, NodesDiffer, GapAssumption DEF InputsAt
  <2>3. Inputs(run, n) \in SUBSET Names
    BY <2>2, InputsNamed DEF GapInv, GapTypes
  <2> QED
    BY <1>1, <2>1, <2>2, <2>3 DEF Schedule, Ready
<1>3. CASE ScheduleBranches
  <2>1. {} \in SUBSET Names
    OBVIOUS
  <2> QED
    BY <1>1, <1>3, <2>1, NodesKnown DEF ScheduleBranches, ScheduleBranch, Startable
<1>4. CASE \E n \in {Discovery, Gap} : Fail(n)
  <2>1. PICK n \in Nodes : run.status[n] = "RUNNING" /\ Change([run EXCEPT !.status[n] = "FAILED"])
    BY <1>4, NodesKnown DEF Fail, Running
  <2>2. run.status[n] \notin {"VERIFIED", "ABSENT"} /\ "FAILED" \in Status \ {"VERIFIED", "ABSENT"}
    BY <2>1 DEF Status
  <2>3. [run EXCEPT !.status[n] = "FAILED"] \in RunType /\ Kept([run EXCEPT !.status[n] = "FAILED"], run)
    BY <2>2, StatusKept DEF GapInv
  <2> QED
    BY <2>1, <2>3, ChangeKept
<1>5. CASE Block
  BY <1>5, BlockStep, NodesKnown DEF Block
<1>6. CASE \E n \in Nodes : Retry(n)
  <2>1. PICK n \in Nodes : Retry(n)
    BY <1>6
  <2>2. run.retries + 1 \in 0 .. MaxRetries
    <3>1. run.retries < MaxRetries
      BY <2>1 DEF Retry
    <3> QED
      BY <3>1, ResearchAssumption DEF GapInv, GapTypes, RunType
  <2>3. run.status[n] \notin {"VERIFIED", "ABSENT"} /\ "PENDING" \in Status \ {"VERIFIED", "ABSENT"}
    BY <2>1 DEF Retry, Status
  <2>4. PICK k \in 0 .. MaxRetries : k = run.retries + 1
    BY <2>2
  <2>5. /\ [run EXCEPT !.status[n] = "PENDING", !.retries = k] \in RunType
        /\ Kept([run EXCEPT !.status[n] = "PENDING", !.retries = k], run)
    BY <2>3, StatusKept DEF GapInv
  <2>6. [run EXCEPT !.status[n] = "PENDING", !.retries = @ + 1]
          = [run EXCEPT !.status[n] = "PENDING", !.retries = k]
    BY <2>4 DEF GapInv, GapTypes, RunType
  <2>7. Change([run EXCEPT !.status[n] = "PENDING", !.retries = k])
    BY <2>1, <2>6 DEF Retry
  <2> QED
    BY <2>5, <2>7, ChangeKept
<1>7. CASE ScheduleGap
  <2>1. run.gap_attempt + 1 \in 0 .. MaxVersion
    BY <1>7, ResearchAssumption DEF ScheduleGap, GapInv, GapTypes, RunType, MaxVersion
  <2>2. run.status[Gap] = "PENDING" /\ Gap \in Nodes
    BY <1>7, NodesKnown DEF ScheduleGap, Startable
  <2>3. PICK k \in 0 .. MaxVersion : k = run.gap_attempt + 1
    BY <2>1
  <2>4. PICK inputs \in SUBSET Names : inputs = InputsAt(run, Gap)
    BY <2>2, InputsNamed DEF GapInv, GapTypes
  <2>5. PICK r : r = Begun(run, Gap, inputs)
    OBVIOUS
  <2>6. [r EXCEPT !.gap_attempt = k] \in RunType /\ Kept([r EXCEPT !.gap_attempt = k], run)
    BY <2>2, <2>5, BegunKept DEF GapInv
  <2>7. r.gap_attempt = run.gap_attempt
    BY <2>5 DEF Begun, GapInv, GapTypes, RunType
  <2>8. Change([r EXCEPT !.gap_attempt = k])
    BY <1>7, <2>3, <2>4, <2>5, <2>7 DEF ScheduleGap
  <2> QED
    BY <2>6, <2>8, ChangeKept
<1>8. CASE RequestMoreResearch
  <2>1. [run EXCEPT !.waived = TRUE] \in RunType /\ Kept([run EXCEPT !.waived = TRUE], run)
    BY DEF GapInv, GapTypes, RunType, Kept
  <2> QED
    BY <1>8, <2>1, ChangeKept DEF RequestMoreResearch
<1>9. CASE ResumeInvalidated
  <2>1. Resumed(run) \in RunType /\ Kept(Resumed(run), run)
    BY ResumedKept DEF GapInv, GapTypes
  <2> QED
    BY <1>9, <2>1, ChangeKept DEF ResumeInvalidated
<1> QED
  BY <1>2, <1>3, <1>4, <1>5, <1>6, <1>7, <1>8, <1>9

(* A top-level node is verified: nothing below it changes.                 *)
LEMMA TopVerified ==
  ASSUME GapInv, NEW n \in Branches \cup {Verifier}, run.status[n] # "ABSENT",
         n = Verifier => \A b \in Branches : Verified(b),
         run' \in RunType, \A m \in Nodes \ {n} : run'.refs[m] = run.refs[m],
         run'.fanout = run.fanout, run'.cycle = run.cycle,
         run'.status = [run.status EXCEPT ![n] = "VERIFIED"], files' = files, todo' = <<>>
  PROVE  GapStep
<1>1. n \in Nodes /\ n \notin Subgraph
  BY NodesKnown, NodesDiffer, GapAssumption
<1>2. \A m \in Nodes : run'.status[m] = IF m = n THEN "VERIFIED" ELSE run.status[m]
  BY <1>1 DEF GapInv, GapTypes, RunType
<1>3. SamePresent /\ Preserved
  BY <1>1, <1>2, NodesKnown DEF SamePresent, Preserved, Verified
<1>4. VerifierLast'
  BY <1>2, NodesKnown DEF GapInv, VerifierLast, Verified
<1>5. \A m \in Subgraph : run'.status[m] = "VERIFIED" => Verified(m)
  BY <1>1, <1>2, NodesKnown DEF Verified
<1>6. \A m \in Nodes : run.status[m] = "ABSENT" => run'.refs[m] = run.refs[m]
  OBVIOUS
<1> QED
  BY <1>3, <1>4, <1>5, <1>6, IdleRests, MoreVerified DEF GapInv, GapTypes

LEMMA VerifyStep ==
  ASSUME GapInv,
         \/ CompleteSubgraph \/ \E b \in Plain : CompleteBranch(b)
         \/ \E issues \in SUBSET Issues, result \in {"PASS", "PARTIAL", "FAIL"} : Verify(issues, result)
  PROVE  GapStep
<1>1. CASE CompleteSubgraph
  <2>1. PICK n \in Branches : n = Container
    BY DEF Branches
  <2>2. /\ run.status[n] = "RUNNING" /\ run' = [run EXCEPT !.status[n] = "VERIFIED"]
        /\ files' = files /\ todo' = <<>>
    BY <1>1, <2>1 DEF CompleteSubgraph, Running, Change, Idle
  <2>3. /\ [run.status EXCEPT ![n] = "VERIFIED"] \in [Nodes -> Status]
        /\ run' = [run EXCEPT !.status = [run.status EXCEPT ![n] = "VERIFIED"]]
    BY <2>2, NodesKnown DEF GapInv, GapTypes, RunType, Status
  <2>4. /\ run' \in RunType /\ run'.refs = run.refs /\ run'.fanout = run.fanout /\ run'.cycle = run.cycle
        /\ run'.status = [run.status EXCEPT ![n] = "VERIFIED"]
    BY <2>3 DEF GapInv, GapTypes, RunType
  <2>5. n # Verifier
    BY NodesDiffer
  <2> QED
    BY <2>2, <2>4, <2>5, TopVerified
<1>2. CASE \E b \in Plain : CompleteBranch(b)
  <2>1. PICK b \in Plain : CompleteBranch(b)
    BY <1>2
  <2>2. /\ b \in OtherNodes /\ b \in Branches /\ b # Verifier
    BY GapAssumption DEF Branches
  <2>3. Writable(b) /\ run' = Completed(b) /\ files' = files /\ todo' = <<>>
    BY <2>1 DEF CompleteBranch, Writable, Change, Idle
  <2>4. /\ run' \in RunType /\ \A m \in Nodes \ {b} : run'.refs[m] = run.refs[m]
        /\ run'.fanout = run.fanout /\ run'.cycle = run.cycle
        /\ run'.status = [run.status EXCEPT ![b] = "VERIFIED"]
    BY <2>2, <2>3, ReferringTyped DEF GapInv
  <2>5. run.status[b] # "ABSENT"
    BY <2>3 DEF Writable, Running
  <2> QED
    BY <2>2, <2>3, <2>4, <2>5, TopVerified
<1>3. CASE \E issues \in SUBSET Issues, result \in {"PASS", "PARTIAL", "FAIL"} : Verify(issues, result)
  <2>1. PICK issues \in SUBSET Issues, result \in {"PASS", "PARTIAL", "FAIL"} : Verify(issues, result)
    BY <1>3
  <2>2. PICK refs, inputs, reusable, status :
          /\ refs = [run.refs EXCEPT ![Verifier] = Append(run.refs[Verifier], NextVersion(Verifier))]
          /\ inputs = [run.inputs EXCEPT ![Verifier] = InputsAt(run, Verifier)]
          /\ reusable = run.reusable \cup {<<Verifier, InputsAt(run, Verifier)>>}
          /\ status = [run.status EXCEPT ![Verifier] = "VERIFIED"]
    OBVIOUS
  <2>3. /\ run' = [Completed(Verifier) EXCEPT
                     !.inputs[Verifier] = InputsAt(run, Verifier), !.reusable = reusable,
                     !.issues = issues, !.result = result]
        /\ files' = files /\ todo' = <<>> /\ NextName(Verifier) \in Names
    BY <2>1, <2>2 DEF Verify, Change, Idle
  <2>4. /\ Completed(Verifier) =
             [run EXCEPT !.refs = refs, !.status = status,
                         !.reusable = run.reusable \cup {<<Verifier, run.inputs[Verifier]>>}]
        /\ Completed(Verifier).inputs = run.inputs
    BY <2>2 DEF Completed, Referring, GapInv, GapTypes, RunType
  <2>5. run' = [run EXCEPT !.refs = refs, !.status = status, !.inputs = inputs,
                           !.reusable = reusable, !.issues = issues, !.result = result]
    BY <2>2, <2>3, <2>4 DEF GapInv, GapTypes, RunType
  <2>6. InputsAt(run, Verifier) \in SUBSET Names
    BY InputsNamed, NodesKnown DEF GapInv, GapTypes
  <2>7. /\ refs \in [Nodes -> Seq(1 .. MaxVersion)]
        /\ \A m \in Nodes \ {Verifier} : refs[m] = run.refs[m]
    BY <2>2, <2>3, ReferredTyped, GapAssumption DEF GapInv
  <2>8. /\ status \in [Nodes -> Status] /\ inputs \in [Nodes -> SUBSET Names]
        /\ reusable \in SUBSET (Nodes \X SUBSET Names)
    BY <2>2, <2>6, NodesKnown DEF GapInv, GapTypes, RunType, Status
  <2>9. /\ run' \in RunType /\ run'.refs = refs /\ run'.fanout = run.fanout /\ run'.cycle = run.cycle
        /\ run'.status = status
    BY <2>5, <2>7, <2>8 DEF GapInv, GapTypes, RunType
  <2>10. run.status[Verifier] # "ABSENT" /\ \A b \in Branches : Verified(b)
    BY <2>1 DEF Verify, Startable
  <2> QED
    BY <2>2, <2>3, <2>7, <2>9, <2>10, TopVerified
<1> QED
  BY <1>1, <1>2, <1>3

-----------------------------------------------------------------------------
(* A Gap plans, and computes all it will write.                            *)
LEMMA PlanStep ==
  ASSUME GapInv, NEW plan \in [run.issues -> Branches], AdvanceGap(plan)
  PROVE  GapStep
<1> DEFINE roots == {plan[i] : i \in DOMAIN plan}
           r == Invalidated(roots)
           resumed == Resumed(r)
           started == Started(resumed, roots)
           discovering == Started(started, {Discovery})
           writes == <<File(GapName, [roots |-> roots]), Save(r), Save(resumed), Save(started)>>
<1>1. /\ todo' = writes \/ todo' = Append(writes, Save(discovering))
      /\ UNCHANGED <<run, files>>
  BY DEF AdvanceGap, Call
<1>2. /\ roots \in SUBSET Branches /\ roots # Branches /\ Verified(Verifier)
      /\ run.cycle < MaxGlobalResearchCycles /\ GapName \in Names
  BY DEF AdvanceGap, NotEveryBranch
<1> HIDE DEF roots
<1>3. r \in RunType
  BY <1>2, InvalidatedTyped DEF GapInv
<1> HIDE DEF r
<1>4. resumed \in RunType /\ Kept(resumed, r)
  BY <1>3, ResumedKept
<1> HIDE DEF resumed
<1>5. started \in RunType /\ Kept(started, r)
  <2>1. roots \in SUBSET Nodes
    BY <1>2, NodesKnown
  <2> QED
    BY <1>4, <2>1, StartedKept, KeptEquivalence DEF GapInv
<1> HIDE DEF started
<1>6. discovering \in RunType /\ Kept(discovering, r)
  <2>1. {Discovery} \in SUBSET Nodes
    BY NodesKnown
  <2> QED
    BY <1>5, <2>1, StartedKept, KeptEquivalence DEF GapInv
<1> HIDE DEF discovering
<1>7. {Save(resumed), Save(started), Save(discovering)} \subseteq Saves(r)
  BY <1>4, <1>5, <1>6 DEF Saves
<1>8. /\ todo' # <<>> /\ Head(todo') = File(GapName, [roots |-> roots])
      /\ Tail(todo') # <<>> /\ Head(Tail(todo')) = Save(r)
      /\ Tail(Tail(todo')) \in Seq(Saves(r))
  <2> DEFINE first == File(GapName, [roots |-> roots])
  <2>1. PICK all : all = todo'
    OBVIOUS
  <2>2. /\ Save(resumed) \in Saves(r) /\ Save(started) \in Saves(r) /\ Save(discovering) \in Saves(r)
        /\ \/ all = <<first, Save(r), Save(resumed), Save(started)>>
           \/ all = Append(<<first, Save(r), Save(resumed), Save(started)>>, Save(discovering))
    BY <1>1, <1>7, <2>1
  <2> HIDE DEF first
  <2>3. /\ all # <<>> /\ Head(all) = first
        /\ Tail(all) # <<>> /\ Head(Tail(all)) = Save(r) /\ Tail(Tail(all)) \in Seq(Saves(r))
    <3>1. PICK S, a, b, c, d, e : /\ S = Saves(r) /\ a = first /\ b = Save(r)
                                 /\ c = Save(resumed) /\ d = Save(started) /\ e = Save(discovering)
      OBVIOUS
    <3>2. /\ c \in S /\ d \in S /\ e \in S
          /\ all = <<a, b, c, d>> \/ all = Append(<<a, b, c, d>>, e)
      BY <2>2, <3>1
    <3>3. /\ all # <<>> /\ Head(all) = a
          /\ Tail(all) # <<>> /\ Head(Tail(all)) = b /\ Tail(Tail(all)) \in Seq(S)
      <4>1. CASE all = <<a, b, c, d>>
        BY <3>2, <4>1
      <4>2. CASE all = Append(<<a, b, c, d>>, e)
        <5>1. Append(<<a, b, c, d>>, e) = <<a, b, c, d, e>>
          <6> DEFINE any == {a, b, c, d, e}
          <6>1. <<a, b, c, d>> \in Seq(any) /\ <<a, b, c, d, e>> \in Seq(any)
            OBVIOUS
          <6>2. /\ Append(<<a, b, c, d>>, e) \in Seq(any) /\ Len(Append(<<a, b, c, d>>, e)) = 5
                /\ \A i \in 1 .. 4 : Append(<<a, b, c, d>>, e)[i] = <<a, b, c, d>>[i]
                /\ Append(<<a, b, c, d>>, e)[5] = e
            BY <6>1, AppendProperties
          <6>3. \A i \in 1 .. 5 : Append(<<a, b, c, d>>, e)[i] = <<a, b, c, d, e>>[i]
            BY <6>2
          <6> QED
            BY <6>1, <6>2, <6>3, SeqEqual
        <5>2. all = <<a, b, c, d, e>>
          BY <4>2, <5>1
        <5> QED
          BY <3>2, <5>2
      <4> QED
        BY <3>2, <4>1, <4>2
    <3> QED
      BY <3>1, <3>3
  <2> QED
    BY <2>1, <2>3 DEF first
<1>9. PICK x \in SUBSET Branches : x = roots
  BY <1>2
<1>10. GapName' = GapName /\ Invalidated(x)' = Invalidated(x) /\ Verified(Verifier)'
  BY <1>1, <1>2 DEF GapName, Invalidated, Targets, Present, Verified, Verifier
<1>11. Saves(Invalidated(x))' = Saves(Invalidated(x))
  BY <1>10 DEF Saves, Kept
<1>12. Repeating'
  BY <1>1, <1>2, <1>8, <1>9, <1>10, <1>11 DEF Repeating, r
<1> QED
  BY <1>1, <1>12, CallStep DEF TodoKnown

-----------------------------------------------------------------------------
(* A call writes.                                                          *)
LEMMA WriteStep ==
  ASSUME GapInv, WriteFile
  PROVE  GapStep
<1> DEFINE write == Head(todo)
<1>1. /\ todo # <<>> /\ write.kind = "file" /\ run' = run
      /\ \/ /\ files[write.name] = None /\ todo' = Tail(todo)
            /\ files' = [files EXCEPT ![write.name] = write.document]
         \/ todo' = <<>> /\ files' = files
  BY DEF WriteFile
<1>2. PICK name, document : name = write.name /\ document = write.document
  OBVIOUS
<1>3. DOMAIN files' = Names /\ \A other \in Names : other # name => files'[other] = files[other]
  BY <1>1, <1>2 DEF GapInv, GapTypes
<1>4. Kept(run', run) /\ run' \in RunType
  BY <1>1 DEF Kept, GapInv, GapTypes
<1>5. CASE todo' = <<>> /\ files' = files
  BY <1>4, <1>5, IdleRests, NothingVerified DEF GapInv, GapTypes
<1>6. ASSUME \A m \in Subgraph : Verified(m) => ArtifactName(m, Last(run.refs[m])) # name, TodoKnown'
      PROVE  GapStep
  BY <1>3, <1>4, <1>6, CurrentNamed, NothingVerified DEF GapInv
<1>7. ASSUME NEW n \in Subgraph, Running(n), name = NextName(n)
      PROVE  \A m \in Subgraph : Verified(m) => ArtifactName(m, Last(run.refs[m])) # name
  <2>1. ~ Verified(n)
    BY <1>7 DEF Running, Verified
  <2> QED
    BY <1>7, <2>1, NextIsOther DEF GapInv
<1>8. ASSUME name \in Names, todo' = Tail(todo), files' = [files EXCEPT ![write.name] = write.document]
      PROVE  files'[name] = document
  BY <1>2, <1>8 DEF GapInv, GapTypes
<1>9. CASE todo' = Tail(todo) /\ files' = [files EXCEPT ![write.name] = write.document]
  <2>1. CASE Completing
    <3>0. PICK n \in Subgraph \ {Ranking} : \E d \in Made(n) :
            /\ Writable(n)
            /\ \/ todo = <<File(NextName(n), d), Save(Completed(n))>>
               \/ todo = <<Save(Completed(n))>> /\ files[NextName(n)] = d
      BY <2>1 DEF Completing
    <3>1. PICK d \in Made(n) :
            /\ Writable(n)
            /\ \/ todo = <<File(NextName(n), d), Save(Completed(n))>>
               \/ todo = <<Save(Completed(n))>> /\ files[NextName(n)] = d
      BY <3>0
    <3>2. todo = <<File(NextName(n), d), Save(Completed(n))>> /\ name = NextName(n) /\ document = d
      BY <1>1, <1>2, <3>1, Tuples, Writes
    <3>3. todo' = <<Save(Completed(n))>> /\ files'[NextName(n)] = d
      BY <1>8, <1>9, <3>1, <3>2, Tuples DEF Writable
    <3>4. /\ NextName(n)' = NextName(n) /\ Completed(n)' = Completed(n) /\ Writable(n)'
      BY <1>1, <3>1 DEF NextName, NextVersion, Completed, Referring, Writable, Running
    <3>5. \A m \in Subgraph : Verified(m) => ArtifactName(m, Last(run.refs[m])) # name
      BY <1>7, <3>1, <3>2 DEF Writable
    <3>6. d \in Made(n)'
      <4>1. Preserved /\ SamePresent
        BY <1>1, <1>3, <3>5, CurrentNamed DEF Preserved, SamePresent, Verified, GapInv
      <4> QED
        BY <3>1, <4>1, MadeStays DEF GapInv
    <3>7. Completing'
      BY <3>1, <3>3, <3>4, <3>6 DEF Completing
    <3> QED
      BY <1>6, <3>5, <3>7 DEF TodoKnown
  <2>2. CASE RankingOut
    <3>1. PICK d \in Made(Ranking) :
            /\ Writable(Ranking)
            /\ \/ todo = <<File(NextName(Ranking), d), Save(Completed(Ranking)), Save(RankingDone(d))>>
               \/ /\ todo = <<Save(Completed(Ranking)), Save(RankingDone(d))>>
                  /\ files[NextName(Ranking)] = d
      BY <2>2 DEF RankingOut
    <3>2. /\ todo = <<File(NextName(Ranking), d), Save(Completed(Ranking)), Save(RankingDone(d))>>
          /\ name = NextName(Ranking) /\ document = d
      BY <1>1, <1>2, <3>1, Tuples, Writes
    <3>3. /\ todo' = <<Save(Completed(Ranking)), Save(RankingDone(d))>>
          /\ files'[NextName(Ranking)] = d
      BY <1>8, <1>9, <3>1, <3>2, Tuples DEF Writable
    <3>4. /\ NextName(Ranking)' = NextName(Ranking) /\ Completed(Ranking)' = Completed(Ranking)
          /\ Writable(Ranking)'
      BY <1>1, <3>1 DEF NextName, NextVersion, Completed, Referring, Writable, Running, Ranking
    <3>5. RankingDone(d)' = RankingDone(d)
      BY <3>4 DEF RankingDone, FannedOut
    <3>6. \A m \in Subgraph : Verified(m) => ArtifactName(m, Last(run.refs[m])) # name
      BY <1>7, <3>1, <3>2, NodesKnown DEF Writable
    <3>7. d \in Made(Ranking)'
      <4>1. Preserved /\ SamePresent
        BY <1>1, <1>3, <3>6, CurrentNamed DEF Preserved, SamePresent, Verified, GapInv
      <4> QED
        BY <3>1, <4>1, MadeStays, NodesKnown DEF GapInv
    <3>8. RankingOut'
      BY <3>1, <3>3, <3>4, <3>5, <3>7 DEF RankingOut
    <3> QED
      BY <1>6, <3>6, <3>8 DEF TodoKnown
  <2>3. CASE FanningOut
    BY <1>1, <2>3, Tuples, Writes DEF FanningOut
  <2>4. CASE Insufficing
    <3>1. PICK n \in {Discovery} \cup DeepDives :
            /\ Writable(n)
            /\ \/ \E d \in Findings :
                    todo = <<File(NextName(n), d), Save(Referring(n)), Save(Stopped(n))>>
               \/ todo = <<Save(Referring(n)), Save(Stopped(n))>>
      BY <2>4 DEF Insufficing
    <3>2. todo' = <<Save(Referring(n)), Save(Stopped(n))>> /\ name = NextName(n)
      <4>1. todo # <<Save(Referring(n)), Save(Stopped(n))>>
        BY <1>1, Tuples, Writes
      <4>2. PICK d : todo = <<File(NextName(n), d), Save(Referring(n)), Save(Stopped(n))>>
        BY <3>1, <4>1
      <4>3. Head(todo) = File(NextName(n), d) /\ Tail(todo) = <<Save(Referring(n)), Save(Stopped(n))>>
        BY <4>2
      <4> QED
        BY <1>2, <1>9, <4>3, Writes
    <3>3. /\ NextName(n)' = NextName(n) /\ Referring(n)' = Referring(n) /\ Stopped(n)' = Stopped(n)
          /\ Writable(n)'
      BY <1>1, <3>1 DEF NextName, NextVersion, Stopped, Blocked, Referring, Writable, Running
    <3>4. Insufficing'
      BY <3>1, <3>2, <3>3 DEF Insufficing
    <3> QED
      BY <1>6, <1>7, <3>1, <3>2, <3>4, NodesKnown DEF TodoKnown, Writable
  <2>5. CASE Repeating
    <3>1. PICK roots \in SUBSET Branches :
            /\ roots # Branches /\ Verified(Verifier) /\ run.cycle < MaxGlobalResearchCycles
            /\ GapName \in Names /\ todo # <<>>
            /\ \/ /\ Head(todo) = File(GapName, [roots |-> roots])
                  /\ Tail(todo) # <<>> /\ Head(Tail(todo)) = Save(Invalidated(roots))
                  /\ Tail(Tail(todo)) \in Seq(Saves(Invalidated(roots)))
               \/ /\ Head(todo) = Save(Invalidated(roots)) /\ files[GapName] = [roots |-> roots]
                  /\ Tail(todo) \in Seq(Saves(Invalidated(roots)))
      BY <2>5 DEF Repeating
    <3>2. /\ name = GapName /\ document = [roots |-> roots]
          /\ Tail(todo) # <<>> /\ Head(Tail(todo)) = Save(Invalidated(roots))
          /\ Tail(Tail(todo)) \in Seq(Saves(Invalidated(roots)))
      BY <1>1, <1>2, <3>1, Writes
    <3>3. files'[GapName] = [roots |-> roots] /\ todo' = Tail(todo)
      BY <1>8, <1>9, <3>1, <3>2
    <3>4. GapName' = GapName /\ Invalidated(roots)' = Invalidated(roots) /\ Verified(Verifier)'
      BY <1>1, <3>1 DEF GapName, Invalidated, Targets, Present, Verified, Verifier
    <3>5. Saves(Invalidated(roots))' = Saves(Invalidated(roots))
      BY <3>4 DEF Saves, Kept
    <3>6. Repeating'
      BY <1>1, <3>1, <3>2, <3>3, <3>4, <3>5 DEF Repeating
    <3>7. \A m \in Subgraph : ArtifactName(m, Last(run.refs[m])) # name
      BY <3>2, NextIsOther DEF GapInv
    <3> QED
      BY <1>6, <3>6, <3>7 DEF TodoKnown
  <2>6. CASE Restarting
    <3>1. Head(todo) \in Saves(run)
      BY <1>1, <2>6, HeadTailProperties DEF Restarting
    <3> QED
      BY <1>1, <3>1, Writes
  <2> QED
    BY <2>1, <2>2, <2>3, <2>4, <2>5, <2>6 DEF GapInv, TodoKnown
<1> QED
  BY <1>1, <1>5, <1>9

(* A crash cuts off at most the file that was to be written.               *)
LEMMA CrashStep ==
  ASSUME GapInv, Crash
  PROVE  GapStep
<1>1. /\ todo' = <<>> /\ run' = run /\ todo # <<>>
      /\ \/ files' = files
         \/ Head(todo).kind = "file" /\ files' = [files EXCEPT ![Head(todo).name] = Torn]
  BY DEF Crash, Idle
<1>2. Kept(run', run) /\ run' \in RunType /\ DOMAIN files' = Names
  BY <1>1 DEF Kept, GapInv, GapTypes
<1>3. ASSUME Head(todo).kind = "file"
      PROVE  \A m \in Subgraph : Verified(m) => ArtifactName(m, Last(run.refs[m])) # Head(todo).name
  <2>1. ASSUME NEW n \in Subgraph, Writable(n), Head(todo).name = NextName(n)
        PROVE  \A m \in Subgraph : Verified(m) => ArtifactName(m, Last(run.refs[m])) # Head(todo).name
    <3>1. ~ Verified(n)
      BY <2>1 DEF Writable, Running, Verified
    <3> QED
      BY <2>1, <3>1, NextIsOther DEF GapInv
  <2>2. CASE Completing
    BY <1>3, <2>1, <2>2, Tuples, Writes DEF Completing
  <2>3. CASE RankingOut
    BY <1>3, <2>1, <2>3, Tuples, Writes, NodesKnown DEF RankingOut
  <2>4. CASE FanningOut
    BY <1>3, <2>4, Tuples, Writes DEF FanningOut
  <2>5. CASE Insufficing
    BY <1>3, <2>1, <2>5, Tuples, Writes, NodesKnown DEF Insufficing
  <2>6. CASE Repeating
    BY <1>3, <2>6, Writes, NextIsOther DEF Repeating, GapInv
  <2>7. CASE Restarting
    <3>1. Head(todo) \in Saves(run)
      BY <1>1, <2>7, HeadTailProperties DEF Restarting
    <3> QED
      BY <1>3, <3>1, Writes
  <2> QED
    BY <2>2, <2>3, <2>4, <2>5, <2>6, <2>7 DEF GapInv, TodoKnown
<1>4. \A m \in Subgraph : Verified(m) =>
        files'[ArtifactName(m, Last(run.refs[m]))] = files[ArtifactName(m, Last(run.refs[m]))]
  BY <1>1, <1>3, CurrentNamed DEF GapInv, GapTypes
<1> QED
  BY <1>1, <1>2, <1>4, IdleRests, NothingVerified

-----------------------------------------------------------------------------
(* A call commits.                                                         *)
LEMMA NodeCompleted ==
  ASSUME GapInv, NEW n \in Subgraph, NEW d \in Made(n), Writable(n), files[NextName(n)] = d,
         run' = Completed(n), files' = files, TodoKnown'
  PROVE  GapStep
<1>1. /\ run' \in RunType /\ run'.refs[n] # <<>> /\ Last(run'.refs[n]) = NextVersion(n)
      /\ \A m \in Nodes \ {n} : run'.refs[m] = run.refs[m] /\ run'.status[m] = run.status[m]
      /\ run'.fanout = run.fanout /\ run'.cycle = run.cycle /\ run'.status[n] = "VERIFIED"
  <2>1. n \in Subgraph \cup OtherNodes
    OBVIOUS
  <2> QED
    BY <2>1, ReferringTyped DEF GapInv
<1>2. n \in Nodes /\ n \notin Branches \cup {Verifier} /\ run.status[n] = "RUNNING"
  BY NodesKnown, NodesDiffer, GapAssumption DEF Writable, Running
<1>3. Preserved /\ SamePresent
  BY <1>1, <1>2, NodesKnown DEF Preserved, SamePresent, Verified
<1>4. VerifierLast'
  BY <1>1, <1>2, NodesKnown DEF GapInv, VerifierLast, Verified
<1>5. files'[ArtifactName(n, Last(run'.refs[n]))] \in Made(n)
  BY <1>1 DEF NextName
<1>6. \A m \in Subgraph : run'.status[m] = "VERIFIED" =>
        \/ Verified(m)
        \/ run'.refs[m] # <<>> /\ files'[ArtifactName(m, Last(run'.refs[m]))] \in Made(m)
  BY <1>1, <1>5, NodesKnown DEF Verified
<1>7. \A m \in Nodes : run.status[m] = "ABSENT" => run'.refs[m] = run.refs[m]
  BY <1>1, <1>2
<1> QED
  BY <1>1, <1>3, <1>4, <1>6, <1>7, MoreVerified DEF GapInv, GapTypes

LEMMA NodeReferred ==
  ASSUME GapInv, NEW n \in Subgraph, Writable(n), run' = Referring(n), files' = files, TodoKnown'
  PROVE  GapStep
<1>1. /\ run' \in RunType /\ run'.status = run.status
      /\ \A m \in Nodes \ {n} : run'.refs[m] = run.refs[m]
      /\ run'.fanout = run.fanout /\ run'.cycle = run.cycle
  <2>1. n \in Subgraph \cup OtherNodes
    OBVIOUS
  <2> QED
    BY <2>1, ReferringTyped DEF GapInv
<1>2. n \in Nodes /\ run.status[n] = "RUNNING"
  BY NodesKnown DEF Writable, Running
<1>3. Preserved /\ SamePresent
  BY <1>1, <1>2, NodesKnown DEF Preserved, SamePresent, Verified
<1>4. VerifierLast'
  BY <1>1 DEF GapInv, VerifierLast, Verified
<1>5. \A m \in Nodes : run.status[m] = "ABSENT" => run'.refs[m] = run.refs[m]
  BY <1>1, <1>2
<1>6. \A m \in Subgraph : run'.status[m] = "VERIFIED" => Verified(m)
  BY <1>1 DEF Verified
<1> QED
  BY <1>1, <1>3, <1>4, <1>5, <1>6, MoreVerified DEF GapInv, GapTypes

(* The fan-out after its ranking: nothing stands on Deep Dives yet.        *)
LEMMA FanOutCommitted ==
  ASSUME GapInv, Verified(Ranking), run.fanout = {},
         run' = FannedOut(run, Document(Ranking).selected), files' = files, todo' = <<>>
  PROVE  GapStep
<1> DEFINE ids == Document(Ranking).selected
           status == [n \in Nodes |-> IF n \in {DeepDive(id) : id \in ids} THEN "PENDING"
                                      ELSE run.status[n]]
<1>1. ids \subseteq Ids
  BY RankingChosen DEF GapInv
<1>2. run' = [run EXCEPT !.fanout = ids, !.status = status]
  BY DEF FannedOut, GapInv, GapTypes, RunType
<1>3. status \in [Nodes -> Status]
  BY DEF GapInv, GapTypes, RunType, Status
<1>4. {DeepDive(id) : id \in ids} \subseteq DeepDives /\ DeepDives \subseteq Nodes
  BY <1>1, NodesKnown DEF DeepDives
<1>5. \A n \in DeepDives : run.status[n] = "ABSENT"
  BY DEF GapInv, Fanned, Present, DeepDives
<1>6. /\ \A n \in Nodes \ DeepDives : status[n] = run.status[n]
      /\ \A n \in DeepDives : status[n] \in {"PENDING", "ABSENT"}
      /\ \A id \in Ids : status[DeepDive(id)] # "ABSENT" <=> id \in ids
  <2>1. \A n \in Nodes \ DeepDives : status[n] = run.status[n]
    BY <1>4
  <2>2. \A n \in DeepDives : status[n] \in {"PENDING", "ABSENT"}
    BY <1>4, <1>5
  <2>3. \A id \in Ids : status[DeepDive(id)] # "ABSENT" <=> id \in ids
    <3> SUFFICES ASSUME NEW id \in Ids PROVE status[DeepDive(id)] # "ABSENT" <=> id \in ids
      OBVIOUS
    <3>1. DeepDive(id) \in DeepDives /\ DeepDive(id) \in Nodes
      BY <1>4 DEF DeepDives
    <3>2. DeepDive(id) \in {DeepDive(i) : i \in ids} <=> id \in ids
      BY <1>1, NodesDiffer
    <3> QED
      BY <1>5, <3>1, <3>2
  <2> QED
    BY <2>1, <2>2, <2>3
<1> HIDE DEF status, ids
<1>7. /\ run' \in RunType /\ run'.status = status /\ run'.refs = run.refs
      /\ run'.fanout = ids /\ run'.cycle = run.cycle
  BY <1>1, <1>2, <1>3 DEF GapInv, GapTypes, RunType
<1>8. Preserved
  BY <1>5, <1>6, <1>7, NodesKnown DEF Preserved, Verified
<1>9. \A n \in Subgraph : Verified(n) => n = Discovery \/ n = Ranking
  <2>1. ~ AllDived
    BY DivedFanout DEF GapInv
  <2>2. ~ Verified(Normalizer) /\ \A n \in AnalysisNodes : ~ Verified(n)
    BY <2>1, MadeMeans, NodesKnown DEF GapInv, Standing
  <2>3. ~ Verified(Facts)
    <3>1. Normalizer \in ProjectionInputs
      BY DEF ProjectionInputs
    <3> QED
      BY <2>2, <3>1, MadeMeans, NodesKnown DEF GapInv, Standing
  <2>4. \A n \in DeepDives : ~ Verified(n)
    BY <1>5 DEF Verified
  <2> QED
    BY <2>2, <2>3, <2>4, NodesKnown
<1>10. Standing'
  <2>1. ASSUME NEW n \in Subgraph, run'.status[n] = "VERIFIED"
        PROVE  /\ run'.refs[n] # <<>>
               /\ files'[ArtifactName(n, Last(run'.refs[n]))] \in Made(n)'
    <3>1. n = Discovery \/ n = Ranking
      BY <1>6, <1>7, <1>9, <2>1, NodesKnown DEF Verified
    <3>2. Verified(n) /\ n # Facts
      BY <1>6, <1>7, <2>1, <3>1, NodesKnown, NodesDiffer DEF Verified
    <3>3. run'.refs[n] # <<>> /\ files'[ArtifactName(n, Last(run'.refs[n]))] \in Made(n)
      BY <1>7, <3>2 DEF GapInv, Standing, Document, CurrentRef
    <3> QED
      BY <1>8, <3>2, <3>3, MadeStays DEF GapInv
  <2> QED
    BY <2>1 DEF Standing, Verified, Document, CurrentRef
<1>11. Fanned'
  <2>1. Verified(Ranking)' /\ Document(Ranking)' = Document(Ranking)
    BY <1>8, VerifiedStays, NodesKnown
  <2> QED
    BY <1>6, <1>7, <2>1 DEF Fanned, Present, DeepDive, ids
<1>12. AbsentEmpty' /\ VerifierLast'
  <2>1. \A b \in Branches \cup {Verifier} : run'.status[b] = run.status[b]
    BY <1>6, <1>7, NodesKnown, NodesDiffer, GapAssumption
  <2>2. VerifierLast'
    BY <2>1 DEF GapInv, VerifierLast, Verified
  <2>3. \A n \in Nodes : run'.status[n] = "ABSENT" => n \in DeepDives /\ run'.refs[n] = <<>>
    BY <1>4, <1>5, <1>6, <1>7 DEF GapInv, AbsentEmpty, Present
  <2> QED
    BY <2>2, <2>3 DEF AbsentEmpty, Present
<1> QED
  BY <1>7, <1>10, <1>11, <1>12, IdleRests DEF GapStep, GapInv, GapTypes, CycleStep

(* The commit of a Gap: as planned.                                        *)
LEMMA GapCommitted ==
  ASSUME GapInv, NEW roots \in SUBSET Branches, roots # Branches, Verified(Verifier),
         run.cycle < MaxGlobalResearchCycles, files[GapName] = [roots |-> roots],
         run' = Invalidated(roots), files' = files, TodoKnown'
  PROVE  GapStep
<1> DEFINE below == IF Container \in roots THEN Subgraph ELSE {}
<1>1. /\ run' \in RunType /\ run'.cycle = run.cycle + 1
      /\ run'.fanout = IF Container \in roots THEN {} ELSE run.fanout
      /\ run'.status[Verifier] = "INVALIDATED"
      /\ \A n \in (Branches \cup Subgraph) \ (roots \cup below) :
           run'.status[n] = run.status[n] /\ run'.refs[n] = run.refs[n]
      /\ \A n \in roots \cup below :
           run'.status[n] \in {"INVALIDATED", "ABSENT"} /\ run'.refs[n] = <<>>
      /\ \A n \in Nodes \ DeepDives : run.status[n] # "ABSENT" => run'.status[n] # "ABSENT"
      /\ \A n \in Nodes : run'.refs[n] = run.refs[n] \/ run'.refs[n] = <<>>
      /\ Container \in roots => \A n \in DeepDives : run'.status[n] = "ABSENT"
      /\ Container \notin roots => \A n \in DeepDives : run'.status[n] = run.status[n]
  BY InvalidatedTyped DEF GapInv
<1>2. CycleStep
  <2>1. files[GapName].roots = roots
    OBVIOUS
  <2>2. \E b \in Branches : b \notin roots /\ Verified(b)
    BY DEF GapInv, VerifierLast
  <2> QED
    BY <1>1, <2>1, <2>2 DEF CycleStep
<1>3. VerifierLast'
  BY <1>1 DEF VerifierLast, Verified
<1>4. Standing' /\ Fanned' /\ AbsentEmpty'
  <2>1. CASE Container \in roots
    <3>1. \A n \in Subgraph : run'.status[n] # "VERIFIED" /\ run'.refs[n] = <<>>
      BY <1>1, <2>1
    <3>2. Standing'
      BY <3>1 DEF Standing, Verified
    <3>3. Fanned'
      <4>1. run'.fanout = {} /\ \A id \in Ids : run'.status[DeepDive(id)] = "ABSENT"
        BY <1>1, <2>1 DEF DeepDives
      <4> QED
        BY <4>1 DEF Fanned, Present, DeepDive
    <3>4. \A n \in Nodes : run'.status[n] = "ABSENT" => n \in DeepDives /\ run'.refs[n] = <<>>
      BY <1>1, <3>1, NodesKnown DEF GapInv, AbsentEmpty, Present
    <3> QED
      BY <3>2, <3>3, <3>4 DEF AbsentEmpty, Present
  <2>2. CASE Container \notin roots
    <3>1. \A n \in Subgraph : run'.status[n] = run.status[n] /\ run'.refs[n] = run.refs[n]
      <4>1. Subgraph \cap (roots \cup below) = {}
        BY <2>2, NodesDiffer
      <4> QED
        BY <1>1, <4>1
    <3>2. Preserved
      BY <3>1 DEF Preserved, Verified
    <3>3. SamePresent
      BY <1>1, <2>2 DEF SamePresent, GapInv, AbsentEmpty, Present
    <3>4. Standing'
      <4>1. ASSUME NEW n \in Subgraph, run'.status[n] = "VERIFIED"
            PROVE  /\ run'.refs[n] # <<>>
                   /\ files'[ArtifactName(n, Last(run'.refs[n]))] \in Made(n)'
        <5>1. run'.refs[n] # <<>> /\ files'[ArtifactName(n, Last(run'.refs[n]))] \in Made(n)
          BY <3>1, <4>1 DEF GapInv, Standing, Document, CurrentRef, Verified
        <5> QED
          BY <3>2, <3>3, <5>1, MadeStays DEF GapInv
      <4> QED
        BY <4>1 DEF Standing, Verified, Document, CurrentRef
    <3>5. Fanned'
      <4>1. run.fanout # {} => Verified(Ranking)' /\ Document(Ranking)' = Document(Ranking)
        BY <3>2, VerifiedStays, NodesKnown DEF GapInv, Fanned
      <4>2. \A id \in Ids : run'.status[DeepDive(id)] # "ABSENT" <=> id \in run'.fanout
        BY <1>1, <2>2 DEF GapInv, Fanned, Present, DeepDives
      <4> QED
        BY <1>1, <2>2, <4>1, <4>2 DEF GapInv, Fanned, Present, DeepDive
    <3>6. \A n \in Nodes : run'.status[n] = "ABSENT" => n \in DeepDives /\ run'.refs[n] = <<>>
      BY <1>1, <3>3 DEF SamePresent, GapInv, AbsentEmpty, Present
    <3> QED
      BY <3>4, <3>5, <3>6 DEF AbsentEmpty, Present
  <2> QED
    BY <2>1, <2>2
<1> QED
  BY <1>1, <1>2, <1>3, <1>4 DEF GapStep, GapInv, GapTypes

LEMMA CommitStep ==
  ASSUME GapInv, Commit
  PROVE  GapStep
<1>1. /\ todo # <<>> /\ Head(todo).kind = "snapshot" /\ run' = Head(todo).run
      /\ todo' = Tail(todo) /\ files' = files
  BY DEF Commit
<1>2. CASE Completing
  <2>0. PICK n \in Subgraph \ {Ranking} : \E d \in Made(n) :
          /\ Writable(n)
          /\ \/ todo = <<File(NextName(n), d), Save(Completed(n))>>
             \/ todo = <<Save(Completed(n))>> /\ files[NextName(n)] = d
    BY <1>2 DEF Completing
  <2>1. PICK d \in Made(n) :
          /\ Writable(n)
          /\ \/ todo = <<File(NextName(n), d), Save(Completed(n))>>
             \/ todo = <<Save(Completed(n))>> /\ files[NextName(n)] = d
    BY <2>0
  <2>2. todo = <<Save(Completed(n))>> /\ files[NextName(n)] = d
    BY <1>1, <2>1, Tuples, Writes
  <2>3. run' = Completed(n) /\ todo' = <<>>
    BY <1>1, <2>2, Tuples, Writes
  <2> QED
    BY <1>1, <2>1, <2>2, <2>3, IdleRests, NodeCompleted
<1>3. CASE RankingOut
  <2>1. PICK d \in Made(Ranking) :
          /\ Writable(Ranking)
          /\ \/ todo = <<File(NextName(Ranking), d), Save(Completed(Ranking)), Save(RankingDone(d))>>
             \/ /\ todo = <<Save(Completed(Ranking)), Save(RankingDone(d))>>
                /\ files[NextName(Ranking)] = d
    BY <1>3 DEF RankingOut
  <2>2. todo = <<Save(Completed(Ranking)), Save(RankingDone(d))>> /\ files[NextName(Ranking)] = d
    <3>1. todo # <<File(NextName(Ranking), d), Save(Completed(Ranking)), Save(RankingDone(d))>>
      BY <1>1, Tuples, Writes
    <3> QED
      BY <2>1, <3>1
  <2>3. run' = Completed(Ranking) /\ todo' = <<Save(RankingDone(d))>>
    BY <1>1, <2>2, Tuples, Writes
  <2>4. /\ Ranking \in Nodes /\ Ranking \in Subgraph
        /\ run'.status[Ranking] = "VERIFIED" /\ run'.fanout = run.fanout
        /\ Last(run'.refs[Ranking]) = NextVersion(Ranking)
    BY <2>1, <2>3, ReferringTyped, NodesKnown DEF GapInv
  <2>5. run.fanout = {}
    BY <2>1 DEF GapInv, Fanned, Verified, Writable, Running
  <2>6. Document(Ranking)' = d
    BY <1>1, <2>2, <2>4 DEF Document, CurrentRef, NextName, Ranking
  <2>7. FanningOut'
    BY <2>3, <2>4, <2>5, <2>6 DEF FanningOut, RankingDone, Verified, Ranking, FannedOut
  <2> QED
    BY <1>1, <2>1, <2>2, <2>3, <2>4, <2>7, NodeCompleted DEF TodoKnown
<1>4. CASE FanningOut
  BY <1>1, <1>4, Tuples, Writes, FanOutCommitted DEF FanningOut
<1>5. CASE Insufficing
  <2>1. PICK n \in {Discovery} \cup DeepDives :
          /\ Writable(n)
          /\ \/ \E d \in Findings :
                  todo = <<File(NextName(n), d), Save(Referring(n)), Save(Stopped(n))>>
             \/ todo = <<Save(Referring(n)), Save(Stopped(n))>>
    BY <1>5 DEF Insufficing
  <2>2. todo = <<Save(Referring(n)), Save(Stopped(n))>>
    BY <1>1, <2>1, Tuples, Writes
  <2>3. run' = Referring(n) /\ todo' = <<Save(Stopped(n))>>
    BY <1>1, <2>2, Tuples, Writes
  <2>4. n \in Subgraph
    BY NodesKnown
  <2>5. Stopped(n) \in RunType /\ Kept(Stopped(n), run')
    BY <2>1, <2>3, <2>4, ReferringTyped DEF GapInv
  <2>6. PICK s : s = Stopped(n)
    OBVIOUS
  <2>7. Save(s) \in Saves(run')
    BY <2>5, <2>6 DEF Saves
  <2>8. Restarting'
    BY <2>3, <2>6, <2>7 DEF Restarting
  <2> QED
    BY <1>1, <2>1, <2>3, <2>4, <2>8, NodeReferred DEF TodoKnown
<1>6. CASE Repeating
  <2>1. PICK roots \in SUBSET Branches :
          /\ roots # Branches /\ Verified(Verifier) /\ run.cycle < MaxGlobalResearchCycles
          /\ GapName \in Names /\ todo # <<>>
          /\ \/ /\ Head(todo) = File(GapName, [roots |-> roots])
                /\ Tail(todo) # <<>> /\ Head(Tail(todo)) = Save(Invalidated(roots))
                /\ Tail(Tail(todo)) \in Seq(Saves(Invalidated(roots)))
             \/ /\ Head(todo) = Save(Invalidated(roots)) /\ files[GapName] = [roots |-> roots]
                /\ Tail(todo) \in Seq(Saves(Invalidated(roots)))
    BY <1>6 DEF Repeating
  <2>2. /\ Head(todo) = Save(Invalidated(roots)) /\ files[GapName] = [roots |-> roots]
        /\ Tail(todo) \in Seq(Saves(Invalidated(roots)))
    BY <1>1, <2>1, Writes
  <2>3. run' = Invalidated(roots)
    BY <1>1, <2>2, Writes
  <2>4. Restarting'
    BY <1>1, <2>2, <2>3 DEF Restarting
  <2> QED
    BY <1>1, <2>1, <2>2, <2>3, <2>4, GapCommitted DEF TodoKnown
<1>7. CASE Restarting
  <2>1. Head(todo) \in Saves(run) /\ Tail(todo) \in Seq(Saves(run))
    BY <1>1, <1>7, HeadTailProperties DEF Restarting
  <2>2. run' \in RunType /\ Kept(run', run)
    BY <1>1, <2>1, Writes
  <2>3. Restarting'
    BY <1>1, <2>1, <2>2, SavesKept DEF Restarting
  <2> QED
    BY <1>1, <2>2, <2>3, NothingVerified DEF TodoKnown, GapInv, GapTypes
<1> QED
  BY <1>2, <1>3, <1>4, <1>5, <1>6, <1>7 DEF GapInv, TodoKnown

-----------------------------------------------------------------------------
(* The invariant holds in every state, and every step is one of research.  *)
LEMMA ResearchAlways == Spec => [](GapInv) /\ [][GapStep]_vars
<1>1. Init => GapInv
  <2> SUFFICES ASSUME Init PROVE GapInv
    OBVIOUS
  <2>1. 0 \in 0 .. MaxRetries /\ 0 \in 0 .. MaxGlobalResearchCycles /\ 0 \in 0 .. MaxVersion
    BY ResearchAssumption, GapAssumption DEF MaxVersion
  <2>2. [n \in Nodes |-> IF n \in DeepDives THEN "ABSENT" ELSE "PENDING"] \in [Nodes -> Status]
    BY DEF Status
  <2>3. [n \in Nodes |-> <<>>] \in [Nodes -> Seq(1 .. MaxVersion)]
    BY EmptySeq
  <2>4. GapTypes
    <3>1. [n \in Nodes |-> {}] \in [Nodes -> SUBSET Names]
      OBVIOUS
    <3> QED
      BY <2>1, <2>2, <2>3, <3>1 DEF Init, GapTypes, RunType
  <2>5. /\ \A n \in Nodes : run.status[n] = (IF n \in DeepDives THEN "ABSENT" ELSE "PENDING")
        /\ \A n \in Nodes : run.refs[n] = <<>>
        /\ run.fanout = {}
    BY DEF Init
  <2>6. Standing /\ VerifierLast /\ AbsentEmpty
    BY <2>5, NodesKnown DEF Standing, VerifierLast, AbsentEmpty, Verified, Present
  <2>7. Fanned
    BY <2>5, NodesKnown DEF Fanned, Present, DeepDives
  <2>8. TodoKnown
    BY EmptySeq DEF Init, TodoKnown, Restarting
  <2> QED
    BY <2>4, <2>6, <2>7, <2>8 DEF GapInv
<1>2. ASSUME GapInv, Next PROVE GapStep
  BY <1>2, AdvanceStep, HostStep, VerifyStep, PlanStep, WriteStep, CommitStep, CrashStep DEF Next, Plan
<1>3. ASSUME GapInv, UNCHANGED vars PROVE GapStep
  <2>1. run' = run /\ files' = files /\ todo' = todo
    BY <1>3 DEF vars, callVars
  <2>2. Preserved /\ SamePresent
    BY <2>1 DEF Preserved, SamePresent, Verified
  <2>3. ASSUME NEW n \in Subgraph, NEW d \in Made(n) PROVE d \in Made(n)'
    BY <1>3, <2>2, MadeStays DEF GapInv
  <2>4. ASSUME NEW n \in Subgraph
        PROVE  /\ Writable(n)' = Writable(n) /\ NextName(n)' = NextName(n)
               /\ Completed(n)' = Completed(n) /\ Referring(n)' = Referring(n)
               /\ Stopped(n)' = Stopped(n)
    BY <2>1
    DEF Writable, Running, NextName, NextVersion, Completed, Referring, Stopped, Blocked
  <2>5. ASSUME Completing PROVE Completing'
    BY <2>1, <2>3, <2>4, <2>5 DEF Completing
  <2>6. ASSUME RankingOut PROVE RankingOut'
    <3>1. PICK n \in Subgraph : n = Ranking
      BY NodesKnown
    <3>2. \A d : FannedOut(Completed(n), d.selected)' = FannedOut(Completed(n), d.selected)
      BY <2>4 DEF FannedOut
    <3> QED
      BY <2>1, <2>3, <2>4, <2>6, <3>1, <3>2 DEF RankingOut, RankingDone, Ranking
  <2>7. ASSUME FanningOut PROVE FanningOut'
    BY <2>1, <2>7 DEF FanningOut, Verified, Document, CurrentRef, FannedOut, Ranking
  <2>8. ASSUME Insufficing PROVE Insufficing'
    BY <2>1, <2>4, <2>8, NodesKnown DEF Insufficing
  <2>9. ASSUME Repeating PROVE Repeating'
    <3>1. \A roots : Invalidated(roots)' = Invalidated(roots)
      BY <2>1 DEF Invalidated, Targets, Present
    <3>2. \A roots : Saves(Invalidated(roots))' = Saves(Invalidated(roots))
      BY <3>1 DEF Saves, Kept
    <3> QED
      BY <2>1, <2>9, <3>1, <3>2 DEF Repeating, GapName, Verified, Verifier
  <2>10. ASSUME Restarting PROVE Restarting'
    BY <2>1, <2>10 DEF Restarting, Saves, Kept
  <2> QED
    BY <1>3, <2>1, <2>5, <2>6, <2>7, <2>8, <2>9, <2>10, CallStep DEF GapInv, TodoKnown
<1>4. GapInv /\ [Next]_vars => GapInv'
  BY <1>2, <1>3 DEF GapStep
<1>5. GapInv /\ [Next]_vars => [GapStep]_vars
  BY <1>2
<1> QED
  BY <1>1, <1>4, <1>5, PTL DEF Spec

\* The Snapshot is of its types, and a Deep Dive is there exactly while the
\* fan-out has its candidate.
THEOREM TypeCorrect == Spec => []TypeOK
<1>1. GapInv => TypeOK
  BY DEF GapInv, GapTypes, RunType, Fanned, TypeOK
<1> QED
  BY <1>1, ResearchAlways, PTL

\* A Report Projection stands on one selection of the required size, and on the
\* current Artifact of every node before it, each made from current ones.
THEOREM ProjectionOfOneSelectionCorrect == Spec => []ProjectionOfOneSelection
<1>1. ASSUME GapInv, Verified(Facts)
      PROVE  /\ \A n \in ProjectionInputs : Verified(n)
             /\ Document(Facts) = [inputs |-> Projected]
  BY <1>1, MadeMeans, NodesKnown DEF GapInv, Standing
<1>2. ASSUME GapInv, Verified(Facts)
      PROVE  ProjectionOfOneSelection
  <2> DEFINE ids == Document(Ranking).selected
  <2>1. /\ Verified(Discovery) /\ Verified(Ranking) /\ Verified(Normalizer)
        /\ \A n \in AnalysisNodes : Verified(n)
    BY <1>1, <1>2 DEF ProjectionInputs
  <2>2. AllDived /\ Document(Normalizer) = [deep_dives |-> Dived]
    BY <1>2, <2>1, MadeMeans, NodesKnown DEF GapInv, Standing
  <2>3. run.fanout = ids /\ ids \subseteq Ids
    BY <1>2, <2>2, DivedFanout DEF GapInv
  <2>4. /\ Cardinality(ids) = RequiredCount
        /\ ids \subseteq {c.id : c \in Document(Discovery).candidates}
        /\ Document(Ranking).candidates = CurrentRef(Discovery)
    BY <1>2, <2>1, RankingChosen DEF GapInv
  <2>5. \A id \in ids : Document(DeepDive(id)) = [id |-> id, resolved |-> TRUE]
    <3> SUFFICES ASSUME NEW id \in ids PROVE Document(DeepDive(id)) = [id |-> id, resolved |-> TRUE]
      OBVIOUS
    <3>1. id \in Ids /\ Verified(DeepDive(id)) /\ DeepDive(id) \in Subgraph
      BY <2>2, <2>3, NodesKnown DEF AllDived, DeepDives
    <3>2. Document(DeepDive(id)) \in Made(DeepDive(id))
      BY <1>2, <3>1 DEF GapInv, Standing
    <3> QED
      BY <3>1, <3>2, MadeMeans
  <2>6. \A n \in AnalysisNodes :
          Document(n) = [dataset |-> CurrentRef(Normalizer), deep_dives |-> Dived]
    BY <1>2, <2>1, MadeMeans, NodesKnown DEF GapInv, Standing
  <2>7. \A n \in Subgraph \ {Facts} : Present(n) => n \in ProjectionInputs
    BY NodesKnown DEF ProjectionInputs
  <2>8. \A n \in Subgraph \ {Facts} :
          Present(n) => Verified(n) /\ Document(Facts).inputs[n] = CurrentRef(n)
    BY <1>1, <1>2, <2>7 DEF Projected
  <2>9. Dived = [id \in ids |-> CurrentRef(DeepDive(id))]
    BY DEF Dived
  <2> QED
    BY <2>2, <2>3, <2>4, <2>5, <2>6, <2>8, <2>9 DEF ProjectionOfOneSelection, Document, CurrentRef
<1>3. GapInv => ProjectionOfOneSelection
  BY <1>2 DEF ProjectionOfOneSelection
<1> QED
  BY <1>3, ResearchAlways, PTL

\* A research cycle repeats what its Gap Artifact names and nothing else.
THEOREM RetriedAsPlannedCorrect == Spec => RetriedAsPlanned
<1>1. GapStep => CycleStep
  BY DEF GapStep
<1> QED
  BY <1>1, ResearchAlways, PTL DEF RetriedAsPlanned, CycleStep
=============================================================================
