------------------------ MODULE ReportAssemblyProofs ------------------------
(***************************************************************************)
(* What a Report shows is supported, for any research records, analyses,   *)
(* charts and Profile.  ReportSupported speaks of the Report alone; the    *)
(* invariant says where each of its parts comes from: a fact is whole as   *)
(* soon as it is projected or drawn, and bound to its records once it is   *)
(* in a Publication Projection.                                            *)
(* Then when a Report can be published, and that the ranks of scores       *)
(* committed one by one fit together.                                      *)
(***************************************************************************)
EXTENDS TransparentScoring, FiniteSetTheorems, FunctionTheorems, SequenceTheorems, WellFoundedInduction, TLAPS

Whole(f) == f.evidence = EvidenceOf(f.claims)
CitedRight(groups) == \A g \in groups : g.cited = UNION {f.sources : f \in g.facts}
ChartShown(t, facts) == \E f \in facts : f.origin = <<"chart", t>>
ProfileFigures(figures) ==
  Required \subseteq figures /\ Cardinality(figures \ Required) = IF Options = {} THEN 0 ELSE 1

ProjectionWhole == projection # None => \A f \in Facts(projection.groups) : Whole(f)
PublicationBound ==
  publication # None =>
    /\ projection # None /\ charts # None
    /\ \A f \in Facts(publication.groups) : Whole(f) /\ FactBound(f)
    /\ CitedRight(publication.groups)
    /\ \A t \in DOMAIN charts : ChartShown(t, Facts(publication.groups))
ReportCurrent ==
  report # None =>
    /\ publication # None
    /\ report.facts = Facts(publication.groups)
    /\ report.sources = Rendered(publication.groups)
    /\ report.figures = DOMAIN charts
    /\ ProfileFigures(report.figures)
Supported == ProjectionWhole /\ PublicationBound /\ ReportCurrent

-----------------------------------------------------------------------------
(* Records do not change, so what was said of a fact stays said.          *)
LEMMA RecordsStay ==
  ASSUME UNCHANGED given, NEW f
  PROVE  /\ Whole(f)' <=> Whole(f)
         /\ FactBound(f)' <=> FactBound(f)
<1>1. records' = records
  BY DEF given
<1>2. ASSUME NEW S PROVE EvidenceOf(S)' = EvidenceOf(S)
  BY <1>1 DEF EvidenceOf
<1>3. ASSUME NEW S PROVE SourcesOf(S)' = SourcesOf(S)
  BY <1>1 DEF SourcesOf
<1> QED BY <1>1, <1>2, <1>3 DEF Whole, FactBound

(* A document that stays keeps its part of the invariant.                 *)
LEMMA ProjectionStays ==
  ASSUME ProjectionWhole, UNCHANGED <<given, projection>>
  PROVE  ProjectionWhole'
BY RecordsStay DEF ProjectionWhole

(* The same for the Publication Projection, as long as its charts stay.   *)
LEMMA PublicationStays ==
  ASSUME PublicationBound, UNCHANGED <<given, projection, charts, publication>>
  PROVE  PublicationBound'
BY RecordsStay DEF PublicationBound

(* The same for the Report.                                               *)
LEMMA ReportStays ==
  ASSUME ReportCurrent, UNCHANGED <<charts, publication, report>>
  PROVE  ReportCurrent'
BY DEF ReportCurrent

-----------------------------------------------------------------------------
(* An observation's fact carries all Evidence of its one Claim.           *)
LEMMA AnalysisWhole ==
  ASSUME NEW f \in Facts({AnalysisGroup(a) : a \in Analyses})
  PROVE  Whole(f)
<1>1. PICK a \in Analyses : f \in AnalysisGroup(a).facts
  BY DEF Facts
<1>2. PICK c \in observed[a] : f = FactOf(a, c)
  BY <1>1 DEF AnalysisGroup
<1>3. f.evidence = records.cites[c] /\ f.claims = {c}
  BY <1>2 DEF FactOf
<1> QED BY <1>3 DEF Whole, EvidenceOf

(* The fact of a chart that has been found supported is whole too.        *)
LEMMA CombinedWhole ==
  ASSUME ProjectionWhole, projection # None, Materializable, NEW f \in Facts(Combined)
  PROVE  Whole(f)
<1>1. PICK g \in Combined : f \in g.facts
  BY DEF Facts
<1>2. CASE g \in projection.groups
  BY <1>1, <1>2 DEF ProjectionWhole, Facts
<1>3. CASE \E t \in DOMAIN charts : g = ChartGroup(t)
  <2>1. PICK t \in DOMAIN charts : g = ChartGroup(t)
    BY <1>3
  <2>2. f.evidence = charts[t] /\ f.claims = Reached(charts[t])
    BY <1>1, <2>1 DEF ChartGroup
  <2>3. ChartSupported(t)
    BY DEF Materializable
  <2> QED BY <2>2, <2>3 DEF ChartSupported, Whole
<1> QED BY <1>1, <1>2, <1>3 DEF Combined

(* Every chart of the collection has a fact among the combined groups.    *)
LEMMA ChartsShown ==
  ASSUME NEW t \in DOMAIN charts
  PROVE  ChartShown(t, Facts(Combined))
<1> DEFINE fact == [origin |-> <<"chart", t>>, claims |-> Reached(charts[t]),
                    evidence |-> charts[t], sources |-> SourcesOf(charts[t])]
<1>1. ChartGroup(t) \in Combined
  BY DEF Combined
<1>2. fact \in ChartGroup(t).facts
  BY DEF ChartGroup
<1>3. fact \in Facts(Combined)
  BY <1>1, <1>2 DEF Facts
<1>4. fact.origin = <<"chart", t>>
  OBVIOUS
<1> QED BY <1>3, <1>4 DEF ChartShown

(* Charts the publisher accepts are those of the Profile.                 *)
LEMMA AcceptedFigures ==
  ASSUME ChartsAccepted
  PROVE  ProfileFigures(DOMAIN charts)
<1>1. DOMAIN charts = Required \cup Realized /\ Realized \subseteq Options
  BY DEF ChartsAccepted, RequiredTypes, Realized
<1>2. DOMAIN charts \ Required = Realized
  BY <1>1, ProfileAssumption
<1>3. Options = {} => Realized = {}
  BY <1>1
<1>4. Cardinality(Realized) = IF Options = {} THEN 0 ELSE 1
  BY <1>3, FS_EmptySet DEF ChartsAccepted, ChoiceResolved
<1> QED BY <1>1, <1>2, <1>4 DEF ProfileFigures

-----------------------------------------------------------------------------
(* Every call that is accepted keeps the documents supported.             *)
LEMMA SupportedStep ==
  ASSUME Supported, Assemble
  PROVE  Supported'
<1>1. CASE MaterializeFacts
  <2>1. /\ publication = None /\ report = None
        /\ projection' = Projected({AnalysisGroup(a) : a \in Analyses})
        /\ publication' = publication /\ report' = report /\ UNCHANGED given
    BY <1>1 DEF MaterializeFacts, Supported, PublicationBound, ReportCurrent
  <2>2. projection'.groups = {AnalysisGroup(a) : a \in Analyses}
    BY <2>1 DEF Projected
  <2>3. \A f \in Facts(projection'.groups) : Whole(f)
    BY <2>2, AnalysisWhole
  <2>4. ProjectionWhole'
    BY <2>1, <2>3, RecordsStay DEF ProjectionWhole
  <2> QED BY <2>1, <2>4 DEF Supported, PublicationBound, ReportCurrent
<1>2. CASE RenderCharts
  <2>1. publication = None /\ report = None /\ UNCHANGED <<given, projection, publication, report>>
    BY <1>2 DEF RenderCharts, Supported, PublicationBound, ReportCurrent
  <2>2. ProjectionWhole'
    BY <2>1, ProjectionStays DEF Supported
  <2> QED BY <2>1, <2>2 DEF Supported, PublicationBound, ReportCurrent
<1>3. CASE MaterializePublication
  <2>1. /\ projection # None /\ charts # None /\ report = None /\ Materializable
        /\ publication' = Projected(Combined) /\ UNCHANGED <<given, projection, charts, report>>
    BY <1>3 DEF MaterializePublication, Supported, ReportCurrent
  <2>2. publication'.groups = Combined
    BY <2>1 DEF Projected
  <2>3. \A f \in Facts(publication'.groups) : Whole(f) /\ FactBound(f)
    <3>1. \A f \in Facts(Combined) : Whole(f)
      BY <2>1, CombinedWhole DEF Supported
    <3>2. \A f \in Facts(Combined) : FactBound(f)
      BY <2>1 DEF Materializable, GroupsBound, Facts
    <3> QED BY <2>2, <3>1, <3>2
  <2>4. CitedRight(publication'.groups)
    BY <2>1, <2>2 DEF Materializable, GroupsBound, CitedRight
  <2>5. \A t \in DOMAIN charts' : ChartShown(t, Facts(publication'.groups))
    BY <2>1, <2>2, ChartsShown
  <2>6. PublicationBound'
    BY <2>1, <2>3, <2>4, <2>5, RecordsStay DEF PublicationBound
  <2>7. ProjectionWhole'
    BY <2>1, ProjectionStays DEF Supported
  <2> QED BY <2>1, <2>6, <2>7 DEF Supported, ReportCurrent
<1>4. CASE PublishReport
  <2>1. /\ publication # None /\ Printable(publication)
        /\ report' = [facts |-> Facts(publication.groups), sources |-> Rendered(publication.groups),
                      figures |-> DOMAIN charts]
        /\ UNCHANGED <<given, projection, charts, publication>>
    BY <1>4 DEF PublishReport
  <2>2. ProfileFigures(DOMAIN charts)
    BY <2>1, AcceptedFigures DEF Printable
  <2>3. ReportCurrent'
    BY <2>1, <2>2 DEF ReportCurrent
  <2>4. ProjectionWhole' /\ PublicationBound'
    BY <2>1, ProjectionStays, PublicationStays DEF Supported
  <2> QED BY <2>3, <2>4 DEF Supported
<1>5. CASE InvalidateCharts
  <2>1. publication' = None /\ report' = None /\ UNCHANGED <<given, projection>>
    BY <1>5 DEF InvalidateCharts
  <2>2. ProjectionWhole'
    BY <2>1, ProjectionStays DEF Supported
  <2> QED BY <2>1, <2>2 DEF Supported, PublicationBound, ReportCurrent
<1> QED BY <1>1, <1>2, <1>3, <1>4, <1>5 DEF Assemble

(* The documents of a Run are supported in every reachable state.         *)
THEOREM DocumentsSupported == AssemblySpec => []Supported
<1>1. AssemblyInit => Supported
  BY DEF AssemblyInit, Supported, ProjectionWhole, PublicationBound, ReportCurrent
<1>2. Supported /\ [Assemble]_assemblyVars => Supported'
  <2>1. Supported /\ UNCHANGED assemblyVars => Supported'
    BY ProjectionStays, PublicationStays, ReportStays DEF Supported, assemblyVars
  <2> QED BY <2>1, SupportedStep
<1> QED BY <1>1, <1>2, PTL DEF AssemblySpec

-----------------------------------------------------------------------------
(* The Sources of the facts are the Sources of their Evidence.            *)
LEMMA SourcesWhole ==
  ASSUME NEW groups, CitedRight(groups), \A f \in Facts(groups) : FactBound(f)
  PROVE  Rendered(groups) = SourcesOf(UNION {f.evidence : f \in Facts(groups)})
<1>1. ASSUME NEW s
      PROVE  s \in Rendered(groups) <=> \E f \in Facts(groups) : s \in f.sources
  <2>1. s \in Rendered(groups) <=> \E g \in groups : s \in g.cited
    BY DEF Rendered
  <2>2. \A g \in groups : s \in g.cited <=> \E f \in g.facts : s \in f.sources
    BY DEF CitedRight
  <2>3. (\E f \in Facts(groups) : s \in f.sources) <=> \E g \in groups : \E f \in g.facts : s \in f.sources
    BY DEF Facts
  <2> QED BY <2>1, <2>2, <2>3
<1>2. \A f \in Facts(groups) : f.sources = SourcesOf(f.evidence)
  BY DEF FactBound
<1> DEFINE facts == Facts(groups)
<1>3. \A f \in facts : f.sources = SourcesOf(f.evidence)
  BY <1>2
<1>4. \A s : s \in Rendered(groups) <=> \E f \in facts : s \in f.sources
  BY <1>1
<1> HIDE DEF facts
<1>5. ASSUME NEW s
      PROVE  s \in SourcesOf(UNION {f.evidence : f \in facts})
               <=> \E f \in facts : \E e \in f.evidence : s = records.from[e]
  BY DEF SourcesOf
<1>6. ASSUME NEW s
      PROVE  (\E f \in facts : s \in f.sources) <=> \E f \in facts : \E e \in f.evidence : s = records.from[e]
  BY <1>3 DEF SourcesOf
<1>7. \A s : s \in Rendered(groups) <=> s \in SourcesOf(UNION {f.evidence : f \in facts})
  BY <1>4, <1>5, <1>6
<1>8. Rendered(groups) = SourcesOf(UNION {f.evidence : f \in facts})
  BY <1>7
<1> QED BY <1>8 DEF facts

(* For every Profile and all research records, agreeing or not: what the  *)
(* published Report shows rests on all Evidence of its Claims and on      *)
(* nothing else, cites the Sources of exactly that Evidence, and has the  *)
(* figures of the Profile (ReportSupported).                              *)
THEOREM ReportSupportedCorrect == AssemblySpec => []ReportSupported
<1>1. Supported => ReportSupported
  <2> SUFFICES ASSUME Supported, report # None
               PROVE  ReportSupported
    BY DEF ReportSupported
  <2>1. /\ publication # None
        /\ report.facts = Facts(publication.groups)
        /\ report.sources = Rendered(publication.groups)
        /\ report.figures = DOMAIN charts
        /\ ProfileFigures(report.figures)
    BY DEF Supported, ReportCurrent
  <2>2. /\ \A f \in Facts(publication.groups) : Whole(f) /\ FactBound(f)
        /\ CitedRight(publication.groups)
        /\ \A t \in DOMAIN charts : ChartShown(t, Facts(publication.groups))
    BY <2>1 DEF Supported, PublicationBound
  <2>3. \A f \in report.facts : f.evidence = EvidenceOf(f.claims)
    BY <2>1, <2>2 DEF Whole
  <2>4. \A f \in report.facts : \A e \in f.evidence : records.belongs[e] \in f.claims
    BY <2>1, <2>2 DEF FactBound
  <2>5. report.sources = SourcesOf(UNION {f.evidence : f \in report.facts})
    BY <2>1, <2>2, SourcesWhole
  <2>6. \A t \in report.figures : \E f \in report.facts : f.origin = <<"chart", t>>
    BY <2>1, <2>2 DEF ChartShown
  <2>7. Required \subseteq report.figures /\ Cardinality(report.figures \ Required) = IF Options = {} THEN 0 ELSE 1
    BY <2>1 DEF ProfileFigures
  <2> QED BY <2>3, <2>4, <2>5, <2>6, <2>7 DEF ReportSupported
<1> QED BY <1>1, DocumentsSupported, PTL

-----------------------------------------------------------------------------
(* What a Run has when charts are drawn: the facts of its own analyses,   *)
(* and charts of their Evidence.                                          *)
Groups == {AnalysisGroup(a) : a \in Analyses}
ObservedFact(f, c) ==
  /\ f.claims = {c} /\ f.evidence = records.cites[c] /\ f.sources = SourcesOf(records.cites[c])
ProjectedOnce == projection # None => projection = Projected(Groups)
ChartsDrawn ==
  charts # None => projection # None /\ \A t \in DOMAIN charts : Drawable(charts[t])
Drawn == ProjectedOnce /\ ChartsDrawn

(* A projection is that of the analyses, and charts are drawn from it.    *)
LEMMA DrawnAlways == AssemblySpec => []Drawn
<1>1. AssemblyInit => Drawn
  BY DEF AssemblyInit, Drawn, ProjectedOnce, ChartsDrawn
<1>2. Drawn /\ [Assemble]_assemblyVars => Drawn'
  <2> SUFFICES ASSUME Drawn, [Assemble]_assemblyVars PROVE Drawn'
    OBVIOUS
  <2>1. UNCHANGED given /\ Groups' = Groups
    <3>1. UNCHANGED given
      BY DEF Assemble, MaterializeFacts, RenderCharts, MaterializePublication, PublishReport,
             InvalidateCharts, assemblyVars
    <3> QED BY <3>1 DEF given, Groups, AnalysisGroup, FactOf, SourcesOf, EvidenceOf
  <2>3. ProjectedOnce'
    <3>1. CASE MaterializeFacts
      BY <2>1, <3>1 DEF MaterializeFacts, ProjectedOnce, Groups
    <3>2. CASE projection' = projection
      BY <2>1, <3>2 DEF Drawn, ProjectedOnce
    <3> QED
      BY <3>1, <3>2 DEF Assemble, RenderCharts, MaterializePublication, PublishReport, InvalidateCharts, assemblyVars
  <2>4. ChartsDrawn'
    <3>1. CASE RenderCharts
      BY <3>1 DEF RenderCharts, ChartsDrawn, Drawable
    <3>2. CASE MaterializeFacts
      BY <3>2 DEF MaterializeFacts, Drawn, ChartsDrawn
    <3>3. CASE UNCHANGED <<charts, projection>>
      BY <3>3 DEF Drawn, ChartsDrawn, Drawable
    <3>4. CASE InvalidateCharts
      BY <3>4 DEF InvalidateCharts, ChartsDrawn
    <3> QED
      BY <3>1, <3>2, <3>3, <3>4 DEF Assemble, MaterializePublication, PublishReport, assemblyVars
  <2> QED BY <2>3, <2>4 DEF Drawn
<1> QED BY <1>1, <1>2, PTL DEF AssemblySpec

(* The facts of the analyses are those of the observed Claims.            *)
LEMMA FactsObserved ==
  /\ \A f \in Facts(Groups) : \E c \in Observed : ObservedFact(f, c)
  /\ \A c \in Observed : \E f \in Facts(Groups) : ObservedFact(f, c)
<1>1. ASSUME NEW a \in Analyses, NEW c \in observed[a]
      PROVE  /\ ObservedFact(FactOf(a, c), c)
             /\ FactOf(a, c) \in Facts(Groups) /\ c \in Observed
  <2>1. AnalysisGroup(a) \in Groups /\ FactOf(a, c) \in AnalysisGroup(a).facts
    BY DEF Groups, AnalysisGroup
  <2>2. FactOf(a, c) \in Facts(Groups)
    BY <2>1 DEF Facts
  <2> QED BY <2>2 DEF ObservedFact, FactOf, Observed
<1>2. ASSUME NEW f \in Facts(Groups) PROVE \E a \in Analyses : \E c \in observed[a] : f = FactOf(a, c)
  BY DEF Facts, Groups, AnalysisGroup
<1>3. \A c \in Observed : \E a \in Analyses : c \in observed[a]
  BY DEF Observed
<1> QED BY <1>1, <1>2, <1>3

(* The Claims a chart reaches are the observed ones whose Evidence it     *)
(* draws from, and what may be drawn is Evidence of observed Claims.      *)
LEMMA ReachedClaims ==
  ASSUME projection = Projected(Groups), NEW E
  PROVE  /\ \A c : c \in Reached(E) <=> c \in Observed /\ records.cites[c] \cap E # {}
         /\ Drawable(E) => \A e \in E : \E c \in Observed : e \in records.cites[c]
<1>1. projection.groups = Groups /\ projection.closure = Closure(Groups)
  BY DEF Projected
<1>2. ASSUME NEW c
      PROVE  c \in Reached(E) <=> \E f \in Facts(Groups) : f.evidence \cap E # {} /\ c \in f.claims
  BY <1>1 DEF Reached
<1>3. ASSUME NEW e
      PROVE  e \in projection.closure.evidence <=> \E f \in Facts(Groups) : e \in f.evidence
  BY <1>1 DEF Closure
<1>4. ASSUME NEW c PROVE c \in Reached(E) <=> c \in Observed /\ records.cites[c] \cap E # {}
  <2>1. ASSUME c \in Reached(E) PROVE c \in Observed /\ records.cites[c] \cap E # {}
    <3>1. PICK f \in Facts(Groups) : f.evidence \cap E # {} /\ c \in f.claims
      BY <1>2, <2>1
    <3>2. PICK d \in Observed : ObservedFact(f, d)
      BY FactsObserved
    <3> QED BY <3>1, <3>2 DEF ObservedFact
  <2>2. ASSUME c \in Observed, records.cites[c] \cap E # {} PROVE c \in Reached(E)
    <3>1. PICK f \in Facts(Groups) : ObservedFact(f, c)
      BY <2>2, FactsObserved
    <3> QED BY <1>2, <2>2, <3>1 DEF ObservedFact
  <2> QED BY <2>1, <2>2
<1>5. ASSUME Drawable(E), NEW e \in E PROVE \E c \in Observed : e \in records.cites[c]
  BY <1>3, <1>5, FactsObserved DEF ObservedFact, Drawable
<1> QED BY <1>4, <1>5

(* The groups of the analyses are bound exactly if Claims and Evidence    *)
(* name each other.                                                       *)
LEMMA AnalysesBound ==
  GroupsBound(Groups) <=> Agreeing
<1>1. ASSUME NEW f, NEW c, ObservedFact(f, c)
      PROVE  FactBound(f) <=> \A e \in records.cites[c] : records.belongs[e] = c
  <2>1. EvidenceOf({c}) = records.cites[c]
    BY DEF EvidenceOf
  <2> QED BY <1>1, <2>1 DEF ObservedFact, FactBound
<1>2. (\A f \in Facts(Groups) : FactBound(f)) <=> Agreeing
  BY <1>1, FactsObserved DEF Agreeing
<1>3. ASSUME NEW a \in Analyses
      PROVE  AnalysisGroup(a).cited = UNION {f.sources : f \in AnalysisGroup(a).facts}
  <2>1. ASSUME NEW s
        PROVE  s \in AnalysisGroup(a).cited <=>
                 \E c \in observed[a] : \E e \in records.cites[c] : s = records.from[e]
    BY DEF AnalysisGroup, SourcesOf, EvidenceOf
  <2>2. ASSUME NEW s
        PROVE  s \in UNION {f.sources : f \in AnalysisGroup(a).facts} <=>
                 \E c \in observed[a] : s \in FactOf(a, c).sources
    BY DEF AnalysisGroup
  <2>3. ASSUME NEW s, NEW c
        PROVE  s \in FactOf(a, c).sources <=> \E e \in records.cites[c] : s = records.from[e]
    BY DEF FactOf, SourcesOf
  <2>4. \A s : s \in AnalysisGroup(a).cited <=> s \in UNION {f.sources : f \in AnalysisGroup(a).facts}
    BY <2>1, <2>2, <2>3
  <2> QED BY <2>4
<1>4. GroupsBound(Groups) <=> \A f \in Facts(Groups) : FactBound(f)
  BY <1>3 DEF GroupsBound, Groups, Facts
<1> QED BY <1>2, <1>4

(* A chart of whole Claims that agree with their Evidence is supported,   *)
(* and a supported chart is of whole Claims.                              *)
LEMMA ChartOfWholeClaims ==
  ASSUME Drawn, charts # None, Agreeing, NEW t \in DOMAIN charts
  PROVE  ChartSupported(t) <=>
           \A c \in Observed : records.cites[c] \cap charts[t] = {} \/ records.cites[c] \subseteq charts[t]
<1> DEFINE E == charts[t]
<1>1. /\ \A c : c \in Reached(E) <=> c \in Observed /\ records.cites[c] \cap E # {}
      /\ \A e \in E : \E c \in Observed : e \in records.cites[c]
  BY ReachedClaims DEF Drawn, ProjectedOnce, ChartsDrawn
<1>2. \A e : e \in EvidenceOf(Reached(E)) <=> \E c \in Reached(E) : e \in records.cites[c]
  BY DEF EvidenceOf
<1>3. E \subseteq EvidenceOf(Reached(E))
  BY <1>1, <1>2
<1>4. \A e \in E : records.belongs[e] \in Reached(E)
  BY <1>1 DEF Agreeing
<1>5. ChartSupported(t) <=> EvidenceOf(Reached(E)) \subseteq E
  BY <1>3, <1>4 DEF ChartSupported
<1> QED BY <1>1, <1>2, <1>5

(* The group of a supported chart is bound.                               *)
LEMMA ChartGroupBound ==
  ASSUME NEW t \in DOMAIN charts, ChartSupported(t)
  PROVE  GroupsBound({ChartGroup(t)})
<1> DEFINE fact == [origin |-> <<"chart", t>>, claims |-> Reached(charts[t]),
                    evidence |-> charts[t], sources |-> SourcesOf(charts[t])]
<1>1. ChartGroup(t).facts = {fact} /\ ChartGroup(t).cited = fact.sources
  BY DEF ChartGroup
<1>2. /\ fact.claims = Reached(charts[t]) /\ fact.evidence = charts[t]
      /\ fact.sources = SourcesOf(charts[t])
  OBVIOUS
<1> HIDE DEF fact
<1>3. FactBound(fact)
  BY <1>2 DEF FactBound, ChartSupported
<1> QED BY <1>1, <1>3 DEF GroupsBound

(* The publisher accepts the charts of exactly the Profile's types.       *)
LEMMA TypesAccepted ==
  ChartsAccepted <=> ProfileTypes
<1>1. Realized = DOMAIN charts \cap Options
  BY DEF Realized
<1>2. DOMAIN charts = Required \cup Realized <=>
        Required \subseteq DOMAIN charts /\ DOMAIN charts \subseteq Required \cup Options
  BY <1>1
<1> QED BY <1>1, <1>2 DEF ChartsAccepted, ChoiceResolved, RequiredTypes, ProfileTypes

(* Bound groups make a document the publisher accepts, if their Sources   *)
(* can be cited.                                                          *)
LEMMA BoundContent ==
  ASSUME NEW groups, GroupsBound(groups)
  PROVE  ContentAccepted(Projected(groups)) <=> Closure(groups).sources \subseteq records.citable
<1>1. Projected(groups).groups = groups /\ Projected(groups).closure = Closure(groups)
  BY DEF Projected
<1>2. CitedRight(groups) /\ Closure(groups).sources = UNION {f.sources : f \in Facts(groups)}
  BY DEF GroupsBound, CitedRight, Closure
<1>3. \A s : s \in Rendered(groups) <=> \E g \in groups : \E f \in g.facts : s \in f.sources
  BY <1>2 DEF CitedRight, Rendered
<1>4. \A s : s \in UNION {f.sources : f \in Facts(groups)} <=>
             \E g \in groups : \E f \in g.facts : s \in f.sources
  BY DEF Facts
<1>5. Rendered(groups) = Closure(groups).sources
  BY <1>2, <1>3, <1>4
<1>6. Projected(groups).closure.sources = Closure(groups).sources
  BY <1>1
<1>7. ExactClosure(Projected(groups))
  BY <1>1, <1>2 DEF ExactClosure, CitedRight
<1> QED BY <1>1, <1>5, <1>6, <1>7 DEF ContentAccepted

(* The Sources of the publication are those of all that the analysed      *)
(* Claims rest on: a chart adds none.                                     *)
LEMMA PublishedSources ==
  ASSUME Drawn, projection # None, charts # None
  PROVE  Closure(Combined).sources = SourcesOf(EvidenceOf(Observed))
<1>1. projection = Projected(Groups) /\ projection.groups = Groups
  BY DEF Drawn, ProjectedOnce, Projected
<1>2. ASSUME NEW s
      PROVE  s \in SourcesOf(EvidenceOf(Observed)) <=>
               \E c \in Observed : \E e \in records.cites[c] : s = records.from[e]
  BY DEF SourcesOf, EvidenceOf
<1>3. ASSUME NEW s
      PROVE  s \in Closure(Combined).sources <=> \E f \in Facts(Combined) : s \in f.sources
  BY DEF Closure
<1>4. ASSUME NEW f
      PROVE  f \in Facts(Combined) <=>
               f \in Facts(Groups) \/ \E t \in DOMAIN charts : f \in ChartGroup(t).facts
  BY <1>1 DEF Facts, Combined
<1>5. ASSUME NEW f, NEW c, ObservedFact(f, c), NEW s
      PROVE  s \in f.sources <=> \E e \in records.cites[c] : s = records.from[e]
  BY <1>5 DEF ObservedFact, SourcesOf
<1>6. ASSUME NEW t \in DOMAIN charts, NEW f \in ChartGroup(t).facts, NEW s \in f.sources
      PROVE  \E c \in Observed : \E e \in records.cites[c] : s = records.from[e]
  <2>1. f.sources = SourcesOf(charts[t])
    BY DEF ChartGroup
  <2>2. PICK e \in charts[t] : s = records.from[e]
    BY <1>6, <2>1 DEF SourcesOf
  <2>3. \E c \in Observed : e \in records.cites[c]
    BY <1>1, <2>2, ReachedClaims DEF Drawn, ChartsDrawn
  <2> QED BY <2>2, <2>3
<1>7. ASSUME NEW s
      PROVE  s \in Closure(Combined).sources <=>
               \E c \in Observed : \E e \in records.cites[c] : s = records.from[e]
  <2>1. ASSUME NEW f \in Facts(Combined), s \in f.sources
        PROVE  \E c \in Observed : \E e \in records.cites[c] : s = records.from[e]
    <3>1. CASE f \in Facts(Groups)
      BY <1>5, <2>1, <3>1, FactsObserved
    <3>2. CASE \E t \in DOMAIN charts : f \in ChartGroup(t).facts
      BY <1>6, <2>1, <3>2
    <3> QED BY <1>4, <2>1, <3>1, <3>2
  <2>2. ASSUME NEW c \in Observed, \E e \in records.cites[c] : s = records.from[e]
        PROVE  \E f \in Facts(Combined) : s \in f.sources
    <3>1. PICK f \in Facts(Groups) : ObservedFact(f, c)
      BY FactsObserved
    <3> QED BY <1>4, <1>5, <2>2, <3>1
  <2> QED BY <1>3, <2>1, <2>2
<1> QED BY <1>2, <1>7

\* For every Profile, all research records and all charts: a chart collection
\* is accepted by the materializer and then by the publisher exactly if Claims and
\* Evidence name each other, charts draw whole Claims, their types are the
\* Profile's, and every Source behind an analysed Claim can be cited.
THEOREM PublishedExactlyWhenCorrect == AssemblySpec => []PublishedExactlyWhen
<1>1. Drawn => PublishedExactlyWhen
  <2> SUFFICES ASSUME Drawn, projection # None, charts # None
               PROVE  Materializable /\ Printable(Projected(Combined)) <=>
                        Agreeing /\ WholeClaims /\ ProfileTypes /\ Citable
    BY DEF PublishedExactlyWhen
  <2>1. projection.groups = Groups /\ projection.closure = Closure(Groups)
    BY DEF Drawn, ProjectedOnce, Projected
  <2>2. GroupsBound(projection.groups) <=> Agreeing
    BY <2>1, AnalysesBound
  <2>3. Agreeing => ((\A t \in DOMAIN charts : ChartSupported(t)) <=> WholeClaims)
    BY ChartOfWholeClaims DEF WholeClaims
  <2>4. ASSUME GroupsBound(projection.groups), \A t \in DOMAIN charts : ChartSupported(t)
        PROVE  GroupsBound(Combined)
    BY <2>4, ChartGroupBound DEF GroupsBound, Combined
  <2>5. Materializable <=> Agreeing /\ WholeClaims
    BY <2>1, <2>2, <2>3, <2>4 DEF Materializable
  <2>6. Closure(Combined).sources \subseteq records.citable <=> Citable
    BY PublishedSources DEF Citable
  <2>7. Materializable => (Printable(Projected(Combined)) <=> ProfileTypes /\ Citable)
    BY <2>6, BoundContent, TypesAccepted DEF Materializable, Printable
  <2> QED BY <2>5, <2>7
<1> QED BY <1>1, DrawnAlways, PTL

-----------------------------------------------------------------------------
(***************************************************************************)
(* Scores.  What can be ranked: outcomes with a number for a score, one    *)
(* per competitor.                                                         *)
(***************************************************************************)
Comparable(S) ==
  /\ IsFiniteSet(S)
  /\ \A o \in S : o.score \in Int /\ o.coverage \in Int /\ o.competitor \in Nat
  /\ \A o, p \in S : o.competitor = p.competitor => o = p
Sorted(order) == \A i, j \in 1..Len(order) : i < j => Before(order[i], order[j])
\* What decides a rank: the score, then the coverage.
Higher(x, y) ==
  \/ x.score > y.score
  \/ x.score = y.score /\ x.coverage > y.coverage

(* Before is a strict order on outcomes in which any two can be compared. *)
LEMMA BeforeOrders ==
  ASSUME NEW S, Comparable(S)
  PROVE  /\ \A o \in S : ~ Before(o, o)
         /\ \A o, p \in S : o = p \/ Before(o, p) \/ Before(p, o)
         /\ \A o, p, q \in S : Before(o, p) /\ Before(p, q) => Before(o, q)
BY DEF Comparable, Before

(* Outcomes can be sorted: one's place, after the better ones, is its own *)
(* among as many places as outcomes.                                      *)
LEMMA SortExists ==
  ASSUME NEW S, Comparable(S)
  PROVE  \E order \in SetToSeqs(S) : Sorted(order)
<1> DEFINE above(c) == {d \in S : Before(d, c)}
           n == Cardinality(S)
           place == [c \in S |-> Cardinality(above(c)) + 1]
           order == [k \in 1..n |-> CHOOSE c \in S : place[c] = k]
<1>1. n \in Nat /\ IsFiniteSet(S)
  BY FS_CardinalityType DEF Comparable
<1>2. \A c \in S : IsFiniteSet(above(c)) /\ Cardinality(above(c)) \in Nat
  BY <1>1, FS_Subset, FS_CardinalityType
<1>3. ASSUME NEW c \in S PROVE Cardinality(above(c)) < n
  <2>1. c \notin above(c)
    BY BeforeOrders
  <2> QED BY <1>1, <1>2, <2>1, FS_Subset
<1>4. ASSUME NEW c \in S, NEW d \in S, Before(c, d)
      PROVE  Cardinality(above(c)) < Cardinality(above(d))
  <2>1. above(c) \subseteq above(d) /\ c \in above(d) /\ c \notin above(c)
    BY <1>4, BeforeOrders
  <2> HIDE DEF above, n, place, order
  <2> QED BY <1>2, <2>1, FS_Subset
<1>5. place \in [S -> 1..n]
  BY <1>1, <1>2, <1>3
<1>6. ASSUME NEW c \in S, NEW d \in S, Before(c, d) PROVE place[c] < place[d]
  <2>1. place[c] = Cardinality(above(c)) + 1 /\ place[d] = Cardinality(above(d)) + 1
    OBVIOUS
  <2>2. Cardinality(above(c)) < Cardinality(above(d))
    BY <1>4, <1>6
  <2> HIDE DEF above, n, place, order
  <2> QED BY <1>2, <2>1, <2>2
<1>7. place \in Injection(S, 1..n)
  <2>1. \A c, d \in S : place[c] = place[d] => c = d
    <3> HIDE DEF place, n
    <3> QED BY <1>1, <1>5, <1>6, BeforeOrders
  <2> HIDE DEF place, n
  <2> QED BY <1>5, <2>1, Fun_IsInj
<1>8. place \in Surjection(S, 1..n)
  <2>1. IsFiniteSet(1..n) /\ Cardinality(1..n) = n
    <3>1. 1 \in Int /\ n \in Int
      BY <1>1
    <3>2. IsFiniteSet(1..n) /\ Cardinality(1..n) = IF 1 > n THEN 0 ELSE n - 1 + 1
      BY <3>1, FS_Interval
    <3> HIDE DEF n
    <3> QED BY <1>1, <3>2
  <2>2. Cardinality(S) = Cardinality(1..n)
    BY <2>1
  <2> HIDE DEF place, n
  <2> QED BY <1>1, <1>7, <2>1, <2>2, FS_Injection
<1>9. \A k \in 1..n : \E c \in S : place[c] = k
  <2> HIDE DEF place, n
  <2> QED BY <1>8, Fun_SurjectionProperties
<1>10. \A k \in 1..n : order[k] \in S /\ place[order[k]] = k
  <2> HIDE DEF place, n
  <2> QED BY <1>9
<1> HIDE DEF place
<1>11. order \in [1..n -> S] /\ \A i, j \in 1..n : i # j => order[i] # order[j]
  <2>1. order \in [1..n -> S]
    BY <1>10
  <2> HIDE DEF order
  <2> QED BY <1>10, <2>1
<1>12. order \in SetToSeqs(S)
  <2> HIDE DEF order
  <2> QED BY <1>11 DEF SetToSeqs
<1>13. Len(order) = n
  <2> HIDE DEF order, n
  <2> QED BY <1>1, <1>11
<1>14. ASSUME NEW i \in 1..n, NEW j \in 1..n, i < j PROVE Before(order[i], order[j])
  <2> HIDE DEF order, n
  <2> QED BY <1>1, <1>6, <1>10, <1>14, BeforeOrders
<1>15. Sorted(order)
  <2> HIDE DEF order, n
  <2> QED BY <1>13, <1>14 DEF Sorted
<1> QED BY <1>12, <1>15

(* InOrder sorts what can be ranked, each outcome once.                   *)
LEMMA InOrderSorts ==
  ASSUME NEW S, Comparable(S)
  PROVE  /\ Len(InOrder(S)) \in Nat
         /\ \A i \in 1..Len(InOrder(S)) : InOrder(S)[i] \in S
         /\ Sorted(InOrder(S))
<1>1. InOrder(S) = CHOOSE order \in SetToSeqs(S) : Sorted(order)
  BY DEF InOrder, Sorted
<1>2. InOrder(S) \in SetToSeqs(S) /\ Sorted(InOrder(S))
  <2> HIDE DEF InOrder
  <2> QED BY <1>1, SortExists
<1>3. Cardinality(S) \in Nat
  BY FS_CardinalityType DEF Comparable
<1>4. InOrder(S) \in [1..Cardinality(S) -> S]
  BY <1>2 DEF SetToSeqs
<1>5. Len(InOrder(S)) = Cardinality(S)
  BY <1>3, <1>4
<1> QED BY <1>2, <1>3, <1>4, <1>5

(* A set of numbers has a least one.                                      *)
LEMMA Least ==
  ASSUME NEW T \in SUBSET Nat, T # {}
  PROVE  \E k \in T : \A j \in T : k <= j
<1> DEFINE Less == {p \in Nat \X Nat : p[1] < p[2]}
<1>1. IsWellFoundedOn(Less, Nat)
  BY NatLessThanWellFounded DEF OpToRel
<1>2. \E k \in T : \A j \in T : ~ (<<j, k>> \in Less)
  <2> HIDE DEF Less
  <2> QED BY <1>1, WFMin
<1>3. \A i \in Nat, j \in Nat : <<i, j>> \notin Less => j <= i
  OBVIOUS
<1> QED
  <2> HIDE DEF Less
  <2> QED BY <1>2, <1>3

(* The ranks of a sorted list are those of the first of each tie.         *)
LEMMA RankIsFirst ==
  ASSUME NEW S, Comparable(S), NEW order, Len(order) \in Nat,
         \A i \in 1..Len(order) : order[i] \in S, Sorted(order)
  PROVE  \A i \in 1..Len(order) :
           /\ Ranks(order)[i] \in 1..Len(order) /\ Peers(order[Ranks(order)[i]], order[i])
           /\ \A k \in 1..Len(order) : Peers(order[k], order[i]) => Ranks(order)[i] <= k
<1> DEFINE n == Len(order)
           same(i) == {k \in 1..n : Peers(order[k], order[i])}
           foremost(T) == CHOOSE k \in T : \A j \in T : k <= j
           first == [i \in 1..n |-> foremost(same(i))]
           rank == Ranks(order)
<1>1. ASSUME NEW i \in 1..n
      PROVE  first[i] \in same(i) /\ \A j \in same(i) : first[i] <= j
  <2>1. same(i) \in SUBSET Nat /\ i \in same(i)
    BY DEF Peers
  <2>2. \E k \in same(i) : \A j \in same(i) : k <= j
    <3> HIDE DEF same
    <3> QED BY <2>1, Least
  <2> QED BY <2>2
<1>2. ASSUME NEW i \in 1..n, NEW j \in 1..n, Peers(order[j], order[i])
      PROVE  first[i] = first[j]
  <2>1. same(i) = same(j)
    BY <1>2 DEF Peers
  <2> HIDE DEF same, foremost
  <2> QED BY <2>1
<1>3. ASSUME NEW i \in 1..n, NEW k \in 1..n, k < i, Peers(order[k], order[i])
      PROVE  i > 1 /\ i - 1 \in 1..n /\ Peers(order[i - 1], order[i])
  <2>1. i > 1 /\ i - 1 \in 1..n /\ k <= i - 1
    BY <1>3
  <2>2. Before(order[i - 1], order[i])
    BY <2>1 DEF Sorted
  <2>3. k = i - 1 \/ Before(order[k], order[i - 1])
    BY <2>1 DEF Sorted
  <2>4. order[k] \in S /\ order[i - 1] \in S /\ order[i] \in S
    BY <2>1
  <2>5. CASE k = i - 1
    BY <1>3, <2>1, <2>5
  <2>6. CASE Before(order[k], order[i - 1])
    BY <1>3, <2>1, <2>2, <2>4, <2>6 DEF Comparable, Before, Peers
  <2> QED BY <2>3, <2>5, <2>6
<1>4. ASSUME NEW i \in 1..n
      PROVE  first[i] = IF i > 1 /\ Peers(order[i - 1], order[i]) THEN first[i - 1] ELSE i
  <2>1. CASE i > 1 /\ Peers(order[i - 1], order[i])
    <3>1. i - 1 \in 1..n
      BY <2>1
    <3>2. first[i] = first[i - 1]
      <4> HIDE DEF n, first
      <4> QED BY <1>2, <2>1, <3>1
    <3> HIDE DEF first
    <3> QED BY <2>1, <3>2
  <2>2. CASE ~ (i > 1 /\ Peers(order[i - 1], order[i]))
    <3>1. i \in same(i)
      BY DEF Peers
    <3>2. first[i] \in 1..n /\ Peers(order[first[i]], order[i]) /\ first[i] <= i
      BY <1>1, <3>1
    <3>3. ~ (first[i] < i)
      BY <1>3, <2>2, <3>2
    <3> QED BY <2>2, <3>2, <3>3
  <2> QED BY <2>1, <2>2
<1>5. first = [i \in 1..n |-> IF i > 1 /\ Peers(order[i - 1], order[i]) THEN first[i - 1] ELSE i]
  <2>1. first = [i \in 1..n |-> first[i]]
    <3> HIDE DEF same, foremost
    <3> QED OBVIOUS
  <2> HIDE DEF first
  <2> QED BY <1>4, <2>1
<1>6. rank = [i \in 1..n |-> IF i > 1 /\ Peers(order[i - 1], order[i]) THEN rank[i - 1] ELSE i]
  <2> HIDE DEF first
  <2> QED BY <1>5, Zenon DEF Ranks
<1>7. ASSUME NEW i \in 1..n
      PROVE  rank[i] = IF i > 1 /\ Peers(order[i - 1], order[i]) THEN rank[i - 1] ELSE i
  <2> HIDE DEF rank
  <2> QED BY <1>6
<1>8. \A i \in 1..n : rank[i] = first[i]
  <2> DEFINE other == {i \in 1..n : rank[i] # first[i]}
  <2>1. ASSUME other # {} PROVE FALSE
    <3>1. other \in SUBSET Nat
      OBVIOUS
    <3>2. PICK i \in other : \A j \in other : i <= j
      <4> HIDE DEF other
      <4> QED BY <2>1, <3>1, Least
    <3>3. i \in 1..n /\ rank[i] # first[i]
      OBVIOUS
    <3>4. i > 1 /\ Peers(order[i - 1], order[i])
      <4> HIDE DEF rank, first, other
      <4> QED BY <1>4, <1>7, <3>3
    <3>5. i - 1 \in 1..n /\ i - 1 \notin other
      <4> HIDE DEF rank, first, other
      <4> QED BY <3>1, <3>2, <3>3, <3>4
    <3>6. rank[i - 1] = first[i - 1]
      BY <3>5
    <3> HIDE DEF rank, first, other
    <3> QED BY <1>4, <1>7, <3>3, <3>4, <3>6
  <2> QED BY <2>1
<1>9. \A i \in 1..n : /\ rank[i] \in 1..n /\ Peers(order[rank[i]], order[i])
                      /\ \A k \in 1..n : Peers(order[k], order[i]) => rank[i] <= k
  <2> HIDE DEF rank, first
  <2> QED BY <1>1, <1>8
<1> QED BY <1>9

(* Of two in a sorted list the higher has the better rank, and only equal *)
(* ones share one.                                                        *)
LEMMA RanksCompare ==
  ASSUME NEW S, Comparable(S), NEW order, Len(order) \in Nat,
         \A i \in 1..Len(order) : order[i] \in S, Sorted(order),
         NEW i \in 1..Len(order), NEW j \in 1..Len(order)
  PROVE  /\ Ranks(order)[i] < Ranks(order)[j] <=> Higher(order[i], order[j])
         /\ Ranks(order)[i] = Ranks(order)[j] => Peers(order[i], order[j])
<1> DEFINE n == Len(order)
           rank == Ranks(order)
<1>1. \A k \in 1..n : /\ rank[k] \in 1..n /\ Peers(order[rank[k]], order[k])
                      /\ \A l \in 1..n : Peers(order[l], order[k]) => rank[k] <= l
  BY RankIsFirst
<1> HIDE DEF rank
<1>2. ASSUME NEW k \in 1..n, NEW l \in 1..n, Higher(order[k], order[l])
      PROVE  rank[k] < rank[l]
  <2>1. rank[k] \in 1..n /\ rank[l] \in 1..n
        /\ order[k] \in S /\ order[l] \in S /\ order[rank[k]] \in S /\ order[rank[l]] \in S
    BY <1>1
  <2>2. Peers(order[rank[k]], order[k]) /\ Peers(order[rank[l]], order[l])
    BY <1>1
  <2>3. Higher(order[rank[k]], order[rank[l]])
    BY <1>2, <2>2 DEF Higher, Peers
  <2>4. \A o \in S : o.score \in Int /\ o.coverage \in Int
    BY DEF Comparable
  <2>5. \A o, p \in S : Higher(o, p) => ~ Before(p, o) /\ ~ Higher(p, o)
    BY <2>4 DEF Higher, Before
  <2>6. ~ Before(order[rank[l]], order[rank[k]]) /\ rank[k] # rank[l]
    <3> HIDE DEF n
    <3> QED BY <2>1, <2>3, <2>5
  <2> QED BY <2>1, <2>6 DEF Sorted
<1>3. ASSUME NEW k \in 1..n, NEW l \in 1..n, Peers(order[k], order[l])
      PROVE  rank[k] <= rank[l]
  <2>1. rank[l] \in 1..n /\ Peers(order[rank[l]], order[l])
    BY <1>1
  <2>2. Peers(order[rank[l]], order[k])
    BY <1>3, <2>1 DEF Peers
  <2> QED BY <1>1, <2>1, <2>2
<1>4. order[i] \in S /\ order[j] \in S
  OBVIOUS
<1>5. Peers(order[i], order[j]) \/ Higher(order[i], order[j]) \/ Higher(order[j], order[i])
  BY <1>4 DEF Comparable, Peers, Higher
<1>6. rank[i] \in 1..n /\ rank[j] \in 1..n
  BY <1>1
<1>7. CASE Peers(order[i], order[j])
  <2>1. rank[i] <= rank[j]
    BY <1>3, <1>7
  <2>2. Peers(order[j], order[i])
    BY <1>7 DEF Peers
  <2>3. rank[j] <= rank[i]
    BY <1>3, <2>2
  <2>4. ~ Higher(order[i], order[j])
    BY <1>4, <1>7 DEF Higher, Peers, Comparable
  <2> QED BY <1>6, <1>7, <2>1, <2>3, <2>4 DEF rank
<1>8. CASE Higher(order[i], order[j])
  <2>1. rank[i] < rank[j]
    BY <1>2, <1>8
  <2> QED BY <1>6, <1>8, <2>1 DEF rank
<1>9. CASE Higher(order[j], order[i])
  <2>1. rank[j] < rank[i]
    BY <1>2, <1>9
  <2>2. ~ Higher(order[i], order[j])
    BY <1>4, <1>9 DEF Higher, Comparable
  <2> QED BY <1>6, <2>1, <2>2 DEF rank
<1> QED BY <1>5, <1>7, <1>8, <1>9

(* What is known of a committed score: it was verified, and is among the  *)
(* outcomes of the Judgments it was computed from.                        *)
ScoreKnown(s) ==
  /\ projection # None
  /\ s.of \in Competitors
  /\ Verified(s.from)
  /\ s.result \in Outcomes(s.from) /\ s.result.outcome.competitor = s.of
ScoresKnown == \A s \in scores : ScoreKnown(s)

(* What the Judgments and the Projection say does not depend on the rest. *)
LEMMA JudgmentsStay ==
  ASSUME UNCHANGED <<judgments, projection>>, NEW from
  PROVE  /\ Verified(from)' <=> Verified(from)
         /\ Outcomes(from)' = Outcomes(from)
<1>1. ASSUME NEW c PROVE Aggregate(c, from)' = Aggregate(c, from)
  BY DEF Aggregate, ScoredDimensions, SumOver, Points
<1>2. ASSUME NEW d, NEW j PROVE Verdict(d, j)' = Verdict(d, j)
  BY DEF Verdict, Valid, ClaimsBacked, EvidenceLinked, Links
<1>3. Verified(from)' <=> Verified(from)
  BY <1>2 DEF Verified
<1>4. {Aggregate(c, from) : c \in Competitors}' = {Aggregate(c, from) : c \in Competitors}
  BY <1>1
<1>5. Outcomes(from)' = Ranked({Aggregate(c, from) : c \in Competitors}')
  BY DEF Outcomes
<1> QED BY <1>3, <1>4, <1>5 DEF Outcomes

(* Committed scores stay what they were known to be.                      *)
LEMMA ScoresKnownAlways == Spec => []ScoresKnown
<1>1. Init => ScoresKnown
  BY DEF Init, ScoresKnown
<1>2. ScoresKnown /\ [Next]_scoringVars => ScoresKnown'
  <2> SUFFICES ASSUME ScoresKnown, [Next]_scoringVars, NEW s \in scores' PROVE ScoreKnown(s)'
    BY DEF ScoresKnown
  <2>1. ASSUME ScoreKnown(s), UNCHANGED <<judgments, projection>> PROVE ScoreKnown(s)'
    BY <2>1, JudgmentsStay DEF ScoreKnown
  <2>2. CASE Assemble /\ UNCHANGED <<judgments, scores>>
    <3>1. ScoreKnown(s)
      BY <2>2 DEF ScoresKnown
    <3>2. UNCHANGED projection
      BY <2>2, <3>1 DEF ScoreKnown, Assemble, MaterializeFacts, RenderCharts, MaterializePublication,
                        PublishReport, InvalidateCharts
    <3> QED BY <2>1, <2>2, <3>1, <3>2
  <2>3. ASSUME NEW c \in Competitors, NEW supplied \in SUBSET Competitors, CommitScore(c, supplied)
        PROVE  ScoreKnown(s)'
    <3>1. UNCHANGED <<judgments, projection>>
      BY <2>3 DEF CommitScore, assemblyVars
    <3>2. CASE s \in scores
      BY <2>1, <3>1, <3>2 DEF ScoresKnown
    <3>3. CASE s \notin scores
      <4>1. PICK r \in Outcomes(supplied) :
              /\ r.outcome.competitor = c
              /\ scores' = scores \cup {[of |-> c, from |-> supplied, result |-> r]}
        BY <2>3 DEF CommitScore
      <4>2. s.of = c /\ s.from = supplied /\ s.result = r
        BY <3>3, <4>1
      <4>3. ScoreKnown(s)
        BY <2>3, <4>1, <4>2 DEF CommitScore, ScoreKnown
      <4> QED BY <2>1, <3>1, <4>3
    <3> QED BY <3>2, <3>3
  <2>4. CASE UNCHANGED scoringVars
    BY <2>1, <2>4 DEF scoringVars, assemblyVars, ScoresKnown
  <2> QED BY <2>2, <2>3, <2>4 DEF Next
<1> QED BY <1>1, <1>2, PTL DEF Spec

(* The eligible outcomes of one set of Judgments.                         *)
Eligible(from) == {o \in {Aggregate(c, from) : c \in Competitors} : o.score # None}

(* The scored dimensions of an outcome, and its score: the mean in        *)
(* twentieths, exact over four dimensions and over five.                  *)
LEMMA AggregateMeans ==
  ASSUME NEW c \in Competitors, NEW from, Aggregate(c, from).score # None
  PROVE  LET dims == ScoredDimensions(c, {c})
             o    == Aggregate(c, from)
         IN  /\ c \in from /\ SumOver(c, dims) \in Nat
             /\ \/ Cardinality(dims) = 4 /\ o.coverage = 8 /\ o.score = 5 * SumOver(c, dims)
                \/ Cardinality(dims) = 5 /\ o.coverage = 10 /\ o.score = 4 * SumOver(c, dims)
<1> DEFINE dims == ScoredDimensions(c, from)
           sum == SumOver(c, dims)
<1>1. dims \subseteq Dimensions
  BY DEF ScoredDimensions
<1>2. IsFiniteSet(dims) /\ Cardinality(dims) \in Nat /\ Cardinality(dims) <= 5
  BY <1>1, RubricAssumption, FS_Subset, FS_CardinalityType
<1>3. sum \in Nat
  <2>1. IsFiniteSet(1..10)
    <3>1. 1 \in Int /\ 10 \in Int
      OBVIOUS
    <3> QED BY <3>1, FS_Interval
  <2>2. IsFiniteSet(dims \X (1..10))
    <3> HIDE DEF dims
    <3> QED BY <1>2, <2>1, FS_Product
  <2>3. Points(c, dims) \subseteq dims \X (1..10)
    BY DEF Points
  <2>4. IsFiniteSet(Points(c, dims))
    <3> HIDE DEF dims
    <3> QED BY <2>2, <2>3, FS_Subset
  <2> QED BY <2>4, FS_CardinalityType DEF SumOver
<1>4. /\ Aggregate(c, from).coverage = 2 * Cardinality(dims)
      /\ Aggregate(c, from).score = IF 2 * Cardinality(dims) >= 8
                                    THEN (40 * sum) \div (2 * Cardinality(dims)) ELSE None
  BY DEF Aggregate, Weight, MinimumCoverage
<1>5. Cardinality(dims) = 4 \/ Cardinality(dims) = 5
  <2> HIDE DEF dims, sum
  <2> QED BY <1>2, <1>4
<1>6. c \in from
  <2>1. ASSUME c \notin from PROVE FALSE
    <3>1. dims = {}
      BY <2>1 DEF ScoredDimensions
    <3>2. Cardinality(dims) = 0
      BY <3>1, FS_EmptySet
    <3> QED BY <1>5, <3>2
  <2> QED BY <2>1
<1>7. dims = ScoredDimensions(c, {c})
  BY <1>6 DEF ScoredDimensions
<1>8. (40 * sum) \div 8 = 5 * sum /\ (40 * sum) \div 10 = 4 * sum
  <2> HIDE DEF sum
  <2> QED BY <1>3
<1>9. \/ Cardinality(dims) = 4 /\ Aggregate(c, from).coverage = 8 /\ Aggregate(c, from).score = 5 * sum
      \/ Cardinality(dims) = 5 /\ Aggregate(c, from).coverage = 10 /\ Aggregate(c, from).score = 4 * sum
  <2> HIDE DEF dims, sum
  <2>1. CASE Cardinality(dims) = 4
    BY <1>4, <1>8, <2>1
  <2>2. CASE Cardinality(dims) = 5
    BY <1>4, <1>8, <2>2
  <2> QED BY <1>5, <2>1, <2>2
<1> HIDE DEF dims
<1> QED BY <1>3, <1>6, <1>7, <1>9

(* Eligible outcomes can be ranked.                                       *)
LEMMA EligibleComparable ==
  ASSUME NEW from
  PROVE  Comparable(Eligible(from))
<1> DEFINE A == {Aggregate(c, from) : c \in Competitors}
<1>1. IsFiniteSet(A)
  <2> DEFINE outcome == [c \in Competitors |-> Aggregate(c, from)]
  <2>1. outcome \in Surjection(Competitors, A)
    <3>1. outcome \in [Competitors -> A] /\ \A o \in A : \E c \in Competitors : outcome[c] = o
      OBVIOUS
    <3> HIDE DEF outcome, A
    <3> QED BY <3>1, Fun_IsSurj
  <2> HIDE DEF outcome, A
  <2> QED BY <2>1, RubricAssumption, FS_Surjection
<1>2. IsFiniteSet(Eligible(from))
  <2>1. Eligible(from) \subseteq A
    BY DEF Eligible
  <2> HIDE DEF A
  <2> QED BY <1>1, <2>1, FS_Subset
<1>3. \A o \in Eligible(from) : \E c \in Competitors :
        o = Aggregate(c, from) /\ o.competitor = c /\ o.score \in Int /\ o.coverage \in Int
  <2> SUFFICES ASSUME NEW c \in Competitors, Aggregate(c, from).score # None
               PROVE  /\ Aggregate(c, from).competitor = c
                      /\ Aggregate(c, from).score \in Int /\ Aggregate(c, from).coverage \in Int
    BY DEF Eligible
  <2>1. Aggregate(c, from).competitor = c
    BY DEF Aggregate
  <2>2. PICK sum \in Nat :
          \/ Aggregate(c, from).coverage = 8 /\ Aggregate(c, from).score = 5 * sum
          \/ Aggregate(c, from).coverage = 10 /\ Aggregate(c, from).score = 4 * sum
    BY AggregateMeans
  <2>3. 5 * sum \in Int /\ 4 * sum \in Int
    OBVIOUS
  <2> QED BY <2>1, <2>2, <2>3
<1> QED BY <1>2, <1>3, RubricAssumption DEF Comparable

(* A committed score is a place in the sorted list of its call.           *)
LEMMA ScoreRanked ==
  ASSUME NEW s, ScoreKnown(s)
  PROVE  LET order == InOrder(Eligible(s.from))
         IN  \E i \in 1..Len(order) :
               /\ s.result.rank = Ranks(order)[i]
               /\ s.result.tied <=> \E k \in 1..Len(order) : k # i /\ Peers(order[k], order[i])
               /\ order[i] = Aggregate(s.of, s.from) /\ order[i].score # None
<1> DEFINE order == InOrder(Eligible(s.from))
           place(i) == [outcome |-> order[i], rank |-> Ranks(order)[i],
                        tied |-> \E k \in 1..Len(order) : k # i /\ Peers(order[k], order[i])]
<1>1. s.result \in Ranked({Aggregate(c, s.from) : c \in Competitors})
  BY DEF ScoreKnown, Outcomes
<1>2. Ranked({Aggregate(c, s.from) : c \in Competitors}) = {place(i) : i \in 1..Len(order)}
  BY DEF Ranked, Eligible
<1>3. PICK i \in 1..Len(order) : s.result = place(i)
  <2> HIDE DEF place
  <2> QED BY <1>1, <1>2
<1>4. order[i] \in Eligible(s.from)
  BY EligibleComparable, InOrderSorts
<1>5. PICK c \in Competitors : order[i] = Aggregate(c, s.from) /\ order[i].score # None
  <2> HIDE DEF order
  <2> QED BY <1>4 DEF Eligible
<1> HIDE DEF order
<1>6. c = s.of
  <2>1. s.result.outcome = order[i] /\ s.result.outcome.competitor = s.of
    BY <1>3 DEF ScoreKnown
  <2>2. Aggregate(c, s.from).competitor = c
    BY DEF Aggregate
  <2> QED BY <1>5, <2>1, <2>2
<1>7. /\ s.result.rank = Ranks(order)[i]
      /\ s.result.tied = \E k \in 1..Len(order) : k # i /\ Peers(order[k], order[i])
  BY <1>3
<1> QED BY <1>5, <1>6, <1>7 DEF order

(* The parts and the total that RanksAgree compares are those the outcome *)
(* of the call was computed from.                                         *)
LEMMA AheadIsHigher ==
  ASSUME NEW s, NEW t, s.of \in Competitors, t.of \in Competitors,
         Aggregate(s.of, s.from).score # None, Aggregate(t.of, t.from).score # None
  PROVE  Ahead(s, t) <=> Higher(Aggregate(s.of, s.from), Aggregate(t.of, t.from))
<1> DEFINE x == Aggregate(s.of, s.from)
           y == Aggregate(t.of, t.from)
<1>1. /\ Total(s) \in Nat
      /\ \/ Parts(s) = 4 /\ x.coverage = 8 /\ x.score = 5 * Total(s)
         \/ Parts(s) = 5 /\ x.coverage = 10 /\ x.score = 4 * Total(s)
  BY AggregateMeans DEF Total, Parts
<1>2. /\ Total(t) \in Nat
      /\ \/ Parts(t) = 4 /\ y.coverage = 8 /\ y.score = 5 * Total(t)
         \/ Parts(t) = 5 /\ y.coverage = 10 /\ y.score = 4 * Total(t)
  BY AggregateMeans DEF Total, Parts
<1>3. Ahead(s, t) <=> Higher(x, y)
  <2> HIDE DEF x, y
  <2>1. CASE Parts(s) = 4 /\ Parts(t) = 4
    BY <1>1, <1>2, <2>1 DEF Ahead, Higher
  <2>2. CASE Parts(s) = 4 /\ Parts(t) = 5
    BY <1>1, <1>2, <2>2 DEF Ahead, Higher
  <2>3. CASE Parts(s) = 5 /\ Parts(t) = 4
    BY <1>1, <1>2, <2>3 DEF Ahead, Higher
  <2>4. CASE Parts(s) = 5 /\ Parts(t) = 5
    BY <1>1, <1>2, <2>4 DEF Ahead, Higher
  <2> QED BY <1>1, <1>2, <2>1, <2>2, <2>3, <2>4
<1> QED BY <1>3

(* What a verified Judgment cites is tied to one of its Claims.           *)
LEMMA JudgedFromTied ==
  ASSUME NEW s, ScoreKnown(s), s.of \in s.from,
         NEW d \in ScoredDimensions(s.of, {s.of}), NEW e \in judgments[s.of][d].evidence
  PROVE  \E f \in Facts(projection.groups) :
           e \in f.evidence /\ f.claims \cap judgments[s.of][d].claims # {}
<1> DEFINE j == judgments[s.of][d]
<1>1. d \in Dimensions /\ Scored(j)
  BY DEF ScoredDimensions
<1>2. Verdict(d, j) = "ACCEPT"
  BY <1>1 DEF ScoreKnown, Verified
<1>3. EvidenceLinked(j)
  BY <1>1, <1>2 DEF Verdict, Valid
<1>4. PICK c \in j.claims : e \in Links(c)
  BY <1>3 DEF EvidenceLinked
<1>5. PICK f \in Facts(projection.groups) : c \in f.claims /\ e \in f.evidence
  BY <1>4 DEF Links
<1> QED BY <1>4, <1>5

\* For all competitors, Scopes and Judgments: scores committed in separate calls
\* over the same Judgments rank as their means and coverages compare, equal ones
\* share a rank and say so, and each rests on four dimensions at least, judged from
\* Claims and Evidence the Projection ties together.
THEOREM RanksAgreeCorrect == Spec => []RanksAgree
<1>1. ScoresKnown => RanksAgree
  <2> SUFFICES ASSUME ScoresKnown, NEW s \in scores
               PROVE  /\ Parts(s) >= 4
                      /\ \A d \in ScoredDimensions(s.of, {s.of}) :
                           \A e \in judgments[s.of][d].evidence :
                             \E f \in Facts(projection.groups) :
                               e \in f.evidence /\ f.claims \cap judgments[s.of][d].claims # {}
                      /\ \A t \in scores : s.from = t.from /\ s.of # t.of =>
                           /\ s.result.rank < t.result.rank <=> Ahead(s, t)
                           /\ s.result.rank = t.result.rank => s.result.tied /\ t.result.tied
    BY DEF RanksAgree
  <2>1. \A r \in scores : ScoreKnown(r) /\ r.of \in Competitors
    BY DEF ScoresKnown, ScoreKnown
  <2>2. \A r \in scores : Aggregate(r.of, r.from).score # None
    BY <2>1, ScoreRanked
  <2>3. s.of \in s.from /\ Parts(s) >= 4
    BY <2>1, <2>2, AggregateMeans DEF Parts
  <2>4. ASSUME NEW t \in scores, s.from = t.from, s.of # t.of
        PROVE  /\ s.result.rank < t.result.rank <=> Ahead(s, t)
               /\ s.result.rank = t.result.rank => s.result.tied /\ t.result.tied
    <3> DEFINE order == InOrder(Eligible(s.from))
    <3>1. PICK i \in 1..Len(order) :
            /\ s.result.rank = Ranks(order)[i]
            /\ s.result.tied <=> \E k \in 1..Len(order) : k # i /\ Peers(order[k], order[i])
            /\ order[i] = Aggregate(s.of, s.from) /\ order[i].score # None
      BY <2>1, ScoreRanked
    <3>2. PICK j \in 1..Len(order) :
            /\ t.result.rank = Ranks(order)[j]
            /\ t.result.tied <=> \E k \in 1..Len(order) : k # j /\ Peers(order[k], order[j])
            /\ order[j] = Aggregate(t.of, t.from) /\ order[j].score # None
      BY <2>1, <2>4, ScoreRanked
    <3>3. i # j
      <4>1. order[i].competitor = s.of /\ order[j].competitor = t.of
        BY <3>1, <3>2 DEF Aggregate
      <4> QED BY <2>4, <4>1
    <3>4. /\ Len(order) \in Nat /\ Sorted(order) /\ Comparable(Eligible(s.from))
          /\ \A k \in 1..Len(order) : order[k] \in Eligible(s.from)
      BY EligibleComparable, InOrderSorts
    <3> HIDE DEF order
    <3>5. /\ Ranks(order)[i] < Ranks(order)[j] <=> Higher(order[i], order[j])
          /\ Ranks(order)[i] = Ranks(order)[j] => Peers(order[i], order[j])
      BY <3>4, RanksCompare
    <3>6. Ahead(s, t) <=> Higher(order[i], order[j])
      BY <2>1, <3>1, <3>2, AheadIsHigher
    <3>7. Peers(order[i], order[j]) => Peers(order[j], order[i])
      BY DEF Peers
    <3> QED BY <3>1, <3>2, <3>3, <3>5, <3>6, <3>7
  <2>5. ASSUME NEW d \in ScoredDimensions(s.of, {s.of}), NEW e \in judgments[s.of][d].evidence
        PROVE  \E f \in Facts(projection.groups) :
                 e \in f.evidence /\ f.claims \cap judgments[s.of][d].claims # {}
    BY <2>1, <2>3, JudgedFromTied
  <2> QED BY <2>3, <2>4, <2>5
<1> QED BY <1>1, ScoresKnownAlways, PTL
=============================================================================
