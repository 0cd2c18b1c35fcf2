--------------------------- MODULE ReportAssembly ---------------------------
(***************************************************************************)
(* From research records to a Report: the facts of the Report Projection   *)
(* (competitor_research.py), the charts drawn from it (chart_rendering.py),*)
(* the Publication Projection that joins the two                           *)
(* (publication_projection.py) and the check of the publisher on what it   *)
(* is given (report_publisher.py).  Three modules judge the provenance of  *)
(* a chart one after the other, each by rules of its own.  A call that is  *)
(* refused changes nothing.  How a step is committed is RuntimeIntegration *)
(* and ReportPublisher.                                                    *)
(***************************************************************************)
EXTENDS FiniteSets

CONSTANTS
  Claims, Evidence, Sources,   \* identities of research records
  Analyses,                    \* the analyses whose observations are projected
  ChartTypes,                  \* registered chart types
  Required, Options,           \* competitor_visualizations of the Product Profile
  None

ASSUME ProfileAssumption ==
  /\ Required \subseteq ChartTypes /\ Options \subseteq ChartTypes
  /\ Required \cap Options = {} /\ Required \cup Options # {}

VARIABLES
  records,                     \* Evidence and Claims, as the research nodes proposed them
  observed,                    \* the Claims each analysis observes
  projection,                  \* the Report Projection
  charts,                      \* the Chart Bundle Collection: rendered Evidence, by type
  publication,                 \* the Report Publication Projection
  report                       \* what the published Report shows

given == <<records, observed>>
assemblyVars == <<given, projection, charts, publication, report>>

Subsets(S) == SUBSET S \ {{}}
\* An Evidence record names one Claim and one Source, a Claim the Evidence it
\* rests on.  Nothing compares the two directions.  A Source is citable if it has
\* an HTTP(S) URL and citation metadata: research takes one without them.
Records ==
  [belongs : [Evidence -> Claims], from : [Evidence -> Sources], cites : [Claims -> Subsets(Evidence)],
   citable : SUBSET Sources]
SourcesOf(evidence) == {records.from[e] : e \in evidence}
EvidenceOf(claims) == UNION {records.cites[c] : c \in claims}

Facts(groups) == UNION {g.facts : g \in groups}
Closure(groups) ==
  [claims   |-> UNION {f.claims : f \in Facts(groups)},
   evidence |-> UNION {f.evidence : f \in Facts(groups)},
   sources  |-> UNION {f.sources : f \in Facts(groups)}]
Projected(groups) == [groups |-> groups, closure |-> Closure(groups)]

\* One fact per observation, with the one Claim that states it.
FactOf(a, c) ==
  [origin |-> <<a, c>>, claims |-> {c}, evidence |-> records.cites[c], sources |-> SourcesOf(records.cites[c])]
AnalysisGroup(a) ==
  [name |-> a, facts |-> {FactOf(a, c) : c \in observed[a]}, cited |-> SourcesOf(EvidenceOf(observed[a]))]

MaterializeFacts ==
  /\ projection = None
  /\ projection' = Projected({AnalysisGroup(a) : a \in Analyses})
  /\ UNCHANGED <<given, charts, publication, report>>

-----------------------------------------------------------------------------
\* The Claims a chart must name: those of every fact its Evidence supports.
Reached(evidence) ==
  UNION {f.claims : f \in {g \in Facts(projection.groups) : g.evidence \cap evidence # {}}}
Drawable(evidence) == evidence \subseteq projection.closure.evidence
ExactClosure(p) ==
  /\ p.closure = Closure(p.groups)
  /\ \A g \in p.groups : g.cited = UNION {f.sources : f \in g.facts}

\* build_collection refuses a second chart of a type: the collection is a function.
RenderCharts ==
  /\ projection # None /\ charts = None
  /\ ExactClosure(projection)
  /\ \E types \in Subsets(ChartTypes) : \E drawn \in [types -> Subsets(Evidence)] :
       /\ \A t \in types : Drawable(drawn[t])
       /\ charts' = drawn
  /\ UNCHANGED <<given, projection, publication, report>>

-----------------------------------------------------------------------------
FactBoundOneWay(f) ==                                                         \* mutant
  EvidenceOf(f.claims) \subseteq f.evidence /\ f.sources = SourcesOf(f.evidence)
FactBound(f) ==
  /\ EvidenceOf(f.claims) \subseteq f.evidence
  /\ \A e \in f.evidence : records.belongs[e] \in f.claims
  /\ f.sources = SourcesOf(f.evidence)
GroupsBound(groups) ==
  \A g \in groups : /\ \A f \in g.facts : FactBound(f)
                    /\ g.cited = UNION {f.sources : f \in g.facts}

ChartSupported(t) ==
  /\ charts[t] = EvidenceOf(Reached(charts[t]))
  /\ \A e \in charts[t] : records.belongs[e] \in Reached(charts[t])
ChartGroup(t) ==
  LET fact == [origin |-> <<"chart", t>>, claims |-> Reached(charts[t]),
               evidence |-> charts[t], sources |-> SourcesOf(charts[t])]
  IN  [name |-> t, facts |-> {fact}, cited |-> fact.sources]
Combined == projection.groups \cup {ChartGroup(t) : t \in DOMAIN charts}

Materializable ==
  /\ GroupsBound(projection.groups)
  /\ projection.closure = Closure(projection.groups)
  /\ \A t \in DOMAIN charts : ChartSupported(t)
  /\ GroupsBound(Combined)
MaterializePublication ==
  /\ projection # None /\ charts # None /\ publication = None
  /\ Materializable
  /\ publication' = Projected(Combined)
  /\ UNCHANGED <<given, projection, charts, report>>

-----------------------------------------------------------------------------
\* The option of the Profile is the one the collection realizes.
Realized == Options \cap DOMAIN charts
ChoiceOffered == Options # {} => Realized # {}                                \* mutant
ChoiceResolved == Options # {} => Cardinality(Realized) = 1
RequiredTypes == Required \cup Realized
\* The SVG files handed over are those of all charts, the ones expected those of
\* the required types.
ChartsAccepted == ChoiceResolved /\ RequiredTypes \subseteq DOMAIN charts /\ DOMAIN charts = RequiredTypes
Rendered(groups) == UNION {g.cited : g \in groups}
ContentAccepted(p) ==
  /\ ExactClosure(p)
  /\ p.closure.sources \subseteq records.citable
  /\ Rendered(p.groups) = p.closure.sources
Printable(p) == ChartsAccepted /\ ContentAccepted(p)

PublishReport ==
  /\ publication # None /\ report = None
  /\ Printable(publication)
  /\ report' = [facts |-> Facts(publication.groups), sources |-> Rendered(publication.groups),
                figures |-> DOMAIN charts]
  /\ UNCHANGED <<given, projection, charts, publication>>

\* The host invalidates the charts and what follows, to have them drawn anew.
InvalidateCharts ==
  /\ charts # None
  /\ charts' = None /\ publication' = None /\ report' = None
  /\ UNCHANGED <<given, projection>>

AssemblyInit ==
  /\ records \in Records
  /\ observed \in [Analyses -> Subsets(Claims)]
  /\ projection = None /\ charts = None /\ publication = None /\ report = None

Assemble ==
  MaterializeFacts \/ RenderCharts \/ MaterializePublication \/ PublishReport \/ InvalidateCharts
AssemblySpec == AssemblyInit /\ [][Assemble]_assemblyVars

-----------------------------------------------------------------------------
(* Three validators, written apart, agree on what a Report shows:         *)
(* every fact of it, a chart's among them, rests on all Evidence of its   *)
(* Claims and on nothing else, its citations are the Sources of that      *)
(* Evidence, and its figures are the Profile's, each with its fact.       *)
ReportSupported ==
  report # None =>
    /\ \A f \in report.facts :
         /\ f.evidence = EvidenceOf(f.claims)
         /\ \A e \in f.evidence : records.belongs[e] \in f.claims
    /\ report.sources = SourcesOf(UNION {f.evidence : f \in report.facts})
    /\ \A t \in report.figures : \E f \in report.facts : f.origin = <<"chart", t>>
    /\ Required \subseteq report.figures
    /\ Cardinality(report.figures \ Required) = IF Options = {} THEN 0 ELSE 1

\* What a host has to see to for charts that render to be published: the
\* analysed Claims and their Evidence name each other, a chart draws whole
\* Claims, the types are exactly the Profile's, and every Source that an
\* analysed Claim rests on can be cited.
Observed == UNION {observed[a] : a \in Analyses}
Agreeing == \A c \in Observed : \A e \in records.cites[c] : records.belongs[e] = c
WholeClaims ==
  \A t \in DOMAIN charts : \A c \in Observed :
    records.cites[c] \cap charts[t] = {} \/ records.cites[c] \subseteq charts[t]
ProfileTypes ==
  /\ Required \subseteq DOMAIN charts /\ DOMAIN charts \subseteq Required \cup Options
  /\ Options # {} => Cardinality(DOMAIN charts \cap Options) = 1
Citable == SourcesOf(EvidenceOf(Observed)) \subseteq records.citable
(* Charts are accepted by the materializer and then by the publisher      *)
(* exactly if these four hold: of what is recorded, observed and drawn,   *)
(* no call refuses later for another reason what an earlier one let       *)
(* through.                                                               *)
PublishedExactlyWhen ==
  projection # None /\ charts # None =>
    (Materializable /\ Printable(Projected(Combined)) <=>
       Agreeing /\ WholeClaims /\ ProfileTypes /\ Citable)
=============================================================================
