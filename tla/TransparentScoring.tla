------------------------- MODULE TransparentScoring -------------------------
(***************************************************************************)
(* Transparent scores over the Report Projection (scoring.py): Judgments   *)
(* are verified against the Projection and the Rubric, aggregated per      *)
(* competitor, and ranked.  A score is committed for one competitor at a   *)
(* time, from the Judgments the host hands over.  Decimals are exact here: *)
(* weights are counted in tenths, and a mean of four or five integer       *)
(* scores in twentieths.                                                   *)
(***************************************************************************)
EXTENDS ReportAssembly, Integers, SequencesExt

CONSTANTS
  Competitors,              \* candidate ids, ordered as the code orders them
  Dimensions,               \* of the Rubric, five of equal weight
  Scope,                    \* the Claims of a category a dimension allows
  Sheets,                   \* Judgments an Executor may write about one competitor
  Unresolved, Unjudged      \* a Judgment without a score; no Judgment

ASSUME RubricAssumption ==
  /\ Competitors \subseteq Nat /\ IsFiniteSet(Competitors)
  /\ IsFiniteSet(Dimensions) /\ Cardinality(Dimensions) = 5
  /\ Scope \in [Dimensions -> SUBSET Claims]

VARIABLES
  judgments,                \* per competitor and dimension
  scores                    \* the committed scores, with what they were computed from

scoringVars == <<assemblyVars, judgments, scores>>

Weight == 2                 \* tenths, of each dimension
MinimumCoverage == 8        \* tenths
MinimumEvidence == 1

\* A Judgment is Unjudged, Unresolved or [score, claims, evidence].
Scored(j) == j \notin {Unresolved, Unjudged}
Links(c) == UNION {f.evidence : f \in {g \in Facts(projection.groups) : c \in g.claims}}
ClaimsBacked(j) ==
  /\ j.claims # {} /\ Cardinality(j.evidence) >= MinimumEvidence
  /\ \A c \in j.claims : c \in projection.closure.claims /\ Links(c) \cap j.evidence # {}
EvidenceLinked(j) == \A e \in j.evidence : \E c \in j.claims : e \in Links(c)
InScope(d, j) == j.claims \subseteq Scope[d]
Valid(d, j) == Scored(j) => j.score \in 1..10 /\ ClaimsBacked(j) /\ EvidenceLinked(j) /\ InScope(d, j)
Verdict(d, j) == IF Valid(d, j) THEN "ACCEPT" ELSE "RETRY"

-----------------------------------------------------------------------------
\* supplied: the competitors whose Judgments the host hands over.
ScoredDimensions(c, supplied) ==
  IF c \in supplied THEN {d \in Dimensions : Scored(judgments[c][d])} ELSE {}
\* A score of n is n points.
Points(c, dims) == {p \in dims \X (1..10) : p[2] <= judgments[c][p[1]].score}
SumOver(c, dims) == Cardinality(Points(c, dims))
Aggregate(c, supplied) ==
  LET dims     == ScoredDimensions(c, supplied)
      coverage == Weight * Cardinality(dims)
      eligible == coverage >= MinimumCoverage
  IN  [competitor |-> c,
       coverage   |-> coverage,
       score      |-> IF eligible THEN (40 * SumOver(c, dims)) \div coverage ELSE None,
       status     |-> IF coverage = 10 THEN "COMPLETE" ELSE IF eligible THEN "PARTIAL" ELSE "NOT_PERFORMED"]

Before(x, y) ==
  \/ x.score > y.score
  \/ x.score = y.score /\ x.coverage > y.coverage
  \/ x.score = y.score /\ x.coverage = y.coverage /\ x.competitor < y.competitor
EqualScores(x, y) == x.score = y.score                                              \* mutant
Peers(x, y) == x.score = y.score /\ x.coverage = y.coverage
\* Best first.  (SetToSortSeq would rest on an operator the provers do not know.)
InOrder(outcomes) ==
  CHOOSE order \in SetToSeqs(outcomes) :
    \A i, j \in 1..Len(order) : i < j => Before(order[i], order[j])
Ranks(order) ==              \* ties share the rank of the first
  LET rank[i \in 1..Len(order)] ==
        IF i > 1 /\ Peers(order[i - 1], order[i]) THEN rank[i - 1] ELSE i
  IN  rank
Ranked(outcomes) ==          \* only what is eligible has a rank, and a document
  LET order == InOrder({o \in outcomes : o.score # None})
      rank  == Ranks(order)
  IN  {[outcome |-> order[i], rank |-> rank[i],
        tied |-> \E k \in 1..Len(order) : k # i /\ Peers(order[k], order[i])] : i \in 1..Len(order)}

Outcomes(supplied) == Ranked({Aggregate(c, supplied) : c \in Competitors})
\* Every Judgment handed over is verified once more.
Verified(supplied) == \A c \in supplied, d \in Dimensions : Verdict(d, judgments[c][d]) = "ACCEPT"
CommitScore(c, supplied) ==
  /\ projection # None
  /\ Verified(supplied)
  /\ \E r \in Outcomes(supplied) :
       /\ r.outcome.competitor = c
       /\ scores' = scores \cup {[of |-> c, from |-> supplied, result |-> r]}
  /\ UNCHANGED <<assemblyVars, judgments>>

Init ==
  /\ AssemblyInit
  /\ judgments \in [Competitors -> Sheets]
  /\ scores = {}
Next ==
  \/ Assemble /\ UNCHANGED <<judgments, scores>>
  \/ \E c \in Competitors, supplied \in SUBSET Competitors : CommitScore(c, supplied)
Spec == Init /\ [][Next]_scoringVars

-----------------------------------------------------------------------------
Total(s) == SumOver(s.of, ScoredDimensions(s.of, {s.of}))
Parts(s) == Cardinality(ScoredDimensions(s.of, {s.of}))
Ahead(s, t) ==
  \/ Total(s) * Parts(t) > Total(t) * Parts(s)
  \/ Total(s) * Parts(t) = Total(t) * Parts(s) /\ Parts(s) > Parts(t)
(* Scores committed in separate calls over the same Judgments agree: the  *)
(* one whose mean is higher, or as high over more dimensions, has the     *)
(* better rank, equal ones share it and say so, and every score stands on *)
(* four dimensions at least, judged from Claims and Evidence the          *)
(* Projection ties together.                                              *)
RanksAgree ==
  \A s \in scores :
    /\ Parts(s) >= 4
    /\ \A d \in ScoredDimensions(s.of, {s.of}) :
         LET j == judgments[s.of][d]
         IN  \A e \in j.evidence : \E f \in Facts(projection.groups) :
               e \in f.evidence /\ f.claims \cap j.claims # {}
    /\ \A t \in scores : s.from = t.from /\ s.of # t.of =>
         /\ s.result.rank < t.result.rank <=> Ahead(s, t)
         /\ s.result.rank = t.result.rank => s.result.tied /\ t.result.tied
=============================================================================
