------------------------ MODULE MCTransparentScoring ------------------------
(* Bounds: two Claims over two records of Evidence, one analysis and three *)
(* chart types; three competitors.  Either the research records vary or    *)
(* the Judgments do, not both in one behaviour, and a Judgment is about    *)
(* the plain records.                                                      *)
EXTENDS TransparentScoring

CONSTANTS c1, c2, e1, e2, s1, s2, MaxScores

MCScope == [d \in Dimensions |-> IF d = "d1" THEN {c1} ELSE {c1, c2}]
Judged(score) == [score |-> score, claims |-> {c1}, evidence |-> {e1}]
Sheet(low, high, last) ==
  [d \in Dimensions |-> IF d \in {"d1", "d2"} THEN Judged(low) ELSE IF d = "d5" THEN last ELSE Judged(high)]
\* Sevens; a mean of seven otherwise, over five and over four; just below and
\* above seven over four and five; three dimensions; Judgments to be refused.
MCSheets ==
  { Sheet(7, 7, Judged(7)), Sheet(6, 8, Judged(7)), Sheet(6, 8, Unresolved), Sheet(7, 7, Unjudged),
    Sheet(7, 7, Judged(8)), Sheet(10, 1, Judged(1)),
    [Sheet(7, 7, Unjudged) EXCEPT !["d4"] = Unresolved],
    Sheet(7, 7, [Judged(7) EXCEPT !.evidence = {e2}]),
    [Sheet(7, 7, Judged(9)) EXCEPT !["d1"] = [@ EXCEPT !.claims = {c2}, !.evidence = {e2}]],
    Sheet(7, 7, Judged(11)) }

Plain == [belongs |-> (e1 :> c1) @@ (e2 :> c2), from |-> (e1 :> s1) @@ (e2 :> s2),
          cites |-> (c1 :> {e1}) @@ (c2 :> {e2}), citable |-> {s1, s2}]
Uniform == \A c \in Competitors : judgments[c] = Sheet(7, 7, Judged(7))
MCInit ==
  /\ Init
  /\ Uniform \/ (records = Plain /\ \A a \in Analyses : observed[a] = Claims)
MCNext ==
  /\ Next
  /\ charts' # charts => Uniform
  /\ scores' # scores => ~Uniform /\ Cardinality(scores') <= MaxScores
MCSpec == MCInit /\ [][MCNext]_scoringVars
=============================================================================
