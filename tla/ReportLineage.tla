---------------------------- MODULE ReportLineage ----------------------------
(***************************************************************************)
(* What the Report store promises: the Reports that have been current are  *)
(* one line of versions.  It begins with a Report that has no base, every  *)
(* other one is the successor of the one before it, and none is ever       *)
(* replaced or published again.  ReportPublisher is shown to implement it. *)
(***************************************************************************)
EXTENDS Naturals, Sequences

CONSTANT Requests          \* records with version and base; a base of 0 is none

VARIABLE lineage          \* the published requests, oldest first

Init == lineage = <<>>
PublishInitial(r) == lineage = <<>> /\ r.base = 0 /\ lineage' = <<r>>
PublishSuccessor(r) ==
  /\ lineage # <<>> /\ r.base = lineage[Len(lineage)].version /\ r.version = r.base + 1
  /\ lineage' = Append(lineage, r)
Next == \E r \in Requests : PublishInitial(r) \/ PublishSuccessor(r)
Spec == Init /\ [][Next]_lineage
=============================================================================
