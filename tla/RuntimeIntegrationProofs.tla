---------------------- MODULE RuntimeIntegrationProofs ----------------------
(***************************************************************************)
(* A result of a staged commit stays the one its key and its reference     *)
(* name, for any keys, contents, invalidations, crashes and torn files.    *)
(* OnceOnly speaks of the results alone; the invariant says which files    *)
(* hold it in place: the receipt of a call from its first write on, its    *)
(* document from the second, and immutable files are never replaced.       *)
(***************************************************************************)
EXTENDS RuntimeIntegration, TLAPS

CallRecords == [key : Keys, request : Documents, ref : Reference]
Receipt(c) == [request |-> c.request, ref |-> c.ref]

RunTypes ==
  /\ status \in [Nodes -> {"PENDING", "READY", "RUNNING", "VERIFIED", "INVALIDATED"}]
  /\ attempt \in [Nodes -> 0 .. MaxAttempts]
  /\ current \in [Types -> committed \cup {None}]
FileTypes == DOMAIN receipts = Keys /\ DOMAIN artifacts = References /\ DOMAIN assets = References
CallTypes ==
  /\ committed \subseteq CallRecords
  /\ \A c \in committed : c.ref \in References
  /\ call # None => call \in CallRecords /\ call.ref \in References
  /\ at \in {"idle", "receipt", "artifact", "assets", "manifest"}
  /\ at = "idle" <=> call = None
  /\ crashes \in 0 .. MaxCrashes
StagedTypes == RunTypes /\ FileTypes /\ CallTypes

Bound(c) == receipts[c.key] = Receipt(c)
Written(c) == artifacts[c.ref] = c.request
CommittedHeld == \A c \in committed : Bound(c) /\ Written(c)
CallHeld ==
  /\ at \in {"artifact", "assets", "manifest"} => Bound(call)
  /\ at \in {"assets", "manifest"} => Written(call)
OnceInv == StagedTypes /\ CommittedHeld /\ CallHeld

-----------------------------------------------------------------------------
(* None and a cut off file are neither a document, a receipt nor a call.   *)
LEMMA FilesDiffer ==
  ASSUME NEW c \in CallRecords
  PROVE  /\ c # None /\ c.key \in Keys /\ c.request \in Documents /\ c.ref \in Reference
         /\ c.request \notin {None, Torn} /\ Receipt(c) \notin {None, Torn}
<1>1. c.key \in Keys /\ c.request \in Documents /\ c.ref \in Reference
  BY DEF CallRecords
<1>2. Receipt(c) \in Receipts
  BY <1>1 DEF Receipt, Receipts
<1>3. \A x \in {None, Torn} : x \notin Documents /\ x \notin Receipts /\ x \notin CallRecords
  BY FileAssumption DEF CallRecords
<1> QED
  BY <1>1, <1>2, <1>3

(* References are what documents may be made from.                         *)
LEMMA ReferenceTypes ==
  ASSUME RunTypes, CallTypes
  PROVE  /\ References \subseteq Reference /\ ProjectionRef \in Reference
         /\ \A n \in Nodes : VerdictRef(n) \in Reference
         /\ \A t \in Types : current[t] # None => current[t].ref \in Reference
<1>1. References \subseteq Reference
  BY ConstantAssumption DEF References, Makers, Ref, Reference
<1>2. ProjectionRef \in Reference
  BY DEF ProjectionRef, Ref, Reference
<1>3. ASSUME NEW n \in Nodes PROVE VerdictRef(n) \in Reference
  <2>1. attempt[n] \in Nat
    BY ConstantAssumption DEF RunTypes
  <2> QED
    BY <2>1 DEF VerdictRef, Ref, Reference
<1>4. ASSUME NEW t \in Types, current[t] # None PROVE current[t].ref \in Reference
  BY <1>1, <1>4 DEF RunTypes, CallTypes
<1> QED
  BY <1>1, <1>2, <1>3, <1>4

(* What a call is made of.                                                 *)
LEMMA BeginTypes ==
  ASSUME RunTypes, CallTypes, NEW t \in Types, NEW content \in Contents \cup {None}, InputsAvailable(t)
  PROVE  Request(t, content) \in Documents
<1>1. Producer[t] \in Nodes /\ attempt[Producer[t]] \in Nat
  BY ConstantAssumption DEF RunTypes, Producer, Types, Nodes
<1>2. Inputs(t) \subseteq Reference
  BY ReferenceTypes DEF Inputs, InputsAvailable, Types, Nodes
<1> QED
  BY <1>1, <1>2 DEF Request, Documents

(* An immutable file that is accepted leaves every whole file as it was.   *)
LEMMA AcceptedStays ==
  ASSUME NEW file, NEW document, NEW whole, Accepts(file, document), file = whole, whole # None
  PROVE  document = whole
BY DEF Accepts

-----------------------------------------------------------------------------
(* Attempts and invalidations touch neither the files nor the call.        *)
LEMMA NodesKeep ==
  ASSUME OnceInv, NEW n \in Nodes,
         Schedule(n) \/ Fail(n) \/ CompleteByHost(n) \/ Invalidate(n) \/ ResumeInvalidated
  PROVE  OnceInv'
<1>1. UNCHANGED <<files, call, at, crashes, committed>>
  BY DEF Schedule, Fail, CompleteByHost, Invalidate, ResumeInvalidated
<1>2. RunTypes'
  <2>1. CASE Schedule(n)
    BY <2>1, ConstantAssumption DEF Schedule, OnceInv, StagedTypes, RunTypes
  <2>2. CASE Fail(n) \/ CompleteByHost(n) \/ ResumeInvalidated
    BY <2>2 DEF Fail, CompleteByHost, ResumeInvalidated, OnceInv, StagedTypes, RunTypes
  <2>3. CASE Invalidate(n)
    BY <2>3 DEF Invalidate, OnceInv, StagedTypes, RunTypes
  <2> QED
    BY <2>1, <2>2, <2>3
<1>3. FileTypes' /\ CallTypes'
  BY <1>1 DEF files, OnceInv, StagedTypes, FileTypes, CallTypes
<1>4. CommittedHeld' /\ CallHeld'
  BY <1>1 DEF files, OnceInv, CommittedHeld, CallHeld, Bound, Written
<1> QED
  BY <1>2, <1>3, <1>4 DEF OnceInv, StagedTypes

(* A call begins with nothing of its own written.                          *)
LEMMA BeginKeeps ==
  ASSUME OnceInv, NEW t \in Types, NEW key \in Keys, NEW content \in Contents \cup {None},
         Begin(t, key, content)
  PROVE  OnceInv'
<1>1. UNCHANGED <<run, files, crashes, committed>> /\ at' = "receipt"
  BY DEF Begin
<1>2. call' \in CallRecords /\ call'.ref \in References
  <2>1. NextRef(t) \in References /\ NextRef(t) \in Reference
    BY ReferenceTypes DEF Begin, OnceInv, StagedTypes, FileTypes
  <2>2. Request(t, content) \in Documents
    BY BeginTypes DEF Begin, OnceInv, StagedTypes
  <2> QED
    BY <2>1, <2>2 DEF Begin, CallRecords
<1>3. StagedTypes'
  BY <1>1, <1>2, FilesDiffer DEF run, files, OnceInv, StagedTypes, RunTypes, FileTypes, CallTypes
<1>4. CommittedHeld' /\ CallHeld'
  BY <1>1 DEF files, OnceInv, CommittedHeld, CallHeld, Bound, Written
<1> QED
  BY <1>3, <1>4 DEF OnceInv

(* A write of the call adds a file or finds its own.                       *)
LEMMA WritesKeep ==
  ASSUME OnceInv, BindReceipt \/ WriteArtifact \/ WriteAssets
  PROVE  OnceInv'
<1>1. call \in CallRecords /\ call.ref \in References /\ call # None
  BY DEF BindReceipt, WriteArtifact, WriteAssets, OnceInv, StagedTypes, CallTypes
<1>2. UNCHANGED <<run, crashes, committed>>
  BY DEF BindReceipt, WriteArtifact, WriteAssets
<1>3. RunTypes'
  BY <1>2 DEF run, OnceInv, StagedTypes, RunTypes
<1>4. /\ FileTypes'
      /\ \/ at' \in {"artifact", "assets", "manifest"} /\ call' = call
         \/ at' = "idle" /\ call' = None
  BY <1>1 DEF BindReceipt, WriteArtifact, WriteAssets, Return, OnceInv, StagedTypes, FileTypes
<1>5. CallTypes'
  BY <1>1, <1>2, <1>4 DEF OnceInv, StagedTypes, CallTypes
<1>6. \A c \in committed : c \in CallRecords /\ c.ref \in References /\ Bound(c) /\ Written(c)
  BY DEF OnceInv, StagedTypes, CallTypes, CommittedHeld
<1>7. CASE BindReceipt
  <2>1. artifacts' = artifacts /\ at \in {"receipt"} /\ at' \in {"artifact", "idle"}
    BY <1>7 DEF BindReceipt, Return
  <2>2. ASSUME NEW c \in committed PROVE receipts'[c.key] = Receipt(c)
    BY <1>1, <1>6, <1>7, FilesDiffer DEF BindReceipt, Bound, Receipt, Accepts, OnceInv, StagedTypes, FileTypes
  <2>3. at' = "artifact" => receipts'[call.key] = Receipt(call) /\ call' = call
    BY <1>1, <1>7, FilesDiffer DEF BindReceipt, Return, Receipt, OnceInv, StagedTypes, FileTypes
  <2> QED
    BY <1>2, <1>3, <1>4, <1>5, <1>6, <2>1, <2>2, <2>3
    DEF OnceInv, StagedTypes, CommittedHeld, CallHeld, Bound, Written, Receipt
<1>8. CASE WriteArtifact
  <2>1. receipts' = receipts /\ Bound(call) /\ at' \in {"assets", "manifest", "idle"}
    BY <1>8 DEF WriteArtifact, Return, OnceInv, CallHeld
  <2>2. ASSUME NEW c \in committed PROVE artifacts'[c.ref] = c.request
    BY <1>1, <1>6, <1>8, FilesDiffer DEF WriteArtifact, Written, Accepts, OnceInv, StagedTypes, FileTypes
  <2>3. at' # "idle" => artifacts'[call.ref] = call.request /\ call' = call
    BY <1>1, <1>8 DEF WriteArtifact, Return, OnceInv, StagedTypes, FileTypes
  <2> QED
    BY <1>2, <1>3, <1>4, <1>5, <1>6, <2>1, <2>2, <2>3
    DEF OnceInv, StagedTypes, CommittedHeld, CallHeld, Bound, Written, Receipt
<1>9. CASE WriteAssets
  <2>1. /\ receipts' = receipts /\ artifacts' = artifacts /\ Bound(call) /\ Written(call)
        /\ at' \in {"manifest", "idle"} /\ (at' # "idle" => call' = call)
    BY <1>9 DEF WriteAssets, Return, OnceInv, CallHeld
  <2> QED
    BY <1>2, <1>3, <1>4, <1>5, <1>6, <2>1
    DEF OnceInv, StagedTypes, CommittedHeld, CallHeld, Bound, Written, Receipt
<1> QED
  BY <1>7, <1>8, <1>9

(* What becomes effective has its receipt and its document.                *)
LEMMA CommitKeeps ==
  ASSUME OnceInv, Commit
  PROVE  OnceInv'
<1>1. /\ call \in CallRecords /\ call.ref \in References /\ Bound(call) /\ Written(call)
      /\ call.request.type \in Types /\ Producer[call.request.type] \in Nodes
  BY DEF Commit, OnceInv, StagedTypes, CallTypes, CallHeld, CallRecords, Documents, Producer, Types, Nodes
<1>2. UNCHANGED <<attempt, files, crashes>> /\ at' = "idle" /\ call' = None /\ committed' = committed \cup {call}
  BY DEF Commit, Return
<1>3. RunTypes'
  BY <1>1, <1>2 DEF Commit, OnceInv, StagedTypes, RunTypes
<1>4. FileTypes' /\ CallTypes'
  BY <1>1, <1>2 DEF files, OnceInv, StagedTypes, FileTypes, CallTypes
<1>5. CommittedHeld' /\ CallHeld'
  BY <1>1, <1>2 DEF files, OnceInv, CommittedHeld, CallHeld, Bound, Written
<1> QED
  BY <1>3, <1>4, <1>5 DEF OnceInv, StagedTypes

(* A crash cuts off a file only where none was.                            *)
LEMMA CrashKeeps ==
  ASSUME OnceInv, Crash
  PROVE  OnceInv'
<1>1. /\ UNCHANGED <<run, committed>> /\ at' = "idle" /\ call' = None /\ crashes' \in 0 .. MaxCrashes
      /\ call \in CallRecords /\ call.ref \in References
  BY ConstantAssumption DEF Crash, Return, OnceInv, StagedTypes, CallTypes
<1>2. FileTypes'
  BY DEF Crash, files, OnceInv, StagedTypes, FileTypes
<1>3. RunTypes' /\ CallTypes'
  BY <1>1 DEF run, OnceInv, StagedTypes, RunTypes, CallTypes
<1>4. ASSUME NEW c \in committed PROVE receipts'[c.key] = receipts[c.key] /\ artifacts'[c.ref] = artifacts[c.ref]
  <2>1. c \in CallRecords /\ c.ref \in References /\ Bound(c) /\ Written(c)
    BY DEF OnceInv, StagedTypes, CallTypes, CommittedHeld
  <2>2. receipts[c.key] # None /\ artifacts[c.ref] # None /\ c.key \in Keys
    BY <2>1, FilesDiffer DEF Bound, Written
  <2> QED
    BY <2>2, <2>1 DEF Crash, files, OnceInv, StagedTypes, FileTypes
<1>5. CommittedHeld' /\ CallHeld'
  BY <1>1, <1>4 DEF OnceInv, CommittedHeld, CallHeld, Bound, Written
<1> QED
  BY <1>2, <1>3, <1>5 DEF OnceInv, StagedTypes

(* The invariant holds in every state.                                     *)
LEMMA OnceAlways == Spec => []OnceInv
<1>1. Init => OnceInv
  <2> SUFFICES ASSUME Init PROVE OnceInv
    OBVIOUS
  <2>1. RunTypes
    BY ConstantAssumption DEF Init, RunTypes
  <2>2. FileTypes
    BY DEF Init, FileTypes
  <2>3. CallTypes /\ CommittedHeld /\ CallHeld
    BY ConstantAssumption DEF Init, CallTypes, CommittedHeld, CallHeld
  <2> QED
    BY <2>1, <2>2, <2>3 DEF OnceInv, StagedTypes
<1>2. OnceInv /\ [Next]_vars => OnceInv'
  <2> SUFFICES ASSUME OnceInv, [Next]_vars PROVE OnceInv'
    OBVIOUS
  <2>1. CASE UNCHANGED vars
    BY <2>1 DEF vars, run, files, OnceInv, StagedTypes, RunTypes, FileTypes, CallTypes,
                CommittedHeld, CallHeld, Bound, Written
  <2>2. CASE Next
    <3>1. CASE ResumeInvalidated
      <4>1. PICK n \in Nodes : n = "scoring"
        BY DEF Nodes
      <4> QED
        BY <3>1, NodesKeep
    <3> QED
      BY <2>2, <3>1, NodesKeep, BeginKeeps, WritesKeep, CommitKeeps, CrashKeeps DEF Next
  <2> QED
    BY <2>1, <2>2
<1> QED
  BY <1>1, <1>2, PTL DEF Spec

\* The state of a Run and of its calls is of its types.
THEOREM TypeCorrect == Spec => []TypeOK
<1>1. OnceInv => TypeOK
  BY DEF OnceInv, StagedTypes, RunTypes, FileTypes, CallTypes, TypeOK, Calls, CallRecords, Documents
<1> QED
  BY <1>1, OnceAlways, PTL

\* Two effective results with one key or one reference are one result.
THEOREM OnceOnlyCorrect == Spec => []OnceOnly
<1>1. OnceInv => OnceOnly
  <2> SUFFICES ASSUME OnceInv, NEW c \in committed, NEW d \in committed, c.key = d.key \/ c.ref = d.ref
               PROVE  c.request = d.request /\ c.ref = d.ref
    BY DEF OnceOnly
  <2>1. Bound(c) /\ Bound(d) /\ Written(c) /\ Written(d)
    BY DEF OnceInv, CommittedHeld
  <2>2. CASE c.key = d.key
    <3>1. Receipt(c) = Receipt(d)
      BY <2>1, <2>2 DEF Bound
    <3>2. Receipt(c).request = Receipt(d).request /\ Receipt(c).ref = Receipt(d).ref
      BY <3>1
    <3> QED
      BY <3>2 DEF Receipt
  <2>3. CASE c.ref = d.ref
    BY <2>1, <2>3 DEF Written
  <2> QED
    BY <2>2, <2>3
<1> QED
  BY <1>1, OnceAlways, PTL

-----------------------------------------------------------------------------
(* What every load of the Run needs.  Nodes are entered and kept in order; *)
(* an effective entry has its files, is its verified producer's, and was   *)
(* computed from what is effective; a call under way is fresh, as nothing  *)
(* else runs between its checks and its commit.                            *)
Entered == {"RUNNING", "VERIFIED"}
Ordered ==
  \A n \in Nodes : status[n] \in Entered =>
    attempt[n] > 0 /\ \A m \in DependsOn[n] : status[m] = "VERIFIED"
AssetsHeld ==
  /\ \A c \in committed : c.request.type \in WithAssets => assets[c.ref] = c.request
  /\ at = "manifest" /\ call.request.type \in WithAssets => assets[call.ref] = call.request
Current(t, c) ==
  /\ c.request.type = t /\ InputsAvailable(t)
  /\ c.request.attempt = attempt[Producer[t]] /\ c.request.inputs = Inputs(t)
OwnEntry(t) ==
  /\ Current(t, current[t])
  /\ status[Producer[t]] = "VERIFIED" /\ current[t].ref \in refs[Producer[t]]
EntriesHeld == \A t \in Types : current[t] # None => OwnEntry(t)
VerdictsHeld ==
  \A n \in {"scoring", "score_verifier"} : status[n] = "VERIFIED" => VerdictRef(n) \in refs[n]
CallFresh == call # None => Current(call.request.type, call) /\ AttemptOpen(call.request.type)
LoadInv ==
  /\ refs \in [Nodes -> SUBSET Reference]
  /\ Ordered /\ AssetsHeld /\ EntriesHeld /\ VerdictsHeld /\ CallFresh

(* The graph of the staged nodes, written out.                             *)
LEMMA Graph ==
  /\ DependsOn["fact_provenance"] = {}
  /\ DependsOn["chart_rendering"] = {"fact_provenance"}
  /\ DependsOn["report_publication_projection"] = {"fact_provenance", "chart_rendering"}
  /\ DependsOn["report_builder"] = {"report_publication_projection"}
  /\ DependsOn["scoring"] = {"fact_provenance"}
  /\ DependsOn["score_verifier"] = {"scoring"}
  /\ Producer["chart_bundle_collection"] = "chart_rendering"
  /\ Producer["report_publication_projection"] = "report_publication_projection"
  /\ Producer["competitor_report"] = "report_builder"
  /\ Producer["transparent_score"] = "scoring"
  /\ \A t \in Types : Producer[t] \in Nodes
BY DEF DependsOn, Producer, Nodes, Types

(* The dependents of a set of nodes.                                       *)
LEMMA DependentsOf ==
  ASSUME NEW S
  PROVE  /\ Dependents(S) \subseteq Nodes
         /\ "fact_provenance" \notin Dependents(S)
         /\ "chart_rendering" \in Dependents(S) <=> "fact_provenance" \in S
         /\ "report_publication_projection" \in Dependents(S) <=>
              ("fact_provenance" \in S \/ "chart_rendering" \in S)
         /\ "report_builder" \in Dependents(S) <=> "report_publication_projection" \in S
         /\ "scoring" \in Dependents(S) <=> "fact_provenance" \in S
         /\ "score_verifier" \in Dependents(S) <=> "scoring" \in S
BY Graph DEF Dependents, Nodes

(* What is invalidated has its dependents invalidated, and the verifier of *)
(* the scores only with the scores.                                        *)
LEMMA DownstreamClosed ==
  ASSUME NEW n \in Nodes
  PROVE  /\ \A m \in Nodes : DependsOn[m] \cap Downstream(n) # {} => m \in Downstream(n)
         /\ n # "scoring" /\ "score_verifier" \in Downstream(n) => "scoring" \in Downstream(n)
<1> DEFINE A == Dependents({n})
           B == A \cup Dependents(A)
           C == Dependents(B)
           D == Dependents(Dependents(B))
<1>1. Downstream(n) = B \cup C \cup D
  BY DEF Downstream
<1>2. \A S : Dependents(S) \subseteq Nodes
  BY DependentsOf
<1> QED
  BY <1>1, <1>2, DependentsOf, Graph DEF Nodes

(* An entry stays current while the attempts and the entries it was made   *)
(* from do.                                                                *)
LEMMA EntryStays ==
  ASSUME NEW t \in Types, NEW c, Current(t, c), UNCHANGED current,
         attempt'[Producer[t]] = attempt[Producer[t]],
         t = "transparent_score" =>
           \A n \in {"scoring", "score_verifier"} : status'[n] = "VERIFIED" /\ attempt'[n] = attempt[n]
  PROVE  Current(t, c)'
<1>1. InputsAvailable(t)'
  BY DEF Current, InputsAvailable, Types
<1>2. Inputs(t)' = Inputs(t)
  BY DEF Inputs, VerdictRef, Ref, Types
<1> QED
  BY <1>1, <1>2 DEF Current

(* The invariant makes a Run loadable.                                     *)
LEMMA LoadHeld ==
  ASSUME OnceInv, LoadInv
  PROVE  Loadable
<1> SUFFICES ASSUME NEW t \in Types, current[t] # None PROVE EntryIntact(t) /\ DependenciesCurrent(t)
  BY DEF Loadable
<1>1. OwnEntry(t) /\ Bound(current[t]) /\ Written(current[t]) /\ current[t] \in committed
  BY DEF LoadInv, EntriesHeld, OnceInv, StagedTypes, RunTypes, CommittedHeld
<1>2. ASSUME NEW n \in Nodes, status[n] = "VERIFIED", NEW r \in refs[n] PROVE r \in EffectiveRefs
  BY <1>2 DEF EffectiveRefs
<1>3. Producer[t] \in Nodes
  BY Graph
<1>4. EntryIntact(t)
  BY <1>1, <1>2, <1>3 DEF EntryIntact, OwnEntry, Current, Bound, Receipt, Written, LoadInv, AssetsHeld
<1>5. CASE t = "transparent_score"
  <2>1. /\ status["scoring"] = "VERIFIED" /\ status["score_verifier"] = "VERIFIED"
        /\ current[t].request.inputs = {VerdictRef("scoring"), VerdictRef("score_verifier")}
    BY <1>1, <1>5 DEF OwnEntry, Current, InputsAvailable, Inputs
  <2>2. VerdictRef("scoring") \in refs["scoring"] /\ VerdictRef("score_verifier") \in refs["score_verifier"]
    BY <2>1 DEF LoadInv, VerdictsHeld
  <2>3. VerdictRef("scoring") \in EffectiveRefs /\ VerdictRef("score_verifier") \in EffectiveRefs
    BY <1>2, <2>1, <2>2 DEF Nodes
  <2> QED
    BY <1>1, <1>4, <1>5, <2>1, <2>3 DEF DependenciesCurrent, OwnEntry, Current
<1>6. CASE t # "transparent_score"
  BY <1>1, <1>4, <1>6, Graph DEF DependenciesCurrent, OwnEntry, Current, Types
<1> QED
  BY <1>5, <1>6

(* Attempts move only nodes that are not verified.                         *)
LEMMA LoadNodes ==
  ASSUME OnceInv, LoadInv, NEW n \in Nodes, Schedule(n) \/ Fail(n) \/ CompleteByHost(n) \/ ResumeInvalidated
  PROVE  LoadInv'
<1>1. /\ UNCHANGED <<current, files, call, at, committed>> /\ call = None
      /\ \A m \in Nodes : status[m] = "VERIFIED" =>
           status'[m] = "VERIFIED" /\ attempt'[m] = attempt[m] /\ refs[m] \subseteq refs'[m]
  BY DEF Schedule, Fail, CompleteByHost, ResumeInvalidated, LoadInv, OnceInv, StagedTypes, RunTypes, CallTypes
<1>2. refs' \in [Nodes -> SUBSET Reference]
  BY ReferenceTypes
  DEF Schedule, Fail, CompleteByHost, ResumeInvalidated, LoadInv, OnceInv, StagedTypes
<1>3. Ordered'
  <2>1. ASSUME NEW m \in Nodes, status'[m] \in Entered
        PROVE  attempt'[m] > 0 /\ \A k \in DependsOn[m] : k \in Nodes /\ status[k] = "VERIFIED"
    <3>1. \A k \in DependsOn[m] : k \in Nodes
      BY Graph DEF Nodes
    <3> QED
      BY <2>1, <3>1
      DEF Schedule, Fail, CompleteByHost, ResumeInvalidated, LoadInv, Ordered, Entered, OnceInv, StagedTypes, RunTypes
  <2> QED
    BY <1>1, <2>1 DEF Ordered
<1>4. AssetsHeld' /\ CallFresh'
  BY <1>1 DEF files, LoadInv, AssetsHeld, CallFresh, OnceInv, StagedTypes, CallTypes
<1>5. EntriesHeld'
  <2> SUFFICES ASSUME NEW t \in Types, current[t] # None PROVE OwnEntry(t)'
    BY <1>1 DEF EntriesHeld
  <2>1. PICK c : c = current[t]
    OBVIOUS
  <2>2. /\ Current(t, c) /\ Producer[t] \in Nodes /\ status[Producer[t]] = "VERIFIED"
        /\ c.ref \in refs[Producer[t]]
    BY <2>1, Graph DEF LoadInv, EntriesHeld, OwnEntry
  <2>3. t = "transparent_score" => status["scoring"] = "VERIFIED" /\ status["score_verifier"] = "VERIFIED"
    BY <2>2 DEF Current, InputsAvailable
  <2>4. Current(t, c)'
    BY <1>1, <2>2, <2>3, EntryStays DEF Nodes
  <2> QED
    BY <1>1, <2>1, <2>2, <2>4 DEF OwnEntry, Current
<1>6. VerdictsHeld'
  <2>1. ASSUME NEW m \in {"scoring", "score_verifier"}, status'[m] = "VERIFIED", status[m] # "VERIFIED"
        PROVE  VerdictRef(m) \in refs'[m] /\ attempt'[m] = attempt[m]
    BY <2>1
    DEF Schedule, Fail, CompleteByHost, ResumeInvalidated, LoadInv, OnceInv, StagedTypes, RunTypes, Nodes
  <2> QED
    BY <1>1, <2>1 DEF LoadInv, VerdictsHeld, VerdictRef, Nodes
<1> QED
  BY <1>2, <1>3, <1>4, <1>5, <1>6 DEF LoadInv

(* An invalidation that does not start at the scores takes every entry     *)
(* with what it was made from.                                             *)
LEMMA LoadInvalidate ==
  ASSUME OnceInv, LoadInv, "scoring" \notin Changeable, NEW n \in Nodes, Invalidate(n)
  PROVE  LoadInv'
<1>1. PICK targets \in SUBSET Nodes :
        /\ targets = Downstream(n)
        /\ status' = [m \in Nodes |-> IF m \in targets THEN "INVALIDATED" ELSE status[m]]
        /\ refs' = [m \in Nodes |-> IF m \in targets THEN {} ELSE refs[m]]
        /\ current' = [t \in Types |-> IF t \in RemovedTypes(targets) THEN None ELSE current[t]]
  <2>1. Downstream(n) \subseteq Nodes
    BY DEF Downstream, Dependents
  <2> QED
    BY <2>1 DEF Invalidate
<1>2. /\ \A m \in Nodes : DependsOn[m] \cap targets # {} => m \in targets
      /\ "score_verifier" \in targets => "scoring" \in targets
  BY <1>1, DownstreamClosed DEF Invalidate
<1>3. UNCHANGED <<attempt, files, call, at, committed>> /\ call = None
  BY DEF Invalidate, OnceInv, StagedTypes, CallTypes
<1>4. refs' \in [Nodes -> SUBSET Reference]
  BY <1>1 DEF LoadInv
<1>5. Ordered'
  <2>1. ASSUME NEW m \in Nodes, status'[m] \in Entered, NEW k \in DependsOn[m]
        PROVE  m \notin targets /\ k \in Nodes \ targets /\ status[m] = status'[m]
    <3>1. m \notin targets /\ status[m] = status'[m]
      BY <1>1, <2>1 DEF Entered
    <3>2. k \in Nodes
      BY <2>1, Graph DEF Nodes
    <3> QED
      BY <1>2, <2>1, <3>1, <3>2
  <2>2. ASSUME NEW m \in Nodes, status'[m] \in Entered PROVE status[m] = status'[m]
    BY <1>1, <2>2 DEF Entered
  <2> QED
    BY <1>1, <1>3, <2>1, <2>2 DEF LoadInv, Ordered
<1>6. AssetsHeld' /\ CallFresh' /\ VerdictsHeld'
  BY <1>1, <1>3 DEF files, LoadInv, AssetsHeld, CallFresh, VerdictsHeld, VerdictRef, Nodes
<1>7. ASSUME NEW t \in Types, current'[t] # None
      PROVE  Producer[t] \notin targets /\ current'[t] = current[t] /\ OwnEntry(t)
  <2>1. t \notin RemovedTypes(targets) /\ current'[t] = current[t] /\ OwnEntry(t)
    BY <1>1, <1>7 DEF LoadInv, EntriesHeld
  <2>2. attempt[Producer[t]] > 0
    BY <2>1, Graph DEF OwnEntry, LoadInv, Ordered, Entered
  <2> QED
    BY <2>1, <2>2 DEF RemovedTypes
<1>8. ASSUME NEW t \in Types, NEW u \in Types, current[t] # None, Producer[t] \notin targets,
             Producer[u] \in DependsOn[Producer[t]]
      PROVE  current'[u] = current[u]
  <2>1. Producer[u] \notin targets
    BY <1>2, <1>8, Graph
  <2> QED
    BY <1>1, <2>1 DEF RemovedTypes
<1>9. EntriesHeld'
  <2> SUFFICES ASSUME NEW t \in Types, current'[t] # None PROVE OwnEntry(t)'
    BY DEF EntriesHeld
  <2>1. /\ Current(t, current[t]) /\ current'[t] = current[t] /\ current[t] # None
        /\ Producer[t] \in Nodes \ targets
        /\ status'[Producer[t]] = "VERIFIED" /\ current[t].ref \in refs'[Producer[t]]
    BY <1>1, <1>7, Graph DEF OwnEntry
  <2>2. CASE t = "chart_bundle_collection"
    BY <1>3, <2>1, <2>2 DEF OwnEntry, Current, InputsAvailable, Inputs
  <2>3. CASE t = "report_publication_projection"
    <3>1. current'["chart_bundle_collection"] = current["chart_bundle_collection"]
      BY <1>8, <2>1, <2>3, Graph DEF Types
    <3> QED
      BY <1>3, <2>1, <2>3, <3>1 DEF OwnEntry, Current, InputsAvailable, Inputs
  <2>4. CASE t = "competitor_report"
    <3>1. "report_publication_projection" \notin targets /\ "chart_rendering" \notin targets
      BY <1>2, <2>1, <2>4, Graph DEF Nodes
    <3>2. /\ current'["report_publication_projection"] = current["report_publication_projection"]
          /\ current'["chart_bundle_collection"] = current["chart_bundle_collection"]
      BY <1>1, <3>1, Graph DEF RemovedTypes, Types
    <3> QED
      BY <1>3, <2>1, <2>4, <3>2 DEF OwnEntry, Current, InputsAvailable, Inputs
  <2>5. CASE t = "transparent_score"
    <3>1. "scoring" \notin targets /\ "score_verifier" \notin targets
      BY <1>2, <2>1, <2>5, Graph
    <3> QED
      BY <1>1, <1>3, <2>1, <2>5, <3>1 DEF OwnEntry, Current, InputsAvailable, Inputs, VerdictRef, Nodes
  <2> QED
    BY <2>2, <2>3, <2>4, <2>5 DEF Types
<1> QED
  BY <1>4, <1>5, <1>6, <1>9 DEF LoadInv

(* What a step of a call that leaves the Run alone keeps.                  *)
LEMMA RunStays ==
  ASSUME LoadInv, UNCHANGED run
  PROVE  /\ refs' \in [Nodes -> SUBSET Reference]
         /\ Ordered' /\ EntriesHeld' /\ VerdictsHeld'
         /\ \A t \in Types : \A c : Current(t, c)' <=> Current(t, c)
<1>1. \A t \in Types : (InputsAvailable(t)' <=> InputsAvailable(t)) /\ Inputs(t)' = Inputs(t)
  BY DEF run, InputsAvailable, Inputs, VerdictRef, Types
<1>2. \A t \in Types : \A c : Current(t, c)' <=> Current(t, c)
  BY <1>1 DEF run, Current
<1>3. EntriesHeld'
  BY <1>1 DEF run, LoadInv, EntriesHeld, OwnEntry, Current
<1>4. Ordered' /\ VerdictsHeld'
  BY DEF run, LoadInv, Ordered, VerdictsHeld, VerdictRef
<1> QED
  BY <1>2, <1>3, <1>4 DEF run, LoadInv

(* A call begins with the current inputs, and its writes change nothing of *)
(* the Run.                                                                *)
LEMMA LoadCall ==
  ASSUME OnceInv, OnceInv', LoadInv,
         \/ \E t \in Types, key \in Keys, content \in Contents \cup {None} : Begin(t, key, content)
         \/ BindReceipt \/ WriteArtifact \/ WriteAssets \/ Crash
  PROVE  LoadInv'
<1>1. UNCHANGED run /\ UNCHANGED committed
  BY DEF Begin, BindReceipt, WriteArtifact, WriteAssets, Crash
<1>2. /\ refs' \in [Nodes -> SUBSET Reference]
      /\ Ordered' /\ EntriesHeld' /\ VerdictsHeld'
      /\ \A t \in Types : \A c : Current(t, c)' <=> Current(t, c)
  BY <1>1, RunStays
<1>3. call # None => call \in CallRecords /\ call.ref \in References /\ call.request.type \in Types
  BY DEF OnceInv, StagedTypes, CallTypes, CallRecords, Documents
<1>4. CallFresh'
  <2>1. CASE \E t \in Types, key \in Keys, content \in Contents \cup {None} : Begin(t, key, content)
    <3>1. PICK t \in Types, key \in Keys, content \in Contents \cup {None} : Begin(t, key, content)
      BY <2>1
    <3>2. PICK c : c = [key |-> key, request |-> Request(t, content), ref |-> NextRef(t)]
      OBVIOUS
    <3>3. call' = c /\ c.request.type = t /\ Current(t, c) /\ AttemptOpen(t)
      BY <3>1, <3>2 DEF Begin, Request, Current
    <3>4. Current(t, c)' /\ AttemptOpen(t)'
      BY <1>1, <1>2, <3>3 DEF AttemptOpen, run
    <3> QED
      BY <3>3, <3>4 DEF CallFresh, Current
  <2>2. CASE call' = call
    <3>1. PICK c : c = call
      OBVIOUS
    <3> QED
      BY <1>1, <1>2, <1>3, <2>2, <3>1 DEF LoadInv, CallFresh, Current, AttemptOpen, run,
         InputsAvailable, Inputs, VerdictRef, Types
  <2>3. CASE call' = None
    BY <2>3 DEF CallFresh
  <2> QED
    BY <2>1, <2>2, <2>3 DEF BindReceipt, WriteArtifact, WriteAssets, Crash, Return
<1>5. \A c \in committed : c \in CallRecords /\ c.ref \in References
  BY DEF OnceInv, StagedTypes, CallTypes
<1>6. AssetsHeld'
  <2>1. CASE WriteAssets
    <3>1. ASSUME NEW c \in committed, c.request.type \in WithAssets PROVE assets'[c.ref] = c.request
      BY <1>3, <1>5, <2>1, <3>1, FilesDiffer
      DEF WriteAssets, Accepts, LoadInv, AssetsHeld, OnceInv, StagedTypes, CallTypes, FileTypes
    <3>2. at' = "manifest" => assets'[call.ref] = call.request /\ call' = call
      BY <1>3, <2>1 DEF WriteAssets, Return, OnceInv, StagedTypes, CallTypes, FileTypes
    <3> QED
      BY <1>1, <3>1, <3>2 DEF AssetsHeld
  <2>2. CASE Crash
    <3>1. ASSUME NEW c \in committed, c.request.type \in WithAssets PROVE assets'[c.ref] = c.request
      BY <1>3, <1>5, <2>2, <3>1, FilesDiffer
      DEF Crash, files, LoadInv, AssetsHeld, OnceInv, StagedTypes, CallTypes, FileTypes
    <3> QED
      BY <1>1, <2>2, <3>1 DEF AssetsHeld, Crash, Return
  <2>3. CASE assets' = assets /\ ~ Crash /\ ~ WriteAssets
    <3>1. at' = "manifest" => call' = call /\ call.request.type \notin WithAssets
      BY <2>3 DEF Begin, BindReceipt, WriteArtifact, Return
    <3> QED
      BY <1>1, <2>3, <3>1 DEF LoadInv, AssetsHeld
  <2> QED
    BY <2>1, <2>2, <2>3 DEF Begin, BindReceipt, WriteArtifact, files
<1> QED
  BY <1>2, <1>4, <1>6 DEF LoadInv

(* The commit: what was made from the entry that it replaces is not there. *)
LEMMA LoadCommit ==
  ASSUME OnceInv, OnceInv', LoadInv, Commit
  PROVE  LoadInv'
<1>1. PICK c \in CallRecords, t \in Types : c = call /\ t = c.request.type
  BY DEF Commit, OnceInv, StagedTypes, CallTypes, CallRecords, Documents
<1>2. /\ c \in CallRecords /\ c.ref \in Reference /\ Producer[t] \in Nodes
      /\ Current(t, c) /\ AttemptOpen(t)
  BY <1>1, Graph, FilesDiffer DEF Commit, OnceInv, StagedTypes, CallTypes, LoadInv, CallFresh
<1>3. /\ status' = [status EXCEPT ![Producer[t]] = "VERIFIED"]
      /\ refs' = [refs EXCEPT ![Producer[t]] = @ \cup {c.ref}]
      /\ current' = [current EXCEPT ![t] = c]
      /\ committed' = committed \cup {c} /\ call' = None /\ at' = "idle"
      /\ UNCHANGED <<attempt, files>>
  BY <1>1 DEF Commit, Return
<1>4. status[Producer[t]] \in Entered /\ (t # "transparent_score" => status[Producer[t]] = "RUNNING")
  BY <1>2 DEF AttemptOpen, Entered
<1>5. /\ status \in [Nodes -> {"PENDING", "READY", "RUNNING", "VERIFIED", "INVALIDATED"}]
      /\ current \in [Types -> committed \cup {None}] /\ refs \in [Nodes -> SUBSET Reference]
  BY DEF OnceInv, StagedTypes, RunTypes, LoadInv
<1>6. refs' \in [Nodes -> SUBSET Reference]
  BY <1>2, <1>3, <1>5
<1>7. Ordered'
  <2>1. ASSUME NEW n \in Nodes, status'[n] \in Entered PROVE status[n] \in Entered
    BY <1>3, <1>4, <1>5, <2>1
  <2>2. ASSUME NEW n \in Nodes, status[n] = "VERIFIED" PROVE status'[n] = "VERIFIED"
    BY <1>3, <1>5, <2>2
  <2>3. \A n \in Nodes : DependsOn[n] \subseteq Nodes
    BY Graph DEF Nodes
  <2> QED
    BY <1>3, <2>1, <2>2, <2>3 DEF LoadInv, Ordered
<1>8. AssetsHeld' /\ CallFresh'
  BY <1>1, <1>3 DEF Commit, files, LoadInv, AssetsHeld, CallFresh
<1>9. VerdictsHeld'
  <2>1. ASSUME NEW n \in {"scoring", "score_verifier"}, status'[n] = "VERIFIED" PROVE status[n] = "VERIFIED"
    BY <1>2, <1>3, <1>4, <1>5, <2>1, Graph DEF Nodes, Types, AttemptOpen
  <2>2. ASSUME NEW n \in Nodes PROVE refs[n] \subseteq refs'[n]
    BY <1>3, <1>5
  <2> QED
    BY <1>3, <2>1, <2>2 DEF LoadInv, VerdictsHeld, VerdictRef, Nodes
<1>10. ASSUME NEW u \in Types \ {t}, current[u] # None,
              u = "report_publication_projection" => t # "chart_bundle_collection",
              u = "competitor_report" => t \notin {"chart_bundle_collection", "report_publication_projection"}
       PROVE  OwnEntry(u)'
  <2>1. OwnEntry(u) /\ current'[u] = current[u] /\ Producer[u] \in Nodes
    BY <1>3, <1>5, <1>10, Graph DEF LoadInv, EntriesHeld
  <2>2. InputsAvailable(u)' /\ Inputs(u)' = Inputs(u)
    BY <1>3, <1>5, <1>10, <2>1
    DEF OwnEntry, Current, InputsAvailable, Inputs, VerdictRef, Types, Nodes
  <2>3. status'[Producer[u]] = "VERIFIED" /\ current[u].ref \in refs'[Producer[u]]
    BY <1>2, <1>3, <1>5, <2>1 DEF OwnEntry
  <2> QED
    BY <1>3, <2>1, <2>2, <2>3 DEF OwnEntry, Current
<1>11. ASSUME NEW u \in Types \ {t}, current[u] # None
       PROVE  /\ u = "report_publication_projection" => t # "chart_bundle_collection"
              /\ u = "competitor_report" => t \notin {"chart_bundle_collection", "report_publication_projection"}
  <2>1. status[Producer[u]] = "VERIFIED" /\ Producer[u] \in Nodes
    BY <1>11, Graph DEF LoadInv, EntriesHeld, OwnEntry
  <2>2. \A m \in DependsOn[Producer[u]] : status[m] = "VERIFIED"
    BY <2>1 DEF LoadInv, Ordered, Entered
  <2>3. CASE u = "report_publication_projection"
    BY <1>4, <2>2, <2>3, Graph
  <2>4. CASE u = "competitor_report"
    <3>1. status["report_publication_projection"] = "VERIFIED"
      BY <2>2, <2>4, Graph
    <3>2. status["chart_rendering"] = "VERIFIED"
      BY <3>1, Graph DEF LoadInv, Ordered, Entered, Nodes
    <3> QED
      BY <1>4, <2>4, <3>1, <3>2, Graph
  <2> QED
    BY <2>3, <2>4
<1>12. OwnEntry(t)'
  <2>1. current'[t] = c /\ status'[Producer[t]] = "VERIFIED" /\ c.ref \in refs'[Producer[t]]
    BY <1>2, <1>3, <1>5
  <2>2. InputsAvailable(t)' /\ Inputs(t)' = Inputs(t)
    BY <1>2, <1>3, <1>5, Graph DEF Current, InputsAvailable, Inputs, VerdictRef, Types, Nodes
  <2> QED
    BY <1>2, <1>3, <2>1, <2>2 DEF OwnEntry, Current
<1>13. EntriesHeld'
  BY <1>3, <1>5, <1>10, <1>11, <1>12 DEF EntriesHeld
<1> QED
  BY <1>6, <1>7, <1>8, <1>9, <1>13 DEF LoadInv

\* What the Manifest names stays loadable as long as the host does not
\* invalidate below scoring alone: whatever else is invalidated, retried,
\* interrupted or cut off.
THEOREM CommittedLoadableCorrect ==
  ASSUME "scoring" \notin Changeable
  PROVE  Spec => []CommittedLoadable
<1>1. Init => LoadInv
  <2> SUFFICES ASSUME Init PROVE LoadInv
    OBVIOUS
  <2>1. refs \in [Nodes -> SUBSET Reference]
    BY DEF Init, ProjectionRef, Ref, Reference
  <2>2. Ordered
    BY Graph DEF Init, Ordered, Entered
  <2> QED
    BY <2>1, <2>2
    DEF Init, LoadInv, AssetsHeld, EntriesHeld, VerdictsHeld, CallFresh, Nodes
<1>2. OnceInv /\ OnceInv' /\ LoadInv /\ [Next]_vars => LoadInv'
  <2> SUFFICES ASSUME OnceInv, OnceInv', LoadInv, [Next]_vars PROVE LoadInv'
    OBVIOUS
  <2>1. CASE UNCHANGED vars
    <3>1. UNCHANGED run /\ UNCHANGED <<assets, at, call, committed>>
      BY <2>1 DEF vars, files
    <3> QED
      BY <3>1, RunStays
      DEF run, LoadInv, AssetsHeld, CallFresh, Current, AttemptOpen, InputsAvailable, Inputs, VerdictRef
  <2>2. CASE ResumeInvalidated
    <3>1. "scoring" \in Nodes
      BY DEF Nodes
    <3> QED
      BY <2>2, <3>1, LoadNodes
  <2> QED
    BY <2>1, <2>2, LoadNodes, LoadInvalidate, LoadCall, LoadCommit DEF Next
<1>3. OnceInv /\ LoadInv => CommittedLoadable
  BY LoadHeld DEF CommittedLoadable
<1> QED
  BY <1>1, <1>2, <1>3, OnceAlways, PTL DEF Spec

-----------------------------------------------------------------------------
(* What a crash leaves behind: every whole document has a key bound to it; *)
(* one that never became effective is of an Attempt that has been, and as  *)
(* long as this Attempt is open its reference stays the next one; a score  *)
(* is never left by an Attempt that still runs.  A call under way is of    *)
(* the open Attempt and has the next reference.                            *)
DocumentsBound ==
  \A ref \in References : artifacts[ref] \notin {None, Torn} =>
    /\ artifacts[ref] \in Documents
    /\ \E key \in Keys : receipts[key] = [request |-> artifacts[ref], ref |-> ref]
StillNext(ref) ==
  LET t == artifacts[ref].type
      n == Producer[t]
  IN /\ artifacts[ref].attempt <= attempt[n]
     /\ artifacts[ref].attempt = attempt[n] =>
          /\ AttemptOpen(t) => NextRef(t) = ref
          /\ t = "transparent_score" => status[n] # "RUNNING"
LeftNext == \A ref \in References : Left(ref) => StillNext(ref)
Opened(c) ==
  LET t == c.request.type
  IN AttemptOpen(t) /\ c.request.attempt = attempt[Producer[t]] /\ c.ref = NextRef(t)
FinishInv == DocumentsBound /\ LeftNext /\ (call # None => Opened(call))
\* Assets are those of a whole document, or cut off beside one; and a report is in
\* the Manifest only while its node is verified.
AssetsBound ==
  \A ref \in References : assets[ref] # None =>
    artifacts[ref] \notin {None, Torn} /\ assets[ref] \in {Torn, artifacts[ref]}
ReportKept ==
  /\ status["report_builder"] \in Entered => attempt["report_builder"] > 0
  /\ current["competitor_report"] # None => status["report_builder"] = "VERIFIED"

(* The next reference of a type is moved by its entry and its Attempts.    *)
LEMMA NextRefStays ==
  ASSUME NEW t \in Types, current'[t] = current[t], attempt'[Producer[t]] = attempt[Producer[t]]
  PROVE  NextRef(t)' = NextRef(t)
BY DEF NextRef, Maker, Ref

(* An entry is taken away only from a node that is invalidated with it,    *)
(* and no Attempt is entered again.                                        *)
LEMMA FinishNodes ==
  ASSUME OnceInv, FinishInv, NEW n \in Nodes,
         Schedule(n) \/ Fail(n) \/ CompleteByHost(n) \/ Invalidate(n) \/ ResumeInvalidated
  PROVE  FinishInv'
<1>1. UNCHANGED <<files, call, committed>> /\ call = None
  BY DEF Schedule, Fail, CompleteByHost, Invalidate, ResumeInvalidated, OnceInv, StagedTypes, CallTypes
<1>2. /\ status \in [Nodes -> {"PENDING", "READY", "RUNNING", "VERIFIED", "INVALIDATED"}]
      /\ attempt \in [Nodes -> Nat]
  BY ConstantAssumption DEF OnceInv, StagedTypes, RunTypes
<1>3. ASSUME NEW m \in Nodes
      PROVE  /\ attempt'[m] \in Nat /\ attempt[m] <= attempt'[m]
             /\ attempt'[m] = attempt[m] =>
                  /\ status'[m] = "RUNNING" => status[m] = "RUNNING"
                  /\ status'[m] = "VERIFIED" => status[m] \in {"RUNNING", "VERIFIED"}
  <2>1. CASE Schedule(n)
    BY <1>2, <2>1 DEF Schedule
  <2>2. CASE Fail(n) \/ CompleteByHost(n) \/ Invalidate(n) \/ ResumeInvalidated
    BY <1>2, <2>2 DEF Fail, CompleteByHost, Invalidate, ResumeInvalidated
  <2> QED
    BY <2>1, <2>2
<1>4. ASSUME NEW t \in Types PROVE current'[t] = current[t] \/ status'[Producer[t]] = "INVALIDATED"
  BY Graph DEF Schedule, Fail, CompleteByHost, Invalidate, ResumeInvalidated, RemovedTypes
<1>5. DocumentsBound'
  BY <1>1 DEF files, FinishInv, DocumentsBound
<1>6. LeftNext'
  <2> SUFFICES ASSUME NEW ref \in References, Left(ref)' PROVE StillNext(ref)'
    BY DEF LeftNext
  <2>1. Left(ref) /\ StillNext(ref) /\ artifacts'[ref] = artifacts[ref] /\ artifacts[ref] \in Documents
    BY <1>1 DEF Left, Uncommitted, files, FinishInv, LeftNext, DocumentsBound
  <2>2. PICK t \in Types, m \in Nodes : t = artifacts[ref].type /\ m = Producer[t]
    BY <2>1, Graph DEF Documents
  <2>3. artifacts[ref].attempt \in Nat
    BY <2>1 DEF Documents
  <2>4. artifacts[ref].attempt <= attempt'[m]
    BY <1>2, <1>3, <2>1, <2>2, <2>3 DEF StillNext
  <2>5. ASSUME artifacts[ref].attempt = attempt'[m]
        PROVE  /\ AttemptOpen(t)' => NextRef(t)' = ref
               /\ t = "transparent_score" => status'[m] # "RUNNING"
    <3>1. attempt'[m] = attempt[m]
      BY <1>2, <1>3, <2>1, <2>2, <2>3, <2>5 DEF StillNext
    <3>2. t = "transparent_score" => status[m] # "RUNNING"
      BY <2>1, <2>2, <2>5, <3>1 DEF StillNext
    <3>3. AttemptOpen(t)' => AttemptOpen(t) /\ current'[t] = current[t]
      BY <1>3, <1>4, <2>2, <3>1, <3>2 DEF AttemptOpen
    <3>4. AttemptOpen(t) => NextRef(t) = ref
      BY <2>1, <2>2, <2>5, <3>1 DEF StillNext
    <3> QED
      BY <1>3, <2>2, <3>1, <3>2, <3>3, <3>4, NextRefStays
  <2> QED
    BY <2>1, <2>2, <2>4, <2>5 DEF StillNext
<1> QED
  BY <1>1, <1>5, <1>6 DEF FinishInv
(* A call is of the open Attempt and has the next reference from its begin *)
(* on, and its document gets them with its receipt bound.                  *)
LEMMA FinishCall ==
  ASSUME OnceInv, OnceInv', FinishInv,
         \/ \E t \in Types, key \in Keys, content \in Contents \cup {None} : Begin(t, key, content)
         \/ BindReceipt \/ WriteArtifact \/ WriteAssets \/ Crash
  PROVE  FinishInv'
<1>1. UNCHANGED run /\ UNCHANGED committed
  BY DEF Begin, BindReceipt, WriteArtifact, WriteAssets, Crash
<1>2. /\ \A t \in Types : NextRef(t)' = NextRef(t) /\ (AttemptOpen(t)' <=> AttemptOpen(t))
      /\ \A ref \in References : artifacts[ref].type \in Types /\ artifacts'[ref] = artifacts[ref] =>
           (StillNext(ref)' <=> StillNext(ref))
      /\ \A c : c.request.type \in Types => (Opened(c)' <=> Opened(c))
  <2>1. \A t \in Types : NextRef(t)' = NextRef(t) /\ (AttemptOpen(t)' <=> AttemptOpen(t))
    BY <1>1, NextRefStays DEF run, AttemptOpen
  <2> QED
    BY <1>1, <2>1 DEF run, StillNext, Opened
<1>3. call # None => call \in CallRecords /\ call.ref \in References /\ call.request.type \in Types
  BY DEF OnceInv, StagedTypes, CallTypes, CallRecords, Documents
<1>4. call' # None => Opened(call)'
  <2>1. CASE \E t \in Types, key \in Keys, content \in Contents \cup {None} : Begin(t, key, content)
    <3>1. PICK t \in Types, key \in Keys, content \in Contents \cup {None} : Begin(t, key, content)
      BY <2>1
    <3>2. PICK c : c = [key |-> key, request |-> Request(t, content), ref |-> NextRef(t)]
      OBVIOUS
    <3>3. call' = c /\ c.request.type = t /\ Opened(c)
      BY <3>1, <3>2 DEF Begin, Request, Opened
    <3> QED
      BY <1>2, <3>3
  <2>2. CASE call' = call
    BY <1>2, <1>3, <2>2 DEF FinishInv
  <2>3. CASE call' = None
    BY <2>3
  <2> QED
    BY <2>1, <2>2, <2>3 DEF BindReceipt, WriteArtifact, WriteAssets, Crash, Return
<1>5. ASSUME NEW ref \in References, artifacts'[ref] = artifacts[ref], artifacts[ref] \notin {None, Torn}
      PROVE  /\ artifacts'[ref] \in Documents
             /\ \E key \in Keys : receipts'[key] = [request |-> artifacts'[ref], ref |-> ref]
             /\ Left(ref)' => StillNext(ref)'
  <2> DEFINE receipt == [request |-> artifacts[ref], ref |-> ref]
  <2>1. PICK key \in Keys : receipts[key] = receipt
    BY <1>5 DEF FinishInv, DocumentsBound
  <2>2. artifacts[ref] \in Documents /\ artifacts[ref].type \in Types /\ ref \in Reference
    BY <1>5, ReferenceTypes DEF FinishInv, DocumentsBound, Documents, OnceInv, StagedTypes
  <2>3. receipt \notin {None, Torn}
    BY <2>1, <2>2, FileAssumption DEF Receipts
  <2>4. receipts'[key] = receipt
    <3>1. CASE BindReceipt
      BY <1>3, <2>1, <2>3, <3>1 DEF BindReceipt, Accepts, OnceInv, StagedTypes, FileTypes, CallTypes
    <3>2. CASE Crash
      BY <2>1, <2>3, <3>2 DEF Crash, files, OnceInv, StagedTypes, FileTypes
    <3> QED
      BY <2>1, <3>1, <3>2 DEF Begin, WriteArtifact, WriteAssets, files
  <2>5. Left(ref)' => Left(ref)
    BY <1>1, <1>5 DEF Left, Uncommitted
  <2> QED
    BY <1>2, <1>5, <2>1, <2>2, <2>4, <2>5 DEF FinishInv, LeftNext
<1>6. ASSUME NEW ref \in References, artifacts'[ref] # artifacts[ref], artifacts'[ref] \notin {None, Torn}
      PROVE  /\ artifacts'[ref] \in Documents
             /\ \E key \in Keys : receipts'[key] = [request |-> artifacts'[ref], ref |-> ref]
             /\ StillNext(ref)'
  <2>1. /\ at = "artifact" /\ ref = call.ref /\ artifacts'[ref] = call.request /\ receipts' = receipts
        /\ call # None
    BY <1>6 DEF Begin, BindReceipt, WriteArtifact, WriteAssets, Crash, files, OnceInv, StagedTypes, FileTypes, CallTypes
  <2>2. PICK c \in CallRecords, t \in Types : c = call /\ t = c.request.type
    BY <1>3, <2>1
  <2>3. /\ c.request \in Documents /\ c.key \in Keys
        /\ receipts'[c.key] = [request |-> c.request, ref |-> ref]
    BY <2>1, <2>2, FilesDiffer DEF OnceInv, CallHeld, Bound, Receipt
  <2>4. AttemptOpen(t)' /\ NextRef(t)' = ref /\ c.request.attempt = attempt'[Producer[t]]
    BY <1>1, <1>2, <2>1, <2>2 DEF FinishInv, Opened, run
  <2>5. /\ attempt'[Producer[t]] \in Nat
        /\ t = "transparent_score" => status'[Producer[t]] # "RUNNING"
    BY <2>4, Graph, ConstantAssumption DEF OnceInv, StagedTypes, RunTypes, AttemptOpen
  <2> QED
    BY <2>1, <2>2, <2>3, <2>4, <2>5 DEF StillNext
<1>7. DocumentsBound' /\ LeftNext'
  BY <1>5, <1>6 DEF DocumentsBound, LeftNext, Left
<1> QED
  BY <1>4, <1>7 DEF FinishInv

(* A commit closes its Attempt or, of a score, takes the one reference     *)
(* that a document of the Attempt could have been left under.              *)
LEMMA FinishCommit ==
  ASSUME OnceInv, FinishInv, Commit
  PROVE  FinishInv'
<1>1. PICK c \in CallRecords, t \in Types : c = call /\ t = c.request.type
  BY DEF Commit, OnceInv, StagedTypes, CallTypes, CallRecords, Documents
<1>2. Producer[t] \in Nodes /\ Opened(c)
  BY <1>1, Graph, FilesDiffer DEF Commit, FinishInv
<1>3. /\ status' = [status EXCEPT ![Producer[t]] = "VERIFIED"]
      /\ current' = [current EXCEPT ![t] = c]
      /\ committed' = committed \cup {c} /\ call' = None
      /\ UNCHANGED <<attempt, files>>
  BY <1>1 DEF Commit, Return
<1>4. /\ status \in [Nodes -> {"PENDING", "READY", "RUNNING", "VERIFIED", "INVALIDATED"}]
      /\ DOMAIN current = Types
  BY DEF OnceInv, StagedTypes, RunTypes
<1>5. LeftNext'
  <2> SUFFICES ASSUME NEW ref \in References, Left(ref)' PROVE StillNext(ref)'
    BY DEF LeftNext
  <2>1. Left(ref) /\ StillNext(ref) /\ ref # c.ref /\ artifacts'[ref] = artifacts[ref] /\ artifacts[ref] \in Documents
    BY <1>3 DEF Left, Uncommitted, files, FinishInv, LeftNext, DocumentsBound
  <2>2. PICK u \in Types, m \in Nodes : u = artifacts[ref].type /\ m = Producer[u]
    BY <2>1, Graph DEF Documents
  <2>3. CASE u # t
    <3>1. Producer[u] # Producer[t]
      BY <2>3, Graph DEF Types
    <3>2. NextRef(u)' = NextRef(u) /\ status'[m] = status[m]
      BY <1>3, <1>4, <2>2, <2>3, <3>1, NextRefStays
    <3> QED
      BY <1>3, <2>1, <2>2, <3>2 DEF StillNext, AttemptOpen
  <2>4. CASE u = t /\ t # "transparent_score"
    BY <1>2, <1>3, <1>4, <2>1, <2>2, <2>4 DEF StillNext, AttemptOpen
  <2>5. CASE u = t /\ t = "transparent_score"
    <3>1. artifacts[ref].attempt # attempt[m]
      BY <1>2, <2>1, <2>2, <2>5, <1>1 DEF StillNext, Opened
    <3> QED
      BY <1>3, <2>1, <2>2, <3>1 DEF StillNext
  <2> QED
    BY <2>3, <2>4, <2>5
<1>6. DocumentsBound'
  BY <1>3 DEF files, FinishInv, DocumentsBound
<1> QED
  BY <1>3, <1>5, <1>6 DEF FinishInv

(* The assets of a call are written beside its document, which stays.     *)
LEMMA AssetsStep ==
  ASSUME OnceInv, AssetsBound, [Next]_vars
  PROVE  AssetsBound'
<1>1. CASE UNCHANGED <<artifacts, assets>>
  BY <1>1 DEF AssetsBound
<1>2. call # None => call \in CallRecords /\ call.ref \in References
  BY DEF OnceInv, StagedTypes, CallTypes
<1>3. DOMAIN artifacts = References /\ DOMAIN assets = References
  BY DEF OnceInv, StagedTypes, FileTypes
<1>4. CASE WriteArtifact
  <2>1. call # None /\ UNCHANGED assets
    BY <1>4 DEF WriteArtifact, OnceInv, StagedTypes, CallTypes
  <2>2. \A ref \in References : artifacts'[ref] = artifacts[ref] \/ artifacts[ref] = None
    BY <1>2, <1>3, <1>4, <2>1 DEF WriteArtifact, Accepts
  <2> QED
    BY <2>1, <2>2 DEF AssetsBound
<1>5. CASE WriteAssets
  <2>1. /\ call # None /\ UNCHANGED artifacts
        /\ artifacts[call.ref] = call.request /\ call.request \notin {None, Torn}
    BY <1>2, <1>5, FilesDiffer DEF WriteAssets, OnceInv, StagedTypes, CallTypes, CallHeld, Written
  <2>2. \A ref \in References :
          assets'[ref] = assets[ref] \/ (ref = call.ref /\ assets'[ref] = call.request)
    BY <1>2, <1>3, <1>5, <2>1 DEF WriteAssets
  <2> QED
    BY <2>1, <2>2 DEF AssetsBound
<1>6. CASE Crash
  <2>1. call # None
    BY <1>6 DEF Crash, OnceInv, StagedTypes, CallTypes
  <2>2. at = "assets" => artifacts[call.ref] = call.request /\ call.request \notin {None, Torn}
    BY <1>2, <2>1, FilesDiffer DEF OnceInv, CallHeld, Written
  <2>3. CASE UNCHANGED assets
    <3>1. \A ref \in References : artifacts'[ref] = artifacts[ref] \/ artifacts[ref] = None
      BY <1>2, <1>3, <1>6, <2>1 DEF Crash, files
    <3> QED
      BY <2>3, <3>1 DEF AssetsBound
  <2>4. CASE at = "assets" /\ UNCHANGED artifacts /\ assets' = [assets EXCEPT ![call.ref] = Torn]
    BY <1>3, <2>2, <2>4 DEF AssetsBound
  <2> QED
    BY <1>6, <2>3, <2>4 DEF Crash, files
<1> QED
  BY <1>1, <1>4, <1>5, <1>6
  DEF Next, vars, files, Schedule, Fail, CompleteByHost, Invalidate, ResumeInvalidated, Begin,
      BindReceipt, Commit

(* The report goes from the Manifest with its node.                        *)
LEMMA ReportStep ==
  ASSUME OnceInv, FinishInv, ReportKept, [Next]_vars
  PROVE  ReportKept'
<1> DEFINE b == "report_builder"
           r == "competitor_report"
<1>1. CASE UNCHANGED <<status, attempt, current>>
  BY <1>1 DEF ReportKept, Entered
<1>2. /\ b \in Nodes /\ r \in Types /\ Producer[r] = b
      /\ status \in [Nodes -> {"PENDING", "READY", "RUNNING", "VERIFIED", "INVALIDATED"}]
      /\ attempt[b] \in Nat
      /\ attempt \in [Nodes -> 0 .. MaxAttempts] /\ DOMAIN current = Types
  BY Graph, ConstantAssumption DEF Nodes, Types, OnceInv, StagedTypes, RunTypes
<1>3. CASE \E n \in Nodes : Schedule(n) \/ Fail(n) \/ CompleteByHost(n)
  <2>1. PICK n \in Nodes : Schedule(n) \/ Fail(n) \/ CompleteByHost(n)
    BY <1>3
  <2>2. CASE n = b
    BY <1>2, <2>1, <2>2 DEF Schedule, Fail, CompleteByHost, ReportKept, Entered
  <2>3. CASE n # b
    BY <1>2, <2>1, <2>3 DEF Schedule, Fail, CompleteByHost, ReportKept
  <2> QED
    BY <2>2, <2>3
<1>4. CASE \E n \in Nodes : Invalidate(n)
  <2>1. PICK n \in Nodes : Invalidate(n)
    BY <1>4
  <2>2. CASE b \in Downstream(n)
    BY <1>2, <2>1, <2>2 DEF Invalidate, RemovedTypes, ReportKept, Entered
  <2>3. CASE b \notin Downstream(n)
    BY <1>2, <2>1, <2>3 DEF Invalidate, RemovedTypes, ReportKept, Entered
  <2> QED
    BY <2>2, <2>3
<1>5. CASE ResumeInvalidated
  BY <1>2, <1>5 DEF ResumeInvalidated, ReportKept, Entered
<1>6. CASE Commit
  <2>1. PICK c \in CallRecords, t \in Types : c = call /\ t = c.request.type
    BY <1>6 DEF Commit, OnceInv, StagedTypes, CallTypes, CallRecords, Documents
  <2>2. /\ status' = [status EXCEPT ![Producer[t]] = "VERIFIED"]
        /\ current' = [current EXCEPT ![t] = c] /\ attempt' = attempt /\ Opened(c)
    BY <1>6, <2>1, FilesDiffer DEF Commit, FinishInv
  <2>3. CASE t = r
    <3>1. status[b] = "RUNNING"
      BY <1>2, <2>1, <2>2, <2>3 DEF Opened, AttemptOpen
    <3> QED
      BY <1>2, <2>2, <2>3, <3>1 DEF ReportKept, Entered
  <2>4. CASE t # r
    <3>1. Producer[t] # b
      BY <2>4, Graph DEF Types
    <3> QED
      BY <1>2, <2>2, <2>4, <3>1 DEF ReportKept
  <2> QED
    BY <2>3, <2>4
<1>7. CASE \/ \E t \in Types, key \in Keys, content \in Contents \cup {None} : Begin(t, key, content)
           \/ BindReceipt \/ WriteArtifact \/ WriteAssets \/ Crash \/ UNCHANGED vars
  <2>1. UNCHANGED <<status, attempt, current>>
    BY <1>7 DEF Begin, BindReceipt, WriteArtifact, WriteAssets, Crash, vars, run
  <2> QED
    BY <1>1, <2>1
<1> QED
  BY <1>3, <1>4, <1>5, <1>6, <1>7 DEF Next

(* What the invariants say of a document that was left.                    *)
LEMMA LeftFinishes ==
  ASSUME OnceInv, FinishInv, AssetsBound, ReportKept,
         NEW ref \in References, Left(ref), Repeatable(artifacts[ref])
  PROVE  (\E key \in Keys : Finishes(key, artifacts[ref])) <=>
           (artifacts[ref].type \in WithAssets => assets[ref] # Torn)
<1>1. PICK t \in Types, request \in Documents : request = artifacts[ref] /\ t = request.type
  BY DEF Left, FinishInv, DocumentsBound, Documents
<1>2. NextRef(t) = ref /\ ref \in DOMAIN artifacts
  BY <1>1 DEF FinishInv, LeftNext, StillNext, Repeatable, OnceInv, StagedTypes, FileTypes
<1>3. PICK key \in Keys : receipts[key] = [request |-> request, ref |-> ref]
  BY <1>1 DEF Left, FinishInv, DocumentsBound
<1>4. KeyUnused(key)
  <2> SUFFICES ASSUME NEW u \in Types, current[u] # None, current[u].key = key PROVE FALSE
    BY DEF KeyUnused
  <2>1. current[u] \in committed /\ Bound(current[u])
    BY DEF OnceInv, StagedTypes, RunTypes, CommittedHeld
  <2>2. current[u].ref = ref
    BY <1>3, <2>1 DEF Bound, Receipt
  <2> QED
    BY <2>1, <2>2 DEF Left, Uncommitted
<1>5. BaseMatches(t)
  <2>1. t = "competitor_report" => status["report_builder"] = "RUNNING"
    BY <1>1, Graph DEF Repeatable, AttemptOpen
  <2> QED
    BY <2>1 DEF BaseMatches, ReportKept
<1>6. request # Torn /\ None # Torn
  BY FileAssumption, ConstantAssumption
<1>7. assets[ref] \in {None, Torn, request}
  BY <1>1 DEF AssetsBound
<1>8. (t \in WithAssets => assets[ref] # Torn) => Finishes(key, request)
  BY <1>1, <1>2, <1>3, <1>4, <1>5, <1>7 DEF Finishes, Accepts
<1>9. ASSUME NEW k \in Keys, Finishes(k, request), t \in WithAssets PROVE assets[ref] # Torn
  BY <1>1, <1>2, <1>6, <1>9 DEF Finishes, Accepts
<1> QED
  BY <1>1, <1>8, <1>9

\* What a crash leaves of a commit after its Artifact can be finished by the same
\* call if and only if its assets are not cut off, for any keys, contents,
\* invalidations and crashes; no call gets past an Artifact that is.
THEOREM InterruptedFinishesUnlessTornCorrect == Spec => []InterruptedFinishesUnlessTorn
<1>1. Init => FinishInv /\ AssetsBound /\ ReportKept
  <2> SUFFICES ASSUME Init PROVE FinishInv /\ AssetsBound /\ ReportKept
    OBVIOUS
  <2>1. FinishInv /\ AssetsBound
    BY DEF Init, FinishInv, DocumentsBound, LeftNext, Left, AssetsBound
  <2>2. "report_builder" \in Nodes /\ "competitor_report" \in Types
    BY DEF Nodes, Types
  <2> QED
    BY <2>1, <2>2 DEF Init, ReportKept, Entered
<1>2. OnceInv /\ OnceInv' /\ FinishInv /\ [Next]_vars => FinishInv'
  <2> SUFFICES ASSUME OnceInv, OnceInv', FinishInv, [Next]_vars PROVE FinishInv'
    OBVIOUS
  <2>1. CASE UNCHANGED vars
    BY <2>1 DEF vars, run, files, FinishInv, DocumentsBound, LeftNext, Left, Uncommitted, StillNext,
                Opened, AttemptOpen, NextRef, Maker
  <2>2. CASE ResumeInvalidated
    <3>1. "scoring" \in Nodes
      BY DEF Nodes
    <3> QED
      BY <2>2, <3>1, FinishNodes
  <2> QED
    BY <2>1, <2>2, FinishNodes, FinishCall, FinishCommit DEF Next
<1>3. OnceInv /\ FinishInv /\ AssetsBound /\ ReportKept => InterruptedFinishesUnlessTorn
  <2> SUFFICES ASSUME OnceInv, FinishInv, AssetsBound, ReportKept
               PROVE  InterruptedFinishesUnlessTorn
    OBVIOUS
  <2>1. ASSUME NEW t \in Types, NEW content \in ContentsOf(t), NEW key \in Keys,
               InputsAvailable(t), artifacts[NextRef(t)] = Torn
        PROVE  ~ Finishes(key, Request(t, content))
    <3>1. content \in Contents \cup {None}
      BY DEF ContentsOf
    <3>2. Request(t, content) \in Documents
      BY <2>1, <3>1, BeginTypes DEF OnceInv, StagedTypes
    <3>3. Torn \notin {None, Request(t, content)} /\ Request(t, content).type = t
      BY <3>2, FileAssumption, ConstantAssumption DEF Request
    <3> QED
      BY <2>1, <3>3 DEF Finishes, Accepts
  <2> QED
    BY <2>1, LeftFinishes DEF InterruptedFinishesUnlessTorn
<1>4. OnceInv /\ FinishInv /\ AssetsBound /\ ReportKept /\ [Next]_vars => AssetsBound' /\ ReportKept'
  BY AssetsStep, ReportStep
<1> QED
  BY <1>1, <1>2, <1>3, <1>4, OnceAlways, PTL DEF Spec
=============================================================================
