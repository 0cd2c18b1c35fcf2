------------------------- MODULE RuntimeIntegration -------------------------
(***************************************************************************)
(* The staged commits of Contract 0.3.2 (runtime_integration.py): charts,  *)
(* their publication projection, the report and the transparent score.     *)
(* A commit binds its idempotency key to a receipt, writes its Artifact    *)
(* and assets, and becomes effective with the Manifest; the objects before *)
(* it are immutable, and a crash leaves them.  Upstream of the charts all  *)
(* is verified and report_projection is current; scoring and its verifier  *)
(* are completed by the host.  One writer; Snapshot and Manifest are       *)
(* replaced in one step (RunStorage takes it apart).                       *)
(***************************************************************************)
EXTENDS Naturals, FiniteSets

CONSTANTS
  Keys,                     \* idempotency keys
  Contents,                 \* what an Executor may propose for one Attempt
  Changeable,               \* nodes whose dependents the host invalidates
  None, Torn,               \* no file; a file cut off by a crash
  TornWrites,               \* may a crash cut off a file
  MaxAttempts, MaxVersion, MaxCrashes   \* bounds

VARIABLES
  status,                   \* of each node
  attempt,                  \* ordinal of its last Attempt
  refs,                     \* its artifact_refs
  current,                  \* current_artifacts of the Manifest, by type
  receipts,                 \* runtime/mutation-receipts/<key>.json
  artifacts,                \* artifacts/by-ref/<ref>.json: documents, by reference
  assets,                   \* runtime/artifact-assets/<ref>/ and their inventory
  call,                     \* the commit under way
  at,                       \* its next write, or "idle"
  crashes,
  committed                 \* history: the calls that became effective

run == <<status, attempt, refs, current>>
files == <<receipts, artifacts, assets>>
vars == <<run, files, call, at, crashes, committed>>

Nodes == {"fact_provenance", "chart_rendering", "report_publication_projection",
          "report_builder", "scoring", "score_verifier"}
DependsOn ==
  [n \in Nodes |->
     CASE n = "fact_provenance"               -> {}
       [] n = "chart_rendering"               -> {"fact_provenance"}
       [] n = "report_publication_projection" -> {"fact_provenance", "chart_rendering"}
       [] n = "report_builder"                -> {"report_publication_projection"}
       [] n = "scoring"                       -> {"fact_provenance"}
       [] n = "score_verifier"                -> {"scoring"}]
ASSUME ConstantAssumption ==
  /\ Changeable \subseteq Nodes /\ None # Torn /\ TornWrites \in {TRUE, FALSE}
  /\ MaxAttempts \in Nat \ {0} /\ MaxVersion \in Nat /\ MaxCrashes \in Nat

\* _INTEGRATED_TYPES, and the node whose Skill declares each output.
Types == {"chart_bundle_collection", "report_publication_projection",
          "competitor_report", "transparent_score"}
WithAssets == {"chart_bundle_collection", "competitor_report"}
Producer ==
  [t \in Types |->
     CASE t = "chart_bundle_collection"       -> "chart_rendering"
       [] t = "report_publication_projection" -> "report_publication_projection"
       [] t = "competitor_report"             -> "report_builder"
       [] t = "transparent_score"             -> "scoring"]

\* _header: the successor of the current Artifact, or version 1 of an identity
\* made of the Run and the type, for a chart collection of the Attempt too.
Ref(type, maker, version) == [type |-> type, maker |-> maker, version |-> version]
Maker(t) == IF t = "chart_bundle_collection" THEN attempt[Producer[t]] ELSE 0
NextFreeRef(t) ==                                                 \* mutant
  LET first == Ref(t, Maker(t), 1) IN
  IF first \in DOMAIN artifacts /\ artifacts[first] # None THEN Ref(t, Maker(t), 2) ELSE first
NextRef(t) ==
  IF current[t] = None THEN Ref(t, Maker(t), 1)
  ELSE [current[t].ref EXCEPT !.version = @ + 1]
ProjectionRef == Ref("report_projection", 0, 1)
Reference == [type : Types \cup Nodes \cup {"report_projection"}, maker : Nat, version : Nat]
\* What a host completes scoring or its verifier with: an identity per Attempt.
VerdictRef(n) == Ref(n, attempt[n], 1)

\* The effective Artifacts of which the request of a type is made.
Inputs(t) ==
  CASE t = "chart_bundle_collection"       -> {ProjectionRef}
    [] t = "report_publication_projection" -> {ProjectionRef, current["chart_bundle_collection"].ref}
    [] t = "competitor_report"             -> {current["report_publication_projection"].ref,
                                               current["chart_bundle_collection"].ref}
    [] t = "transparent_score"             -> {VerdictRef("scoring"), VerdictRef("score_verifier")}
InputsAvailable(t) ==
  CASE t = "chart_bundle_collection"       -> TRUE
    [] t = "report_publication_projection" -> current["chart_bundle_collection"] # None
    [] t = "competitor_report"             -> /\ current["report_publication_projection"] # None
                                              /\ current["chart_bundle_collection"] # None
    [] t = "transparent_score"             -> /\ status["scoring"] = "VERIFIED"
                                              /\ status["score_verifier"] = "VERIFIED"
\* request_hash: everything the document is computed from.
Request(t, content) ==
  [type |-> t, attempt |-> attempt[Producer[t]], inputs |-> Inputs(t), content |-> content]
Documents ==
  [type : Types, attempt : Nat, inputs : SUBSET Reference, content : Contents \cup {None}]
Receipts == [request : Documents, ref : Reference]
ASSUME FileAssumption ==
  {None, Torn} \cap (Documents \cup Receipts \cup [key : Keys, request : Documents, ref : Reference]) = {}

\* Only charts and the choice of a competitor are not determined by the inputs.
ContentsOf(t) ==
  IF t \in {"chart_bundle_collection", "transparent_score"} THEN Contents ELSE {None}

-----------------------------------------------------------------------------
\* validate_staged_runtime_resume, part of load_run.
EffectiveRefs == UNION {refs[n] : n \in {m \in Nodes : status[m] = "VERIFIED"}}
EntryIntact(t) ==
  LET entry == current[t] IN
    /\ artifacts[entry.ref] = entry.request
    /\ t \in WithAssets => assets[entry.ref] = entry.request
    /\ entry.ref \in EffectiveRefs
    /\ receipts[entry.key] = [request |-> entry.request, ref |-> entry.ref]
DependenciesCurrent(t) ==
  LET inputs == current[t].request.inputs IN
    CASE t = "chart_bundle_collection"       -> attempt["chart_rendering"] = current[t].request.attempt
      [] t = "report_publication_projection" -> InputsAvailable(t) /\ inputs = Inputs(t)
      [] t = "competitor_report"             -> InputsAvailable(t) /\ inputs = Inputs(t)
      [] t = "transparent_score"             -> InputsAvailable(t) /\ inputs \subseteq EffectiveRefs
Loadable == \A t \in Types : current[t] # None => EntryIntact(t) /\ DependenciesCurrent(t)

-----------------------------------------------------------------------------
\* Scheduling, failure and completion of an Attempt: RunKernel has them in full.
Schedule(n) ==
  /\ at = "idle" /\ Loadable
  /\ status[n] \in {"PENDING", "READY"} /\ attempt[n] < MaxAttempts
  /\ \A m \in DependsOn[n] : status[m] = "VERIFIED"
  /\ status' = [status EXCEPT ![n] = "RUNNING"]
  /\ attempt' = [attempt EXCEPT ![n] = @ + 1]
  /\ UNCHANGED <<refs, current, files, call, at, crashes, committed>>
Fail(n) ==
  /\ at = "idle" /\ Loadable /\ status[n] = "RUNNING"
  /\ status' = [status EXCEPT ![n] = "READY"]
  /\ UNCHANGED <<attempt, refs, current, files, call, at, crashes, committed>>
CompleteByHost(n) ==
  /\ at = "idle" /\ Loadable /\ n \in {"scoring", "score_verifier"} /\ status[n] = "RUNNING"
  /\ status' = [status EXCEPT ![n] = "VERIFIED"]
  /\ refs' = [refs EXCEPT ![n] = @ \cup {VerdictRef(n)}]
  /\ UNCHANGED <<attempt, current, files, call, at, crashes, committed>>

\* invalidate_downstream: the dependents of a changed producer, and the types
\* their Skills declare.
Dependents(roots) == {n \in Nodes : DependsOn[n] \cap roots # {}}
DirectDependents(n) == Dependents({n})                            \* mutant
Downstream(n) ==
  LET one == Dependents({n}) two == one \cup Dependents(one)
  IN two \cup Dependents(two) \cup Dependents(Dependents(two))
RemovedTypes(targets) == {t \in Types : Producer[t] \in targets /\ attempt[Producer[t]] > 0}
Invalidate(n) ==
  /\ at = "idle" /\ Loadable /\ n \in Changeable
  /\ LET targets == Downstream(n) IN
       /\ targets # {} /\ \A m \in targets : status[m] # "RUNNING"
       /\ status' = [m \in Nodes |-> IF m \in targets THEN "INVALIDATED" ELSE status[m]]
       /\ refs' = [m \in Nodes |-> IF m \in targets THEN {} ELSE refs[m]]
       /\ current' = [t \in Types |-> IF t \in RemovedTypes(targets) THEN None ELSE current[t]]
  /\ UNCHANGED <<attempt, files, call, at, crashes, committed>>
ResumeInvalidated ==
  /\ at = "idle" /\ Loadable /\ \E n \in Nodes : status[n] = "INVALIDATED"
  /\ status' = [n \in Nodes |-> IF status[n] = "INVALIDATED" THEN "PENDING" ELSE status[n]]
  /\ UNCHANGED <<attempt, refs, current, files, call, at, crashes, committed>>

-----------------------------------------------------------------------------
\* A staged commit up to its first write: the inputs are current, the key is
\* not that of an effective result (then the call is a replay, which changes
\* nothing, or a conflict), the Attempt is the node's own and running; the score is
\* appended to a verified Attempt.  A report has no base: its staging store
\* is empty and build_competitor_report_document takes no successor.
KeyUnused(key) == \A t \in Types : current[t] # None => current[t].key # key
AttemptOpen(t) ==
  status[Producer[t]] = IF t = "transparent_score" THEN "VERIFIED" ELSE "RUNNING"
BaseMatches(t) == t = "competitor_report" => current[t] = None
Begin(t, key, content) ==
  /\ at = "idle" /\ Loadable /\ content \in ContentsOf(t)
  /\ InputsAvailable(t) /\ KeyUnused(key) /\ BaseMatches(t) /\ AttemptOpen(t)
  /\ NextRef(t) \in DOMAIN artifacts
  /\ call' = [key |-> key, request |-> Request(t, content), ref |-> NextRef(t)]
  /\ at' = "receipt"
  /\ UNCHANGED <<run, files, crashes, committed>>

\* An immutable file that is there must be the identical one.
AcceptsAnything(file, document) == TRUE                           \* mutant
Accepts(file, document) == file \in {None, document}
ReturnInCall == at' = "idle" /\ UNCHANGED call                    \* mutant
Return == at' = "idle" /\ call' = None
BindReceipt ==
  /\ at = "receipt"
  /\ LET receipt == [request |-> call.request, ref |-> call.ref] IN
       \/ /\ Accepts(receipts[call.key], receipt)
          /\ receipts' = [receipts EXCEPT ![call.key] = receipt]
          /\ at' = "artifact" /\ UNCHANGED call
       \/ ~ Accepts(receipts[call.key], receipt) /\ Return /\ UNCHANGED receipts
  /\ UNCHANGED <<run, artifacts, assets, crashes, committed>>
WriteArtifact ==
  /\ at = "artifact"
  /\ \/ /\ Accepts(artifacts[call.ref], call.request)
        /\ artifacts' = [artifacts EXCEPT ![call.ref] = call.request]
        /\ at' = IF call.request.type \in WithAssets THEN "assets" ELSE "manifest"
        /\ UNCHANGED call
     \/ ~ Accepts(artifacts[call.ref], call.request) /\ Return /\ UNCHANGED artifacts
  /\ UNCHANGED <<run, receipts, assets, crashes, committed>>
\* write_asset_inventory: the payloads, then the inventory that lists them.
WriteAssets ==
  /\ at = "assets"
  /\ \/ /\ Accepts(assets[call.ref], call.request)
        /\ assets' = [assets EXCEPT ![call.ref] = call.request]
        /\ at' = "manifest" /\ UNCHANGED call
     \/ ~ Accepts(assets[call.ref], call.request) /\ Return /\ UNCHANGED assets
  /\ UNCHANGED <<run, receipts, artifacts, crashes, committed>>

\* The Manifest makes node, Attempt and Artifact effective together.
Commit ==
  /\ at = "manifest"
  /\ LET t == call.request.type IN
       /\ status' = [status EXCEPT ![Producer[t]] = "VERIFIED"]
       /\ refs' = [refs EXCEPT ![Producer[t]] = @ \cup {call.ref}]
       /\ current' = [current EXCEPT ![t] = call]
  /\ committed' = committed \cup {call}
  /\ Return /\ UNCHANGED <<attempt, files, crashes>>

\* The process dies; the file it is writing may be cut off.
Crash ==
  /\ at # "idle" /\ crashes < MaxCrashes
  /\ crashes' = crashes + 1
  /\ \/ UNCHANGED files
     \/ /\ TornWrites /\ at = "receipt" /\ receipts[call.key] = None
        /\ receipts' = [receipts EXCEPT ![call.key] = Torn] /\ UNCHANGED <<artifacts, assets>>
     \/ /\ TornWrites /\ at = "artifact" /\ artifacts[call.ref] = None
        /\ artifacts' = [artifacts EXCEPT ![call.ref] = Torn] /\ UNCHANGED <<receipts, assets>>
     \/ /\ TornWrites /\ at = "assets" /\ assets[call.ref] = None
        /\ assets' = [assets EXCEPT ![call.ref] = Torn] /\ UNCHANGED <<receipts, artifacts>>
  /\ Return /\ UNCHANGED <<run, committed>>

-----------------------------------------------------------------------------
Makers(t) == IF t = "chart_bundle_collection" THEN 1 .. MaxAttempts ELSE {0}
References == UNION {{Ref(t, m, v) : m \in Makers(t), v \in 1 .. MaxVersion} : t \in Types}

\* load_run, as far as the staged commits go, finds the Attempts up to the
\* fact provenance verified and its projection current.
Init ==
  /\ status = [n \in Nodes |-> IF n = "fact_provenance" THEN "VERIFIED" ELSE "PENDING"]
  /\ attempt = [n \in Nodes |-> IF n = "fact_provenance" THEN 1 ELSE 0]
  /\ refs = [n \in Nodes |-> IF n = "fact_provenance" THEN {ProjectionRef} ELSE {}]
  /\ current = [t \in Types |-> None]
  /\ receipts = [k \in Keys |-> None]
  /\ artifacts = [r \in References |-> None] /\ assets = [r \in References |-> None]
  /\ call = None /\ at = "idle" /\ crashes = 0 /\ committed = {}
Next ==
  \/ \E n \in Nodes : Schedule(n) \/ Fail(n) \/ CompleteByHost(n) \/ Invalidate(n)
  \/ ResumeInvalidated
  \/ \E t \in Types, key \in Keys, content \in Contents \cup {None} : Begin(t, key, content)
  \/ BindReceipt \/ WriteArtifact \/ WriteAssets \/ Commit \/ Crash
Spec == Init /\ [][Next]_vars

-----------------------------------------------------------------------------
\* Types of the files and of the call.
Calls == committed \cup ({call} \ {None})
TypeOK ==
  /\ status \in [Nodes -> {"PENDING", "READY", "RUNNING", "VERIFIED", "INVALIDATED"}]
  /\ attempt \in [Nodes -> 0 .. MaxAttempts]
  /\ current \in [Types -> committed \cup {None}]
  /\ DOMAIN receipts = Keys /\ DOMAIN artifacts = References /\ DOMAIN assets = References
  /\ \A c \in Calls : c.key \in Keys /\ c.request.type \in Types /\ c.ref \in References
  /\ at \in {"idle", "receipt", "artifact", "assets", "manifest"}
  /\ at = "idle" <=> call = None
  /\ crashes \in 0 .. MaxCrashes

\* Whatever fails, crashes or is invalidated, what the Manifest names stays
\* loadable: its document, assets and receipt are those of one request, its node is
\* verified, and what it was computed from is itself effective
\* (validate_staged_runtime_resume, run by every load_run).
CommittedLoadable == Loadable

\* A key makes at most one result effective and a reference names one result:
\* a repeated or a competing call never replaces a document in place.
OnceOnly ==
  \A c, d \in committed : c.key = d.key \/ c.ref = d.ref => c.request = d.request /\ c.ref = d.ref

\* What a commit that was cut short leaves: a document without its commit.  Its
\* call is repeatable while its Attempt is open and its inputs are the current ones.
Uncommitted(ref) == \A c \in committed : c.ref # ref
Left(ref) == artifacts[ref] \notin {None, Torn} /\ Uncommitted(ref)
Repeatable(request) ==
  /\ AttemptOpen(request.type) /\ request.attempt = attempt[Producer[request.type]]
  /\ InputsAvailable(request.type) /\ request.inputs = Inputs(request.type)
\* The call repeated with a key is refused at no step up to the Manifest.
Finishes(key, request) ==
  LET t == request.type
      ref == NextRef(t)
  IN /\ KeyUnused(key) /\ BaseMatches(t) /\ ref \in DOMAIN artifacts
     /\ Accepts(receipts[key], [request |-> request, ref |-> ref])
     /\ Accepts(artifacts[ref], request)
     /\ t \in WithAssets => Accepts(assets[ref], request)

\* A commit that was cut short after its Artifact can be finished by the same call
\* exactly when its assets are not cut off.  A file that is cut off is refused like
\* any that differs (_write_immutable_bytes): the call of torn assets, and every
\* call whose Artifact would have the reference of a torn one, is refused for good.
InterruptedFinishesUnlessTorn ==
  at = "idle" =>
    /\ \A ref \in References :
         LET request == artifacts[ref] IN
           Left(ref) /\ Repeatable(request) =>
             ((\E key \in Keys : Finishes(key, request)) <=>
                (request.type \in WithAssets => assets[ref] # Torn))
    /\ \A t \in Types : \A content \in ContentsOf(t), key \in Keys :
         InputsAvailable(t) /\ NextRef(t) \in References /\ artifacts[NextRef(t)] = Torn =>
           ~ Finishes(key, Request(t, content))
=============================================================================
