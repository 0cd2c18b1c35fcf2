--------------------------- MODULE RunOperations ---------------------------
(***************************************************************************)
(* The operation boundary of one Run (operations.py): envelopes with an    *)
(* idempotency key and an expected_state_version, the ledger of their      *)
(* answers, and the host's own mutations beside them, all over RunStorage. *)
(***************************************************************************)
EXTENDS RunStorage

CONSTANT Requests         \* mutations that come in an envelope, each with its own key

ASSUME RequestAssumption == Requests \subseteq Mutations

VARIABLES
  created,                \* the create-idempotency-log has the creation's answer
  ledger,                 \* the keys in runtime/idempotency-log.jsonl
  envelope,               \* expected_state_version of the envelope, which its
                          \* client repeats unchanged
  answer                  \* the last answer to it

requestVars == <<created, ledger, envelope, answer>>
vars == <<storageVars, requestVars>>

-----------------------------------------------------------------------------
\* _create: a creation that was cut short starts over, one that was committed
\* only gets its answer.
Create ==
  /\ at = "idle" /\ "creations" \notin torn_logs /\ ~created
  /\ phase' = "create" /\ mutation' = None /\ next' = <<>> /\ audited' = 0
  /\ IF ~Created THEN at' = "side" ELSE Loadable /\ at' = "ledger"
  /\ UNCHANGED <<directory, crashes, requestVars>>

\* _mutate: the ledger first, then the state version, then the mutation.
AcceptUnchecked(m, expected) ==                                  \* mutant
  /\ "requests" \notin torn_logs /\ m \notin ledger
  /\ StartMutation(m)
  /\ envelope' = [envelope EXCEPT ![m] = expected]
  /\ UNCHANGED <<created, ledger, answer>>
Accept(m, expected) ==
  /\ "requests" \notin torn_logs /\ m \notin ledger
  /\ expected = Version
  /\ StartMutation(m)
  /\ envelope' = [envelope EXCEPT ![m] = expected]
  /\ UNCHANGED <<created, ledger, answer>>
RefuseVersion(m, expected) ==
  /\ at = "idle" /\ "requests" \notin torn_logs /\ m \notin ledger
  /\ Loadable /\ expected # Version
  /\ envelope' = [envelope EXCEPT ![m] = expected]
  /\ answer' = [answer EXCEPT ![m] = "conflict"]
  /\ UNCHANGED <<storageVars, created, ledger>>
Replay(m) ==
  /\ at = "idle" /\ "requests" \notin torn_logs /\ m \in ledger
  /\ answer' = [answer EXCEPT ![m] = "ok"]
  /\ UNCHANGED <<storageVars, created, ledger, envelope>>
\* A client knows some committed version and writes it in its envelope.
Dispatch(m) ==
  \/ Created /\ \E expected \in 0 .. Version :
       /\ envelope[m] \in {None, expected}
       /\ Accept(m, expected) \/ RefuseVersion(m, expected)
  \/ Replay(m)

\* The host's own mutations (Executor results, Gates it opens) have no envelope.
HostMutation(m) == m \notin Requests /\ StartMutation(m) /\ UNCHANGED requestVars

\* After the Manifest a request goes on: record_persisted_operation_result loads
\* the Run and commits it once more with an Event of its own, then the ledger.
Commit ==
  /\ ReplaceManifest
  /\ UNCHANGED requestVars
  /\ \/ /\ phase = "mutation" /\ mutation \in Requests /\ snapshots[Len(next)] # Torn
        /\ at' = "tail" /\ phase' = "result" /\ next' = snapshots[Len(next)]
        /\ audited' = 0 /\ UNCHANGED mutation
     \/ /\ phase = "mutation" /\ (mutation \in Requests => snapshots[Len(next)] = Torn)
        /\ Refuse
     \/ phase \in {"create", "result"} /\ GoTo("ledger") /\ UNCHANGED audited
RecordAnswer ==
  /\ at = "ledger"
  /\ created' = (created \/ phase = "create")
  /\ ledger' = ledger \cup ({mutation} \ {None})
  /\ answer' = [m \in Requests |-> IF m = mutation THEN "ok" ELSE answer[m]]
  /\ Refuse
  /\ UNCHANGED <<directory, crashes, envelope>>

Writing ==
  /\ \/ WriteSide \/ KeepSide \/ RefuseSide
     \/ ReadTail \/ RefuseTail \/ AppendEvent \/ AuditDone \/ AppendDecision
     \/ WriteSnapshot \/ ReplaceState
     \/ Crash \/ Recover
  /\ UNCHANGED requestVars

Init ==
  /\ StorageInit
  /\ created = FALSE /\ ledger = {}
  /\ envelope = [m \in Requests |-> None]
  /\ answer = [m \in Requests |-> "none"]
Next ==
  \/ Create \/ Commit \/ RecordAnswer \/ Writing
  \/ \E m \in Requests : Dispatch(m)
  \/ \E m \in Mutations : HostMutation(m)
Spec == Init /\ [][Next]_vars

-----------------------------------------------------------------------------
RequestsTyped ==
  /\ ledger \subseteq Requests /\ created \in BOOLEAN
  /\ envelope \in [Requests -> {None} \cup Versions]
  /\ answer \in [Requests -> {"none", "ok", "conflict"}]
\* The directory and the writer keep their types, torn files included.
TypeOK ==
  /\ snapshots \in [Versions -> {None, Torn} \cup Snapshots]
  /\ state_file \in {None} \cup Snapshots
  /\ manifest \in [version : {None} \cup Versions, offset : Nat]
  /\ events \in Seq([version : Versions, mutation : Mutations \cup {None}, part : Nat])
  /\ decisions \in Seq([event_offset : Nat, mutation : Mutations, version : Versions])
  /\ side \in [SideNames -> {None, Torn} \cup SUBSET Mutations]
  /\ torn_logs \subseteq {"events", "decisions", "requests", "creations"}
  /\ at \in Steps /\ phase \in {"none", "create", "mutation", "result"}
  /\ mutation \in Mutations \cup {None} /\ next \in {None} \cup Snapshots
  /\ audited \in Nat /\ crashes \in 0 .. MaxCrashes
  /\ RequestsTyped

\* The committed state only ever grows, one whole mutation at a time, whatever
\* crashes and whatever an interrupted commit has left behind; only a torn
\* Snapshot file makes it unreadable.
History == INSTANCE RunHistory WITH history <- Committed
ImplementsHistory == History!Spec

\* A request has its effect once, however often its client repeats it and
\* wherever the crash was that made it do so.
AppliedOnce ==
  Committed \notin {None, Torn} =>
    \A m \in Requests : \A i, j \in DOMAIN Committed : Committed[i] = m /\ Committed[j] = m => i = j

\* Every mutation the committed state was made by has all its Events within the
\* committed part of the log, those of adopted Snapshots included.
AuditComplete ==
  Committed \notin {None, Torn} =>
    \A v \in DOMAIN Committed : \A part \in 1 .. EventsOf[Committed[v]] :
      \E i \in 1 .. manifest.offset :
        events[i] = [version |-> v, mutation |-> Committed[v], part |-> part]

\* Every entry of the Decision Log points to an Event of the decision it records.
DecisionsLinked ==
  \A i \in DOMAIN decisions :
    LET d == decisions[i] IN
    d.event_offset \in DOMAIN events /\
    events[d.event_offset].mutation = d.mutation /\ events[d.event_offset].version = d.version

\* The Source Index a reader of the committed state gets lists the sources of
\* every mutation that brought some.
SourcesComplete ==
  Committed \notin {None, Torn} /\ EffectiveIndex(Version) # Torn =>
    \A v \in DOMAIN Committed : Committed[v] \in Sourced => Committed[v] \in EffectiveIndex(Version)

\* The Manifest always points to a Snapshot that can be loaded.
CommittedReadable == Committed # Torn
=============================================================================
