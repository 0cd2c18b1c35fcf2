----------------------------- MODULE RunStorage -----------------------------
(***************************************************************************)
(* The directory of one Run and the commit of a mutation to it             *)
(* (storage.py, _persist of kernel.py), one durable write per step and a   *)
(* crash between any two.  A Snapshot is what its readers can tell of it   *)
(* here: the mutations it was computed from; its state_version is their    *)
(* number.                                                                 *)
(***************************************************************************)
EXTENDS Naturals, Sequences, FiniteSets

CONSTANTS
  Mutations,              \* the operations that change the Run
  None,                   \* no file, no value
  Torn,                   \* a file cut off by a crash
  Sourced,                \* mutations that write a Source Index first
  Gated,                  \* open_human_gate and MODIFY: a file per version first
  Decided,                \* submit_gate_decision: an entry of the Decision Log
  Staged,                 \* mutations that take up the Events of an earlier try
  EventsOf,               \* [Mutations -> Nat], the Events of each
  TornWrites,             \* may a crash cut off a file that is being written
  MaxVersion, MaxCrashes  \* bounds

ASSUME MutationAssumption ==
  /\ Sourced \cup Gated \cup Decided \cup Staged \subseteq Mutations
  /\ Sourced \cap Gated = {}
  /\ "index" \notin Gated    \* an operation is no file name
  /\ EventsOf \in [Mutations -> Nat \ {0}]
ASSUME BoundAssumption ==
  MaxVersion \in Nat \ {0} /\ MaxCrashes \in Nat /\ TornWrites \in BOOLEAN

VARIABLES
  \* the directory
  snapshots,              \* runtime/snapshots/<version>.json
  state_file,             \* runtime/state.json
  manifest,               \* runtime/current-manifest.json
  events,                 \* the complete lines of runtime/event-log.jsonl
  decisions,              \* those of runtime/decision-log.jsonl
  side,                   \* version-named files written ahead of a commit
  torn_logs,              \* logs whose last line is cut off
  \* the one writer
  at,                     \* its next write, or "idle"
  phase,                  \* "create", "mutation", or the "result" of a request
  mutation,
  next,                   \* the Snapshot being committed
  audited,                \* how many of its Events are in the log
  crashes

directory == <<snapshots, state_file, manifest, events, decisions, side, torn_logs>>
writer == <<at, phase, mutation, next, audited>>
storageVars == <<directory, writer, crashes>>

Versions == 0 .. MaxVersion
Snapshots == UNION {[1 .. version -> Mutations] : version \in Versions}
ASSUME ValueAssumption ==
  /\ None # Torn /\ None \notin Mutations /\ None \notin Versions
  /\ \A s \in Snapshots \cup SUBSET Mutations : s # None /\ s # Torn

\* A Source Index is known by the mutations whose sources it lists.
SideNames == ({"identity", "index"} \cup Gated) \X Versions
Steps == {"idle", "side", "tail", "audit", "decide", "snapshot", "state", "manifest", "ledger"}

-----------------------------------------------------------------------------
\* _manifest and load_snapshot.
Created == manifest.version # None
Version == manifest.version
Committed == IF Created THEN snapshots[Version] ELSE None
Loadable == Created /\ Committed # Torn

\* read_source_index: the newest one not newer than the version.
NewestIndex(version) ==
  {v \in 1 .. version : /\ side[<<"index", v>>] # None
                        /\ \A u \in v + 1 .. version : side[<<"index", u>>] = None}
EffectiveIndex(version) ==
  IF NewestIndex(version) = {} THEN {}
  ELSE side[<<"index", CHOOSE v \in NewestIndex(version) : TRUE>>]

Event(m, part) == [version |-> Len(next), mutation |-> m, part |-> part]
Parts == IF phase = "mutation" THEN EventsOf[mutation] ELSE 1
\* What the Event Log says of a commit besides its mutations.
Label == IF phase = "mutation" THEN mutation ELSE None
UncommittedEvents == SubSeq(events, manifest.offset + 1, Len(events))

GoTo(step) == at' = step /\ UNCHANGED <<phase, mutation, next>>
Refuse == at' = "idle" /\ phase' = "none" /\ mutation' = None /\ next' = None /\ audited' = 0

-----------------------------------------------------------------------------
\* A mutation starts: the Kernel loads the committed Snapshot and computes the
\* next one from it, before anything is written.
StartFromStateFile(m) ==                                         \* mutant
  /\ at = "idle" /\ Loadable /\ Version < MaxVersion
  /\ at' = "side" /\ phase' = "mutation"
  /\ mutation' = m /\ next' = Append(state_file, m) /\ audited' = 0
  /\ UNCHANGED <<directory, crashes>>
StartMutation(m) ==
  /\ at = "idle" /\ Loadable /\ Version < MaxVersion
  /\ at' = "side" /\ phase' = "mutation"
  /\ mutation' = m /\ next' = Append(Committed, m) /\ audited' = 0
  /\ UNCHANGED <<directory, crashes>>

\* What is written ahead: write_creation_identity and write_source_index tolerate
\* the identical document, write_gate_request and write_gate_modification none.
SideFile ==
  CASE phase = "create"     -> <<"identity", 0>>
    [] mutation \in Sourced -> <<"index", Len(next)>>
    [] OTHER                -> <<mutation, Len(next)>>
DocumentOfOne == {mutation} \ {None}                            \* mutant
SideDocument ==
  IF mutation \in Sourced THEN EffectiveIndex(Len(next) - 1) \cup {mutation}
                          ELSE {mutation} \ {None}
WritesAhead == phase = "create" \/ mutation \in Sourced \cup Gated
WritesNow ==
  /\ at = "side" /\ WritesAhead
  /\ mutation \in Sourced => EffectiveIndex(Len(next) - 1) # Torn
  /\ side[SideFile] = None
WriteSide ==
  /\ WritesNow
  /\ side' = [side EXCEPT ![SideFile] = SideDocument]
  /\ GoTo("tail")
  /\ UNCHANGED <<snapshots, state_file, manifest, events, decisions, torn_logs, audited, crashes>>
KeepSide ==
  /\ at = "side"
  /\ WritesAhead =>
       /\ mutation \notin Gated
       /\ mutation \in Sourced => EffectiveIndex(Len(next) - 1) # Torn
       /\ side[SideFile] = SideDocument
  /\ GoTo("tail")
  /\ UNCHANGED <<directory, audited, crashes>>
RefuseSide ==
  /\ at = "side" /\ WritesAhead
  /\ \/ mutation \in Sourced /\ EffectiveIndex(Len(next) - 1) = Torn
     \/ side[SideFile] # None /\ (mutation \in Gated \/ side[SideFile] # SideDocument)
  /\ Refuse
  /\ UNCHANGED <<directory, crashes>>

\* _persist begins.  Only a staged mutation looks for its own Events past the
\* committed offset; every reading of the log fails on a cut off line.
OwnTail ==
  /\ Len(UncommittedEvents) <= Parts
  /\ \A i \in 1 .. Len(UncommittedEvents) : UncommittedEvents[i] = Event(Label, i)
ReadTailUncompared ==                                            \* mutant
  /\ at = "tail" /\ "events" \notin torn_logs
  /\ audited' = IF phase = "mutation" /\ mutation \in Staged /\ Len(UncommittedEvents) <= Parts THEN Len(UncommittedEvents) ELSE 0
  /\ GoTo("audit")
  /\ UNCHANGED <<directory, crashes>>
ReadTail ==
  /\ at = "tail" /\ "events" \notin torn_logs
  /\ phase = "mutation" /\ mutation \in Staged => OwnTail
  /\ audited' = IF phase = "mutation" /\ mutation \in Staged THEN Len(UncommittedEvents) ELSE 0
  /\ GoTo("audit")
  /\ UNCHANGED <<directory, crashes>>
RefuseTail ==
  /\ at = "tail"
  /\ "events" \in torn_logs \/ (phase = "mutation" /\ mutation \in Staged /\ ~OwnTail)
  /\ Refuse
  /\ UNCHANGED <<directory, crashes>>

AppendEvent ==
  /\ at = "audit" /\ audited < Parts
  /\ events' = Append(events, Event(Label, audited + 1))
  /\ audited' = audited + 1
  /\ UNCHANGED <<snapshots, state_file, manifest, decisions, side, torn_logs,
                 at, phase, mutation, next, crashes>>
AuditDone ==
  /\ at = "audit" /\ audited = Parts
  /\ GoTo(IF phase = "mutation" /\ mutation \in Decided THEN "decide" ELSE "snapshot")
  /\ UNCHANGED <<directory, audited, crashes>>
\* The Decision Log is appended to unread: what follows a cut off line is lost in it.
Logged(offset) ==
  IF "decisions" \in torn_logs THEN decisions
  ELSE Append(decisions, [event_offset |-> offset, mutation |-> mutation, version |-> Len(next)])
AppendDecisionAtCommitted ==                                     \* mutant
  /\ at = "decide"
  /\ decisions' = Logged(manifest.offset)
  /\ GoTo("snapshot")
  /\ UNCHANGED <<snapshots, state_file, manifest, events, side, torn_logs, audited, crashes>>
AppendDecision ==
  /\ at = "decide"
  /\ decisions' = Logged(Len(events))
  /\ GoTo("snapshot")
  /\ UNCHANGED <<snapshots, state_file, manifest, events, side, torn_logs, audited, crashes>>

\* commit_snapshot: a Snapshot file that is there stays.
WriteSnapshot ==
  /\ at = "snapshot"
  /\ snapshots' = [snapshots EXCEPT ![Len(next)] = IF @ = None THEN next ELSE @]
  /\ GoTo("state")
  /\ UNCHANGED <<state_file, manifest, events, decisions, side, torn_logs, audited, crashes>>
ReplaceStateByFile ==                                            \* mutant
  /\ at = "state"
  /\ state_file' = snapshots[Len(next)]
  /\ GoTo("manifest")
  /\ UNCHANGED <<snapshots, manifest, events, decisions, side, torn_logs, audited, crashes>>
ReplaceState ==
  /\ at = "state"
  /\ state_file' = next
  /\ GoTo("manifest")
  /\ UNCHANGED <<snapshots, manifest, events, decisions, side, torn_logs, audited, crashes>>
ReplaceManifest ==
  /\ at = "manifest"
  /\ manifest' = [version |-> Len(next), offset |-> Len(events)]
  /\ UNCHANGED <<snapshots, state_file, events, decisions, side, torn_logs, crashes>>

-----------------------------------------------------------------------------
\* What a crash may leave of the write it interrupts: the atomic replacements
\* nothing, the files written in place and the appended lines a torn one.
TearFile ==
  \/ /\ WritesNow
     /\ side' = [side EXCEPT ![SideFile] = Torn]
     /\ UNCHANGED <<snapshots, torn_logs>>
  \/ /\ at = "snapshot" /\ snapshots[Len(next)] = None
     /\ snapshots' = [snapshots EXCEPT ![Len(next)] = Torn]
     /\ UNCHANGED <<side, torn_logs>>
  \/ /\ at \in {"audit", "decide", "ledger"}
     /\ at = "audit" => audited < Parts
     /\ torn_logs' = torn_logs \cup
          {CASE at = "audit" -> "events" [] at = "decide" -> "decisions"
             [] at = "ledger" -> IF phase = "create" THEN "creations" ELSE "requests"}
     /\ UNCHANGED <<side, snapshots>>
Crash ==
  /\ at # "idle" /\ crashes < MaxCrashes
  /\ crashes' = crashes + 1
  /\ Refuse
  /\ \/ UNCHANGED <<snapshots, side, torn_logs>>
     \/ TornWrites /\ TearFile
  /\ UNCHANGED <<state_file, manifest, events, decisions>>

\* recover_run: the cached state file is brought back to the committed Snapshot.
Recover ==
  /\ at = "idle" /\ Loadable /\ state_file # Committed
  /\ state_file' = Committed
  /\ UNCHANGED <<snapshots, manifest, events, decisions, side, torn_logs, writer, crashes>>

StorageInit ==
  /\ snapshots = [v \in Versions |-> None]
  /\ state_file = None /\ manifest = [version |-> None, offset |-> 0]
  /\ events = <<>> /\ decisions = <<>>
  /\ side = [name \in SideNames |-> None]
  /\ torn_logs = {}
  /\ at = "idle" /\ phase = "none" /\ mutation = None /\ next = None /\ audited = 0
  /\ crashes = 0
=============================================================================
