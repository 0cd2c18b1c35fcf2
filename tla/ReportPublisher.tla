--------------------------- MODULE ReportPublisher ---------------------------
(***************************************************************************)
(* _IsolatedReportStore of report_publisher.py: immutable Bundle           *)
(* directories, the pointer to the current one, and one record per         *)
(* idempotency key.  Nothing is locked: every read and every durable write *)
(* of a call is a step, several publishers interleave, and a crash between *)
(* two steps leaves the files.                                             *)
(* A request is a record; its request_hash and result_identity are the     *)
(* record itself.  The Reports of one Run are versions of one Artifact id. *)
(***************************************************************************)
EXTENDS Naturals, Sequences, FiniteSets

CONSTANTS
  Publishers,               \* callers of publish and replay
  Requests,                 \* records with key, version and base
  None,                     \* no file, no request
  Torn,                     \* a record file cut off by a crash
  CommitAttempts,           \* _DIRECTORY_COMMIT_ATTEMPTS
  MaxCrashes                \* bound

ASSUME RequestAssumption ==
  /\ \A r \in Requests : r.version \in Nat \ {0} /\ r.base \in Nat
  /\ None \notin Requests /\ Torn \notin Requests /\ None # Torn
ASSUME BoundAssumption == CommitAttempts \in Nat \ {0} /\ MaxCrashes \in Nat

VARIABLES
  bundles,                  \* report-bundles/<ref>/ by version
  pointer,                  \* runtime/current-report.json
  records,                  \* runtime/report-publications/<key>.json
  staging,                  \* .staging/<ref>-<uuid>/ of each publisher
  at,                       \* the next step of each publisher, or "idle"
  call,                     \* the request it serves
  replaying,                \* is the call a replay
  attempts,                 \* os.replace calls that were denied
  reply,                    \* the request whose pointer it was last given
  crashes,
  lineage                   \* history: the requests that have been current

store == <<bundles, pointer, records>>
caller == <<staging, at, call, replaying, attempts, reply>>
vars == <<store, caller, crashes, lineage>>

NoBase == 0                 \* expected_base_report_ref = None
Keys == {r.key : r \in Requests}
Versions == {r.version : r \in Requests}
Files == {"competitor-report.html", "visualizations", "inventory.json"}
Bundle == [request : Requests, files : SUBSET Files]
ASSUME BundleAssumption == None \notin Bundle
Steps == {"idle", "record?", "confirm", "current?", "claim", "html", "assets", "inventory",
          "rename", "pointer", "record"}

GoTo(p, step) == at' = [at EXCEPT ![p] = step]
\* The call ends, with the pointer of r or with an exception or nothing (None).
Return(p, r) ==
  /\ GoTo(p, "idle")
  /\ call' = [call EXCEPT ![p] = None]
  /\ staging' = [staging EXCEPT ![p] = {}]
  /\ reply' = [reply EXCEPT ![p] = r]
  /\ UNCHANGED <<replaying, attempts>>
Refuse(p) == Return(p, None)
Proceed(p, step) == GoTo(p, step) /\ UNCHANGED <<staging, call, replaying, attempts, reply>>

\* current_report: the pointer is trusted only with the complete Bundle it names.
Complete(r) == bundles[r.version] = [request |-> r, files |-> Files]
CurrentReadable == pointer # None => Complete(pointer)
CurrentRef == IF pointer = None THEN NoBase ELSE pointer.version

-----------------------------------------------------------------------------
\* publish and replay of ImmutableReportBundlePublisher, and the checks of the
\* request by itself: a successor increments its base.
Start(p, r, replay) ==
  /\ at[p] = "idle"
  /\ replay \/ r.base = NoBase \/ r.version = r.base + 1
  /\ GoTo(p, "record?")
  /\ call' = [call EXCEPT ![p] = r]
  /\ replaying' = [replaying EXCEPT ![p] = replay]
  /\ attempts' = [attempts EXCEPT ![p] = 0]
  /\ reply' = [reply EXCEPT ![p] = None]
  /\ UNCHANGED <<store, staging, crashes, lineage>>

\* publication_record of the key: another request's is a conflict.
LookUpRecord(p) ==
  /\ at[p] = "record?"
  /\ LET record == records[call[p].key] IN
       \/ record = None /\ Proceed(p, "current?")
       \/ record = call[p] /\ Proceed(p, "confirm")
       \/ record \notin {None, call[p]} /\ Refuse(p)
  /\ UNCHANGED <<store, crashes, lineage>>

\* A recorded result is returned only while it is the current one.
ConfirmRecord(p) ==
  /\ at[p] = "confirm"
  /\ \/ pointer = call[p] /\ CurrentReadable /\ Return(p, call[p])
     \/ (pointer # call[p] \/ ~ CurrentReadable) /\ Refuse(p)
  /\ UNCHANGED <<store, crashes, lineage>>

\* recover_publication_record: the current Report is of the key, its record is
\* missing; otherwise the compare of the compare-and-set.
SameKey(p) == pointer # None /\ pointer.key = call[p].key
BaseUnchecked(p) == TRUE                                          \* mutant
InitialOnly(p) == call[p].base = NoBase /\ pointer = None         \* mutant
BaseIsCurrent(p) == call[p].base = CurrentRef
ReadCurrent(p) ==
  /\ at[p] = "current?"
  /\ \/ ~ CurrentReadable /\ Refuse(p)
     \/ CurrentReadable /\ SameKey(p) /\ pointer = call[p] /\ Proceed(p, "record")
     \/ CurrentReadable /\ SameKey(p) /\ pointer # call[p] /\ Refuse(p)
     \/ CurrentReadable /\ ~ SameKey(p) /\ ~ replaying[p] /\ BaseIsCurrent(p) /\ Proceed(p, "claim")
     \/ CurrentReadable /\ ~ SameKey(p) /\ (replaying[p] \/ ~ BaseIsCurrent(p)) /\ Refuse(p)
  /\ UNCHANGED <<store, crashes, lineage>>

\* An existing version directory refuses the call; else the staging directory
\* of the call is made, under a name of its own.
ClaimVersion(p) ==
  /\ at[p] = "claim"
  /\ \/ bundles[call[p].version] # None /\ Refuse(p)
     \/ bundles[call[p].version] = None /\ Proceed(p, "html")
  /\ UNCHANGED <<store, crashes, lineage>>

StageFile(p, step, file, following) ==
  /\ at[p] = step
  /\ staging' = [staging EXCEPT ![p] = @ \cup {file}]
  /\ GoTo(p, following)
  /\ UNCHANGED <<store, call, replaying, attempts, reply, crashes, lineage>>
StageHtml(p) == StageFile(p, "html", "competitor-report.html", "assets")
StageAssets(p) == StageFile(p, "assets", "visualizations", "inventory")
StageInventory(p) == StageFile(p, "inventory", "inventory.json", "rename")

\* _commit_staging_directory: the rename takes place only where no directory is.
ReplaceDirectory(p) ==                                            \* mutant
  bundles' = [bundles EXCEPT ![call[p].version] = [request |-> call[p], files |-> staging[p]]]
MoveDirectory(p) ==
  /\ bundles[call[p].version] = None
  /\ bundles' = [bundles EXCEPT ![call[p].version] = [request |-> call[p], files |-> staging[p]]]
RenameAndRecord(p) ==                                             \* mutant
  /\ at[p] = "rename"
  /\ MoveDirectory(p)
  /\ staging' = [staging EXCEPT ![p] = {}]
  /\ GoTo(p, "record")
  /\ UNCHANGED <<pointer, records, call, replaying, attempts, reply, crashes, lineage>>
Rename(p) ==
  /\ at[p] = "rename"
  /\ MoveDirectory(p)
  /\ staging' = [staging EXCEPT ![p] = {}]
  /\ GoTo(p, "pointer")
  /\ UNCHANGED <<pointer, records, call, replaying, attempts, reply, crashes, lineage>>
DeniedOnceMore(p) ==                                              \* mutant
  /\ at[p] = "rename"
  /\ \/ /\ bundles[call[p].version] = None /\ attempts[p] + 1 <= CommitAttempts
        /\ attempts' = [attempts EXCEPT ![p] = @ + 1]
        /\ UNCHANGED <<staging, at, call, replaying, reply>>
     \/ (bundles[call[p].version] # None \/ attempts[p] + 1 = CommitAttempts) /\ Refuse(p)
  /\ UNCHANGED <<store, crashes, lineage>>
RenameDenied(p) ==
  /\ at[p] = "rename"
  /\ \/ /\ bundles[call[p].version] = None /\ attempts[p] + 1 < CommitAttempts
        /\ attempts' = [attempts EXCEPT ![p] = @ + 1]
        /\ UNCHANGED <<staging, at, call, replaying, reply>>
     \/ (bundles[call[p].version] # None \/ attempts[p] + 1 = CommitAttempts) /\ Refuse(p)
  /\ UNCHANGED <<store, crashes, lineage>>

\* _atomic_json of the pointer: the commit.
WritePointer(p) ==
  /\ at[p] = "pointer"
  /\ pointer' = call[p]
  /\ lineage' = Append(lineage, call[p])
  /\ Proceed(p, "record")
  /\ UNCHANGED <<bundles, records, crashes>>

\* _write_immutable_json: raises where the record is there by now.
WriteRecord(p) ==
  /\ at[p] = "record"
  /\ \/ /\ records[call[p].key] = None
        /\ records' = [records EXCEPT ![call[p].key] = call[p]]
        /\ Return(p, call[p])
     \/ records[call[p].key] # None /\ Refuse(p) /\ UNCHANGED records
  /\ UNCHANGED <<bundles, pointer, crashes, lineage>>

\* The process dies; a record being written stays cut off.
TornRecords(p) ==
  IF at[p] = "record" /\ records[call[p].key] = None
  THEN {records, [records EXCEPT ![call[p].key] = Torn]} ELSE {records}
Crash(p) ==
  /\ at[p] # "idle" /\ crashes < MaxCrashes
  /\ crashes' = crashes + 1
  /\ records' \in TornRecords(p)
  /\ Refuse(p)
  /\ UNCHANGED <<bundles, pointer, lineage>>

-----------------------------------------------------------------------------
Init ==
  /\ bundles = [v \in Versions |-> None] /\ pointer = None
  /\ records = [k \in Keys |-> None]
  /\ staging = [p \in Publishers |-> {}]
  /\ at = [p \in Publishers |-> "idle"] /\ call = [p \in Publishers |-> None]
  /\ replaying = [p \in Publishers |-> FALSE] /\ attempts = [p \in Publishers |-> 0]
  /\ reply = [p \in Publishers |-> None]
  /\ crashes = 0 /\ lineage = <<>>

\* One step of a call that is under way.
Continue(p) ==
  \/ LookUpRecord(p) \/ ConfirmRecord(p) \/ ReadCurrent(p) \/ ClaimVersion(p)
  \/ StageHtml(p) \/ StageAssets(p) \/ StageInventory(p)
  \/ Rename(p) \/ RenameDenied(p) \/ WritePointer(p) \/ WriteRecord(p)
Next ==
  \E p \in Publishers :
    \/ \E r \in Requests, replay \in BOOLEAN : Start(p, r, replay)
    \/ Continue(p)
    \/ Crash(p)

\* A call runs to its end, a denied rename is transient (the comment of
\* _commit_staging_directory), and whoever wants a publication asks again.
Fairness ==
  /\ \A p \in Publishers : WF_vars(Continue(p)) /\ SF_vars(Rename(p))
  /\ \A r \in Requests : SF_vars(\E p \in Publishers : Start(p, r, FALSE))
Spec == Init /\ [][Next]_vars
FairSpec == Spec /\ Fairness

-----------------------------------------------------------------------------
\* Types of the files and of the calls.
TypeOK ==
  /\ bundles \in [Versions -> Bundle \cup {None}]
  /\ pointer \in Requests \cup {None}
  /\ records \in [Keys -> Requests \cup {None, Torn}]
  /\ staging \in [Publishers -> SUBSET Files]
  /\ at \in [Publishers -> Steps]
  /\ call \in [Publishers -> Requests \cup {None}]
  /\ \A p \in Publishers : at[p] = "idle" <=> call[p] = None
  /\ replaying \in [Publishers -> BOOLEAN]
  /\ attempts \in [Publishers -> 0 .. CommitAttempts - 1]
  /\ reply \in [Publishers -> Requests \cup {None}]
  /\ crashes \in 0 .. MaxCrashes
  /\ lineage \in Seq(Requests)

\* Whatever crashes and whoever interferes, the pointer names a Bundle that
\* holds every file of the very request it was published for, so that
\* current_report accepts it; and all earlier Reports are still in place.
PublishedComplete ==
  /\ \A i \in 1 .. Len(lineage) : Complete(lineage[i])
  /\ pointer = IF lineage = <<>> THEN None ELSE lineage[Len(lineage)]

\* A record never precedes its publication, and no caller is told of a Report
\* that has not been current.
Published(r) == \E i \in 1 .. Len(lineage) : lineage[i] = r
NothingClaimedEarly ==
  /\ \A k \in Keys : records[k] \in Requests => records[k].key = k /\ Published(records[k])
  /\ \A p \in Publishers : reply[p] # None => Published(reply[p])

\* The Reports that have been current form one line of versions, although
\* nothing is locked between the compare and the set.
Lineage == INSTANCE ReportLineage
ImplementsLineage == Lineage!Spec

\* Publication goes on: unless every request for the next version meets a
\* Bundle that a crash has left between its rename and the pointer, some
\* request becomes the next current Report.
Orphaned(version) ==
  /\ bundles[version] # None /\ ~ (pointer # None /\ pointer.version = version)
  /\ \A p \in Publishers : at[p] = "pointer" => call[p].version # version
PublicationGoesOn ==
  \A base \in {r.base : r \in Requests} :
    CurrentRef = base ~>
      (CurrentRef # base \/ \A r \in Requests : r.base = base => Orphaned(r.version))
=============================================================================
