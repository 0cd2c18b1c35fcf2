------------------------ MODULE ReportPublisherProofs ------------------------
(***************************************************************************)
(* The Report store, for any publishers and requests and any number of     *)
(* crashes: a published Bundle is complete, nothing is claimed before it   *)
(* is published, and the Reports that have been current are one line.      *)
(* The last needs an argument, as the compare and the set are steps far    *)
(* apart: whoever passed the compare (Underway) still has the current      *)
(* Report for its base or finds the directory of its version taken, and of *)
(* all who won their directory only one can be at the pointer.             *)
(***************************************************************************)
EXTENDS ReportPublisher, TLAPS

StagedBefore(step) ==
  IF step = "assets" THEN {"competitor-report.html"}
  ELSE IF step = "inventory" THEN {"competitor-report.html", "visualizations"}
  ELSE IF step = "rename" THEN Files ELSE {}
Underway == {"claim", "html", "assets", "inventory", "rename", "pointer"}
Successor(r) == r.base = NoBase \/ r.version = r.base + 1

\* What a caller has staged, and what it may conclude from the step it is at.
CallerOk(p) ==
  /\ staging[p] = StagedBefore(at[p])
  /\ at[p] # "idle" => replaying[p] \/ Successor(call[p])
  /\ at[p] \in Underway => ~ replaying[p]
  /\ at[p] = "pointer" => Complete(call[p])
  /\ at[p] = "record" => Published(call[p])
RepliesTrue == \A p \in Publishers : reply[p] # None => Published(reply[p])
CallerInv == \A p \in Publishers : CallerOk(p)
PublicationInv == TypeOK /\ CallerInv /\ PublishedComplete /\ NothingClaimedEarly

\* The Artifact ids of a Run's Reports have one first version.
OneInitialVersion ==
  \A r, s \in Requests : r.base = NoBase /\ s.base = NoBase => r.version = s.version

\* The compare of a caller under way holds, or its version is taken.
CompareHolds ==
  \A p \in Publishers :
    /\ at[p] \in Underway => BaseIsCurrent(p) \/ bundles[call[p].version] # None
    /\ at[p] = "pointer" => BaseIsCurrent(p)
OneAtPointer ==
  \A p, q \in Publishers :
    at[p] = "pointer" /\ at[q] = "pointer" /\ call[p].version = call[q].version => p = q
LineInv == CompareHolds /\ OneAtPointer

-----------------------------------------------------------------------------
(* What ending a call leaves: the caller idle, the files and the others    *)
(* untouched.                                                              *)
LEMMA ReturnTypes ==
  ASSUME TypeOK, NEW p \in Publishers, NEW r \in Requests \cup {None}, Return(p, r)
  PROVE  /\ staging' \in [Publishers -> SUBSET Files]
         /\ at' \in [Publishers -> Steps]
         /\ call' \in [Publishers -> Requests \cup {None}]
         /\ \A q \in Publishers : at'[q] = "idle" <=> call'[q] = None
         /\ replaying' \in [Publishers -> BOOLEAN]
         /\ attempts' \in [Publishers -> 0 .. CommitAttempts - 1]
         /\ reply' \in [Publishers -> Requests \cup {None}]
BY DEF TypeOK, Return, GoTo, Steps

(* The state of every call is of its type after every step of a call.      *)
LEMMA StepTypes ==
  ASSUME TypeOK, NEW p \in Publishers, Continue(p)
  PROVE  TypeOK'
<1> USE RequestAssumption, BoundAssumption DEF TypeOK
<1>1. at[p] # "idle" => call[p] \in Requests
  OBVIOUS
<1>2. CASE LookUpRecord(p)
  <2>1. CASE Refuse(p)
    BY <1>2, <2>1, ReturnTypes DEF LookUpRecord, Refuse, store
  <2>2. CASE Proceed(p, "current?") \/ Proceed(p, "confirm")
    BY <1>2, <2>2 DEF LookUpRecord, Proceed, GoTo, Steps, store
  <2> QED
    BY <1>2, <2>1, <2>2 DEF LookUpRecord
<1>3. CASE ConfirmRecord(p)
  <2>1. PICK r \in Requests \cup {None} : Return(p, r)
    BY <1>1, <1>3 DEF ConfirmRecord, Refuse
  <2> QED
    BY <1>3, <2>1, ReturnTypes DEF ConfirmRecord, store
<1>4. CASE ReadCurrent(p)
  BY <1>4, ReturnTypes DEF ReadCurrent, Proceed, GoTo, Steps, Refuse, store
<1>5. CASE ClaimVersion(p)
  BY <1>5, ReturnTypes DEF ClaimVersion, Proceed, GoTo, Steps, Refuse, store
<1>6. CASE StageHtml(p) \/ StageAssets(p) \/ StageInventory(p)
  <2>1. PICK file \in Files : staging' = [staging EXCEPT ![p] = @ \cup {file}]
    BY <1>6 DEF StageHtml, StageAssets, StageInventory, StageFile, Files
  <2>2. staging' \in [Publishers -> SUBSET Files]
    BY <2>1
  <2> QED
    BY <1>1, <1>6, <2>2 DEF StageHtml, StageAssets, StageInventory, StageFile, GoTo, Steps, store
<1>7. CASE Rename(p)
  <2>1. bundles' \in [Versions -> Bundle \cup {None}]
    <3>1. call[p] \in Requests /\ staging[p] \in SUBSET Files
      BY <1>1, <1>7 DEF Rename
    <3>2. [request |-> call[p], files |-> staging[p]] \in Bundle
      BY <3>1 DEF Bundle
    <3> HIDE DEF Bundle
    <3> QED
      BY <1>7, <3>2 DEF Rename, MoveDirectory
  <2> QED
    BY <1>1, <1>7, <2>1 DEF Rename, GoTo, Steps
<1>8. CASE RenameDenied(p)
  <2>1. CASE Refuse(p)
    BY <1>8, <2>1, ReturnTypes DEF RenameDenied, Refuse, store
  <2>2. CASE ~ Refuse(p)
    <3>1. attempts[p] + 1 < CommitAttempts /\ attempts' = [attempts EXCEPT ![p] = @ + 1]
      BY <1>8, <2>2 DEF RenameDenied
    <3>2. attempts' \in [Publishers -> 0 .. CommitAttempts - 1]
      BY <3>1
    <3> QED
      BY <1>8, <2>2, <3>2 DEF RenameDenied, store
  <2> QED
    BY <2>1, <2>2
<1>9. CASE WritePointer(p)
  <2>1. lineage' \in Seq(Requests)
    BY <1>1, <1>9 DEF WritePointer
  <2> QED
    BY <1>1, <1>9, <2>1 DEF WritePointer, Proceed, GoTo, Steps
<1>10. CASE WriteRecord(p)
  <2>1. records' \in [Keys -> Requests \cup {None, Torn}]
    BY <1>1, <1>10 DEF WriteRecord
  <2> QED
    BY <1>1, <1>10, <2>1, ReturnTypes DEF WriteRecord, Refuse
<1> QED
  BY <1>2, <1>3, <1>4, <1>5, <1>6, <1>7, <1>8, <1>9, <1>10 DEF Continue

(* The types, for the steps that begin a call or cut it off.               *)
LEMMA BoundaryTypes ==
  ASSUME TypeOK, NEW p \in Publishers,
         Crash(p) \/ \E r \in Requests, replay \in BOOLEAN : Start(p, r, replay)
  PROVE  TypeOK'
<1> USE RequestAssumption, BoundAssumption DEF TypeOK
<1>1. CASE Crash(p)
  <2>1. records' \in [Keys -> Requests \cup {None, Torn}]
    BY <1>1 DEF Crash, TornRecords
  <2> QED
    BY <1>1, <2>1, ReturnTypes DEF Crash, Refuse
<1>2. ASSUME NEW r \in Requests, NEW replay \in BOOLEAN, Start(p, r, replay) PROVE TypeOK'
  BY <1>2 DEF Start, GoTo, Steps, store
<1> QED
  BY <1>1, <1>2

-----------------------------------------------------------------------------
(* What is published stays published when the line grows.                  *)
LEMMA AppendPublishes ==
  ASSUME lineage \in Seq(Requests), NEW s \in Requests, lineage' = Append(lineage, s)
  PROVE  /\ Published(s)'
         /\ \A r : Published(r) => Published(r)'
         /\ \A i \in 1 .. Len(lineage') : lineage'[i] = s \/ \E j \in 1 .. Len(lineage) : lineage'[i] = lineage[j]
         /\ lineage' # <<>> /\ lineage'[Len(lineage')] = s
<1>1. Len(lineage') = Len(lineage) + 1 /\ Len(lineage) \in Nat /\ lineage'[Len(lineage) + 1] = s
  OBVIOUS
<1>2. \A i \in 1 .. Len(lineage) : lineage'[i] = lineage[i]
  OBVIOUS
<1> QED
  BY <1>1, <1>2 DEF Published

(* A step that leaves the directories and the line leaves what is said of  *)
(* them.                                                                   *)
LEMMA StoreStays ==
  ASSUME UNCHANGED <<bundles, pointer, lineage>>
  PROVE  /\ \A r : Complete(r)' <=> Complete(r)
         /\ \A r : Published(r)' <=> Published(r)
         /\ PublishedComplete' <=> PublishedComplete
         /\ CurrentRef' = CurrentRef
<1>1. \A r : Complete(r)' <=> Complete(r)
  BY DEF Complete
<1>2. \A r : Published(r)' <=> Published(r)
  BY DEF Published
<1> QED
  BY <1>1, <1>2 DEF PublishedComplete, CurrentRef

(* A caller that does not move keeps what it may conclude.                 *)
LEMMA OthersKeep ==
  ASSUME NEW q \in Publishers, CallerOk(q),
         at'[q] = at[q], call'[q] = call[q], staging'[q] = staging[q], replaying'[q] = replaying[q],
         at[q] = "pointer" => bundles'[call[q].version] = bundles[call[q].version],
         \A r : Published(r) => Published(r)'
  PROVE  CallerOk(q)'
BY DEF CallerOk, Complete

(* A call that ends: the caller is idle, the others are where they were.   *)
LEMMA ReturnKeeps ==
  ASSUME PublicationInv, NEW p \in Publishers, NEW r \in Requests \cup {None}, Return(p, r),
         r # None => Published(r), UNCHANGED <<bundles, pointer, lineage>>
  PROVE  CallerInv' /\ RepliesTrue'
<1>1. \A s : Published(s)' <=> Published(s)
  BY StoreStays
<1>2. RepliesTrue'
  BY <1>1 DEF Return, PublicationInv, TypeOK, NothingClaimedEarly, RepliesTrue
<1>3. CallerOk(p)'
  BY DEF Return, GoTo, PublicationInv, TypeOK, CallerOk, Underway, StagedBefore
<1>4. ASSUME NEW q \in Publishers \ {p} PROVE CallerOk(q)'
  BY <1>1, <1>4, OthersKeep DEF Return, GoTo, PublicationInv, TypeOK, CallerInv
<1> QED
  BY <1>2, <1>3, <1>4 DEF CallerInv

(* A call that goes on to its next step and writes nothing.                *)
LEMMA ProceedKeeps ==
  ASSUME PublicationInv, NEW p \in Publishers, NEW step \in Steps, Proceed(p, step),
         at[p] # "idle", staging[p] = StagedBefore(step), step \in Underway => ~ replaying[p],
         step # "pointer",
         step = "record" => Published(call[p]), UNCHANGED <<bundles, pointer, lineage>>
  PROVE  CallerInv'
<1>1. \A s : Published(s)' <=> Published(s)
  BY StoreStays
<1>2. CallerOk(p)'
  <2>1. staging' = staging /\ call' = call /\ replaying' = replaying /\ at'[p] = step
    BY DEF Proceed, GoTo, PublicationInv, TypeOK
  <2>2. replaying[p] \/ Successor(call[p])
    BY DEF PublicationInv, CallerInv, CallerOk
  <2> QED
    BY <1>1, <2>1, <2>2 DEF CallerOk
<1>3. ASSUME NEW q \in Publishers \ {p} PROVE CallerOk(q)'
  BY <1>1, <1>3, OthersKeep DEF Proceed, GoTo, PublicationInv, TypeOK, CallerInv
<1> QED
  BY <1>2, <1>3 DEF CallerInv

(* Reading, staging and refusing write none of the shared files.           *)
LEMMA QuietKeeps ==
  ASSUME PublicationInv, NEW p \in Publishers,
         \/ LookUpRecord(p) \/ ConfirmRecord(p) \/ ReadCurrent(p) \/ ClaimVersion(p)
         \/ StageHtml(p) \/ StageAssets(p) \/ StageInventory(p) \/ RenameDenied(p)
  PROVE  CallerInv' /\ PublishedComplete' /\ NothingClaimedEarly'
<1>1. UNCHANGED <<bundles, pointer, records, lineage>>
  BY DEF LookUpRecord, ConfirmRecord, ReadCurrent, ClaimVersion, StageHtml, StageAssets,
         StageInventory, StageFile, RenameDenied, store
<1>2. /\ \A r : Published(r)' <=> Published(r)
      /\ PublishedComplete'
  BY <1>1, StoreStays DEF PublicationInv
<1>3. pointer # None => Published(pointer)
  BY DEF PublicationInv, PublishedComplete, Published, TypeOK
<1>4. ASSUME NEW r \in Requests \cup {None}, Return(p, r), r # None => Published(r)
      PROVE  CallerInv' /\ NothingClaimedEarly'
  BY <1>1, <1>2, <1>4, ReturnKeeps DEF PublicationInv, NothingClaimedEarly, RepliesTrue
<1>5. reply' = reply => NothingClaimedEarly'
  BY <1>1, <1>2 DEF PublicationInv, NothingClaimedEarly
<1>6. at[p] # "idle" => call[p] \in Requests /\ staging[p] = StagedBefore(at[p])
  BY DEF PublicationInv, TypeOK, CallerInv, CallerOk
<1>7. CASE Refuse(p)
  BY <1>2, <1>4, <1>7 DEF Refuse
<1>8. ASSUME NEW step \in {"confirm", "current?", "claim", "html", "record"}, Proceed(p, step),
             at[p] \in {"record?", "confirm", "current?", "claim"},
             step \in Underway => ~ replaying[p], step = "record" => Published(call[p])
      PROVE  CallerInv' /\ NothingClaimedEarly'
  <2>1. CallerInv'
    BY <1>1, <1>6, <1>8, ProceedKeeps DEF StagedBefore, Steps
  <2> QED
    BY <1>5, <1>8, <2>1 DEF Proceed
<1>9. CASE LookUpRecord(p)
  BY <1>2, <1>7, <1>8, <1>9 DEF LookUpRecord, Underway
<1>10. CASE ConfirmRecord(p)
  BY <1>2, <1>3, <1>4, <1>6, <1>7, <1>10 DEF ConfirmRecord
<1>11. CASE ReadCurrent(p)
  BY <1>2, <1>3, <1>7, <1>8, <1>11 DEF ReadCurrent, SameKey, Underway
<1>12. CASE ClaimVersion(p)
  <2>1. at[p] = "claim" => ~ replaying[p]
    BY DEF PublicationInv, CallerInv, CallerOk, Underway
  <2> QED
    BY <1>2, <1>7, <1>8, <1>12, <2>1 DEF ClaimVersion
<1>13. ASSUME NEW q \in Publishers, at'[q] = at[q], call'[q] = call[q], staging'[q] = staging[q],
              replaying'[q] = replaying[q]
       PROVE  CallerOk(q)'
  BY <1>1, <1>2, <1>13, OthersKeep DEF PublicationInv, CallerInv
<1>14. CASE StageHtml(p) \/ StageAssets(p) \/ StageInventory(p)
  <2>1. \A q \in Publishers \ {p} : CallerOk(q)'
    BY <1>13, <1>14 DEF StageHtml, StageAssets, StageInventory, StageFile, GoTo, PublicationInv, TypeOK
  <2>2. staging'[p] = StagedBefore(at'[p]) /\ at'[p] \in {"assets", "inventory", "rename"}
    BY <1>6, <1>14
    DEF StageHtml, StageAssets, StageInventory, StageFile, GoTo, PublicationInv, TypeOK, StagedBefore, Files
  <2>3. (replaying[p] \/ Successor(call[p])) /\ ~ replaying[p]
    BY <1>14 DEF StageHtml, StageAssets, StageInventory, StageFile, PublicationInv, CallerInv, CallerOk, Underway
  <2>4. replaying' = replaying /\ call' = call /\ reply' = reply
    BY <1>14 DEF StageHtml, StageAssets, StageInventory, StageFile
  <2>5. CallerOk(p)'
    BY <2>2, <2>3, <2>4 DEF CallerOk
  <2> QED
    BY <1>2, <1>5, <2>1, <2>4, <2>5 DEF CallerInv
<1>15. CASE RenameDenied(p) /\ ~ Refuse(p)
  BY <1>2, <1>5, <1>13, <1>15 DEF RenameDenied, CallerInv
<1> QED
  BY <1>7, <1>9, <1>10, <1>11, <1>12, <1>14, <1>15

(* The rename puts the whole staged Bundle where no directory was.         *)
LEMMA RenameKeeps ==
  ASSUME PublicationInv, NEW p \in Publishers, Rename(p)
  PROVE  CallerInv' /\ PublishedComplete' /\ NothingClaimedEarly'
<1>1. /\ call[p] \in Requests /\ call[p].version \in Versions /\ staging[p] = Files
      /\ Successor(call[p]) /\ ~ replaying[p]
  BY DEF Rename, PublicationInv, TypeOK, CallerInv, CallerOk, Underway, StagedBefore, Versions
<1>2. /\ bundles[call[p].version] = None
      /\ bundles'[call[p].version] = [request |-> call[p], files |-> Files]
      /\ \A v \in Versions \ {call[p].version} : bundles'[v] = bundles[v]
  BY <1>1 DEF Rename, MoveDirectory, PublicationInv, TypeOK
<1>3. ASSUME NEW r \in Requests, Complete(r) PROVE bundles'[r.version] = bundles[r.version]
  <2>1. [request |-> r, files |-> Files] \in Bundle
    BY DEF Bundle
  <2>2. r.version \in Versions /\ bundles[r.version] # None
    BY <1>3, <2>1, BundleAssumption DEF Complete, Versions
  <2> QED
    BY <1>2, <2>2
<1>4. \A r : Published(r)' <=> Published(r)
  BY DEF Rename, Published
<1>5. ASSUME NEW q \in Publishers \ {p} PROVE CallerOk(q)'
  <2>1. at[q] = "pointer" => bundles'[call[q].version] = bundles[call[q].version]
    BY <1>3 DEF PublicationInv, TypeOK, CallerInv, CallerOk
  <2> QED
    BY <1>4, <1>5, <2>1, OthersKeep DEF Rename, GoTo, PublicationInv, TypeOK, CallerInv
<1>6. CallerOk(p)'
  BY <1>1, <1>2 DEF Rename, GoTo, PublicationInv, TypeOK, CallerOk, Complete, StagedBefore
<1>7. PublishedComplete'
  <2>1. lineage' = lineage /\ pointer' = pointer /\ lineage \in Seq(Requests)
    BY DEF Rename, PublicationInv, TypeOK
  <2>2. ASSUME NEW i \in 1 .. Len(lineage) PROVE Complete(lineage[i])'
    <3>1. lineage[i] \in Requests /\ Complete(lineage[i])
      BY <2>1 DEF PublicationInv, PublishedComplete
    <3>2. bundles'[lineage[i].version] = bundles[lineage[i].version]
      BY <1>3, <3>1
    <3> QED
      BY <2>1, <3>1, <3>2 DEF Complete
  <2> QED
    BY <2>1, <2>2 DEF PublicationInv, PublishedComplete
<1>8. NothingClaimedEarly'
  BY <1>4 DEF Rename, NothingClaimedEarly, PublicationInv
<1> QED
  BY <1>5, <1>6, <1>7, <1>8 DEF CallerInv

(* The pointer is set to a request whose Bundle is in place.               *)
LEMMA PointerKeeps ==
  ASSUME PublicationInv, NEW p \in Publishers, WritePointer(p)
  PROVE  CallerInv' /\ PublishedComplete' /\ NothingClaimedEarly'
<1>1. /\ call[p] \in Requests /\ Complete(call[p]) /\ staging[p] = {}
      /\ lineage \in Seq(Requests) /\ lineage' = Append(lineage, call[p])
      /\ bundles' = bundles /\ records' = records /\ reply' = reply
  BY DEF WritePointer, Proceed, PublicationInv, TypeOK, CallerInv, CallerOk, StagedBefore
<1>2. PICK r \in Requests : r = call[p]
  BY <1>1
<1>3. /\ Published(r)'
      /\ \A s : Published(s) => Published(s)'
      /\ \A i \in 1 .. Len(lineage') : lineage'[i] = r \/ \E j \in 1 .. Len(lineage) : lineage'[i] = lineage[j]
      /\ lineage' # <<>> /\ lineage'[Len(lineage')] = r
  BY <1>1, <1>2, AppendPublishes
<1>4. \A s : Complete(s)' <=> Complete(s)
  BY <1>1 DEF Complete
<1>5. PublishedComplete'
  BY <1>1, <1>2, <1>3, <1>4 DEF WritePointer, PublicationInv, PublishedComplete
<1>6. NothingClaimedEarly'
  BY <1>1, <1>3 DEF PublicationInv, NothingClaimedEarly
<1>7. ASSUME NEW q \in Publishers \ {p} PROVE CallerOk(q)'
  BY <1>1, <1>3, <1>7, OthersKeep DEF WritePointer, Proceed, GoTo, PublicationInv, TypeOK, CallerInv
<1>8. CallerOk(p)'
  BY <1>1, <1>2, <1>3
  DEF WritePointer, Proceed, GoTo, PublicationInv, TypeOK, CallerInv, CallerOk, StagedBefore, Underway
<1> QED
  BY <1>5, <1>6, <1>7, <1>8 DEF CallerInv

(* The record is written for what has been published, if at all.           *)
LEMMA RecordKeeps ==
  ASSUME PublicationInv, NEW p \in Publishers, WriteRecord(p)
  PROVE  CallerInv' /\ PublishedComplete' /\ NothingClaimedEarly'
<1>1. call[p] \in Requests /\ Published(call[p]) /\ call[p].key \in Keys
  BY DEF WriteRecord, PublicationInv, TypeOK, CallerInv, CallerOk, Keys
<1>2. /\ UNCHANGED <<bundles, pointer, lineage>>
      /\ PublishedComplete' /\ \A s : Published(s)' <=> Published(s)
  BY StoreStays DEF WriteRecord, PublicationInv
<1>3. PICK r \in {None, call[p]} : Return(p, r)
  BY DEF WriteRecord, Refuse
<1>4. CallerInv' /\ RepliesTrue'
  BY <1>1, <1>2, <1>3, ReturnKeeps
<1>5. ASSUME NEW k \in Keys, records'[k] \in Requests PROVE records'[k].key = k /\ Published(records'[k])
  <2>1. records \in [Keys -> Requests \cup {None, Torn}]
    BY DEF PublicationInv, TypeOK
  <2>2. records'[k] = records[k] \/ (k = call[p].key /\ records'[k] = call[p])
    <3>1. records' = [records EXCEPT ![call[p].key] = call[p]] \/ records' = records
      BY DEF WriteRecord
    <3> QED
      BY <1>1, <2>1, <3>1
  <2> QED
    BY <1>1, <1>5, <2>2 DEF PublicationInv, NothingClaimedEarly
<1> QED
  BY <1>2, <1>4, <1>5 DEF NothingClaimedEarly, RepliesTrue

(* A call that begins, of a request that has passed the checks of its own. *)
LEMMA StartKeeps ==
  ASSUME PublicationInv, NEW p \in Publishers, NEW r \in Requests, NEW replay \in BOOLEAN,
         Start(p, r, replay)
  PROVE  CallerInv' /\ PublishedComplete' /\ NothingClaimedEarly'
<1>1. UNCHANGED <<bundles, pointer, records, lineage>>
  BY DEF Start, store
<1>2. PublishedComplete' /\ \A s : Published(s)' <=> Published(s)
  BY <1>1, StoreStays DEF PublicationInv
<1>3. NothingClaimedEarly'
  BY <1>1, <1>2 DEF Start, PublicationInv, NothingClaimedEarly, TypeOK
<1>4. ASSUME NEW q \in Publishers \ {p} PROVE CallerOk(q)'
  BY <1>1, <1>2, <1>4, OthersKeep DEF Start, GoTo, PublicationInv, TypeOK, CallerInv
<1>5. CallerOk(p)'
  BY DEF Start, GoTo, PublicationInv, TypeOK, CallerInv, CallerOk, Successor, Underway, StagedBefore
<1> QED
  BY <1>2, <1>3, <1>4, <1>5 DEF CallerInv

(* A crash ends one call and may leave a record that is none.              *)
LEMMA CrashKeeps ==
  ASSUME PublicationInv, NEW p \in Publishers, Crash(p)
  PROVE  CallerInv' /\ PublishedComplete' /\ NothingClaimedEarly'
<1>1. /\ UNCHANGED <<bundles, pointer, lineage>>
      /\ PublishedComplete' /\ \A s : Published(s)' <=> Published(s)
  BY StoreStays DEF Crash, PublicationInv
<1>2. CallerInv' /\ RepliesTrue'
  BY <1>1, ReturnKeeps DEF Crash, Refuse
<1>3. ASSUME NEW k \in Keys, records'[k] \in Requests PROVE records'[k] = records[k]
  BY <1>3, RequestAssumption DEF Crash, TornRecords, PublicationInv, TypeOK
<1> QED
  BY <1>1, <1>2, <1>3 DEF PublicationInv, NothingClaimedEarly, RepliesTrue

-----------------------------------------------------------------------------
(* The invariant holds in every state of the store.                        *)
LEMMA PublicationAlways == Spec => []PublicationInv
<1>1. Init => PublicationInv
  BY RequestAssumption, BoundAssumption
  DEF Init, PublicationInv, TypeOK, CallerInv, CallerOk, Underway, StagedBefore, Steps,
      PublishedComplete, NothingClaimedEarly
<1>2. ASSUME PublicationInv, [Next]_vars PROVE PublicationInv'
  <2>1. CASE UNCHANGED vars
    <3>1. TypeOK'
      BY <1>2, <2>1 DEF vars, store, caller, PublicationInv, TypeOK
    <3>2. /\ PublishedComplete' /\ \A s : Published(s)' <=> Published(s)
          /\ \A s : Complete(s)' <=> Complete(s)
      BY <1>2, <2>1, StoreStays DEF vars, store, PublicationInv
    <3> QED
      BY <1>2, <2>1, <3>1, <3>2
      DEF vars, store, caller, PublicationInv, CallerInv, CallerOk, NothingClaimedEarly
  <2>2. CASE Next
    <3>1. PICK p \in Publishers :
            \/ \E r \in Requests, replay \in BOOLEAN : Start(p, r, replay)
            \/ Continue(p)
            \/ Crash(p)
      BY <2>2 DEF Next
    <3>2. TypeOK'
      BY <1>2, <3>1, StepTypes, BoundaryTypes DEF PublicationInv
    <3>3. CallerInv' /\ PublishedComplete' /\ NothingClaimedEarly'
      BY <1>2, <3>1, QuietKeeps, RenameKeeps, PointerKeeps, RecordKeeps, StartKeeps, CrashKeeps DEF Continue
    <3> QED
      BY <3>2, <3>3 DEF PublicationInv
  <2> QED
    BY <1>2, <2>1, <2>2
<1> QED
  BY <1>1, <1>2, PTL DEF Spec

\* The files, the callers and the Reports that have been current are of their
\* types, and a caller is idle exactly between its calls.
THEOREM TypeCorrect == Spec => []TypeOK
<1>1. PublicationInv => TypeOK
  BY DEF PublicationInv
<1> QED
  BY <1>1, PublicationAlways, PTL

\* Whatever crashes and whoever interferes, the current Report and its
\* predecessors have all their files.
THEOREM PublishedCompleteCorrect == Spec => []PublishedComplete
<1>1. PublicationInv => PublishedComplete
  BY DEF PublicationInv
<1> QED
  BY <1>1, PublicationAlways, PTL

\* Neither a record nor a reply is ahead of the publication it speaks of.
THEOREM NothingClaimedEarlyCorrect == Spec => []NothingClaimedEarly
<1>1. PublicationInv => NothingClaimedEarly
  BY DEF PublicationInv
<1> QED
  BY <1>1, PublicationAlways, PTL

-----------------------------------------------------------------------------
(* A caller that is not at the pointer, and has compared or does so now,   *)
(* leaves the line as it is.                                               *)
LEMMA LineStays ==
  ASSUME TypeOK, LineInv, NEW p \in Publishers, UNCHANGED <<bundles, pointer>>,
         \A q \in Publishers \ {p} : at'[q] = at[q] /\ call'[q] = call[q],
         at'[p] \in Underway \ {"pointer"} =>
           call'[p] = call[p] /\ (at[p] \in Underway \/ BaseIsCurrent(p)),
         at'[p] # "pointer"
  PROVE  LineInv'
<1>1. CurrentRef' = CurrentRef
  BY DEF CurrentRef
<1>2. ASSUME NEW q \in Publishers, at'[q] \in Underway
      PROVE  call'[q] = call[q] /\ (at[q] \in Underway \/ BaseIsCurrent(q))
  BY <1>2
<1>3. ASSUME NEW q \in Publishers, at'[q] = "pointer"
      PROVE  at[q] = "pointer" /\ call'[q] = call[q]
  BY <1>3
<1>4. CompareHolds'
  BY <1>1, <1>2, <1>3 DEF LineInv, CompareHolds, BaseIsCurrent
<1>5. OneAtPointer'
  BY <1>3 DEF LineInv, OneAtPointer
<1> QED
  BY <1>4, <1>5 DEF LineInv

(* Who wins the directory of a version is the only one at the pointer with *)
(* it, and its base is still current.                                      *)
LEMMA LineRename ==
  ASSUME PublicationInv, LineInv, NEW p \in Publishers, Rename(p)
  PROVE  LineInv'
<1>1. /\ call[p].version \in Versions /\ call' = call /\ CurrentRef' = CurrentRef
      /\ \A q \in Publishers : at'[q] = IF q = p THEN "pointer" ELSE at[q]
  BY DEF Rename, GoTo, PublicationInv, TypeOK, Versions, CurrentRef
<1>2. /\ bundles[call[p].version] = None
      /\ \A v \in Versions : bundles[v] # None => bundles'[v] # None
  BY DEF Rename, MoveDirectory, PublicationInv, TypeOK
<1>3. at[p] = "rename" /\ BaseIsCurrent(p)
  BY <1>2 DEF Rename, LineInv, CompareHolds, Underway
<1>4. \A q \in Publishers : at[q] # "idle" => call[q].version \in Versions
  BY DEF PublicationInv, TypeOK, Versions
<1>5. CompareHolds'
  BY <1>1, <1>2, <1>3, <1>4 DEF LineInv, CompareHolds, BaseIsCurrent, Underway
<1>6. ASSUME NEW q \in Publishers, at[q] = "pointer" PROVE call[q].version # call[p].version
  <2>1. bundles[call[q].version] = [request |-> call[q], files |-> Files] /\ call[q] \in Requests
    BY <1>6 DEF PublicationInv, TypeOK, CallerInv, CallerOk, Complete
  <2>2. [request |-> call[q], files |-> Files] \in Bundle
    BY <2>1 DEF Bundle
  <2> QED
    BY <1>2, <2>1, <2>2, BundleAssumption
<1>7. OneAtPointer'
  BY <1>1, <1>6 DEF LineInv, OneAtPointer
<1> QED
  BY <1>5, <1>7 DEF LineInv

(* Setting the pointer publishes the successor of the current Report, and  *)
(* nobody else with the same base is left who could.                       *)
LEMMA LinePointer ==
  ASSUME OneInitialVersion, PublicationInv, LineInv, NEW p \in Publishers, WritePointer(p)
  PROVE  LineInv' /\ Lineage!Next
<1>1. /\ call[p] \in Requests /\ call[p].base = CurrentRef /\ Successor(call[p])
      /\ call[p].version \in Nat \ {0} /\ at[p] = "pointer"
  BY RequestAssumption
  DEF WritePointer, PublicationInv, TypeOK, CallerInv, CallerOk, Underway, LineInv, CompareHolds, BaseIsCurrent
<1>2. bundles[call[p].version] # None
  <2>1. [request |-> call[p], files |-> Files] \in Bundle
    BY <1>1 DEF Bundle
  <2> QED
    BY <1>1, <2>1, BundleAssumption DEF PublicationInv, CallerInv, CallerOk, Complete
<1>3. ASSUME NEW q \in Publishers, at[q] \in Underway, BaseIsCurrent(q)
      PROVE  call[q].version = call[p].version
  BY <1>1, <1>3, RequestAssumption
  DEF BaseIsCurrent, PublicationInv, TypeOK, CallerInv, CallerOk, Underway, Successor, OneInitialVersion
<1>4. /\ bundles' = bundles /\ call' = call
      /\ \A q \in Publishers : at'[q] = IF q = p THEN "record" ELSE at[q]
  BY DEF WritePointer, Proceed, GoTo, PublicationInv, TypeOK
<1>5. ASSUME NEW q \in Publishers PROVE at'[q] # "pointer"
  BY <1>1, <1>3, <1>4, <1>5 DEF LineInv, CompareHolds, OneAtPointer, Underway
<1>6. CompareHolds'
  BY <1>2, <1>3, <1>4, <1>5 DEF LineInv, CompareHolds, Underway
<1>7. OneAtPointer'
  BY <1>5 DEF OneAtPointer
<1>8. lineage \in Seq(Requests) /\ lineage' = Append(lineage, call[p])
      /\ pointer = IF lineage = <<>> THEN None ELSE lineage[Len(lineage)]
  BY DEF WritePointer, PublicationInv, TypeOK, PublishedComplete
<1>9. CASE lineage = <<>>
  <2>1. call[p].base = 0
    BY <1>1, <1>8, <1>9 DEF CurrentRef, NoBase
  <2>2. lineage' = <<call[p]>>
    BY <1>8, <1>9
  <2> QED
    BY <1>1, <1>6, <1>7, <1>9, <2>1, <2>2 DEF LineInv, Lineage!Next, Lineage!PublishInitial
<1>10. CASE lineage # <<>>
  <2>1. lineage[Len(lineage)] \in Requests
    BY <1>8, <1>10
  <2>2. call[p].base = lineage[Len(lineage)].version /\ call[p].base # 0
    BY <1>1, <1>8, <1>10, <2>1, RequestAssumption DEF CurrentRef
  <2>3. call[p].version = call[p].base + 1
    BY <1>1, <2>2 DEF Successor, NoBase
  <2> QED
    BY <1>1, <1>6, <1>7, <1>8, <1>10, <2>2, <2>3 DEF LineInv, Lineage!Next, Lineage!PublishSuccessor
<1> QED
  BY <1>9, <1>10

(* Every step of the store is a step of the line or leaves it.             *)
LEMMA LineStep ==
  ASSUME OneInitialVersion, PublicationInv, LineInv, [Next]_vars
  PROVE  LineInv' /\ [Lineage!Next]_lineage
<1>1. TypeOK
  BY DEF PublicationInv
<1>2. CASE UNCHANGED vars
  BY <1>2 DEF vars, store, caller, LineInv, CompareHolds, OneAtPointer, BaseIsCurrent, CurrentRef
<1>3. ASSUME NEW p \in Publishers, NEW r \in Requests, NEW replay \in BOOLEAN, Start(p, r, replay)
      PROVE  LineInv' /\ lineage' = lineage
  BY <1>1, <1>3, LineStays DEF Start, store, GoTo, TypeOK, Underway
<1>4. ASSUME NEW p \in Publishers, NEW r, Return(p, r), UNCHANGED <<bundles, pointer>> PROVE LineInv'
  BY <1>1, <1>4, LineStays DEF Return, GoTo, TypeOK, Underway
<1>5. ASSUME NEW p \in Publishers, NEW step \in Steps, Proceed(p, step), UNCHANGED <<bundles, pointer>>,
             step # "pointer", step \in Underway => at[p] \in Underway \/ BaseIsCurrent(p)
      PROVE  LineInv'
  BY <1>1, <1>5, LineStays DEF Proceed, GoTo, TypeOK
<1>6. ASSUME NEW p \in Publishers, Continue(p)
      PROVE  LineInv' /\ [Lineage!Next]_lineage
  <2>1. CASE LookUpRecord(p)
    BY <1>4, <1>5, <2>1 DEF LookUpRecord, Refuse, store, Steps, Underway
  <2>2. CASE ConfirmRecord(p)
    BY <1>4, <2>2 DEF ConfirmRecord, Refuse, store
  <2>3. CASE ReadCurrent(p)
    BY <1>4, <1>5, <2>3 DEF ReadCurrent, Refuse, store, Steps, Underway
  <2>4. CASE ClaimVersion(p)
    BY <1>4, <1>5, <2>4 DEF ClaimVersion, Refuse, store, Steps, Underway
  <2>5. CASE StageHtml(p) \/ StageAssets(p) \/ StageInventory(p)
    <3>1. /\ at[p] \in Underway /\ call' = call /\ UNCHANGED <<bundles, pointer, lineage>>
          /\ at'[p] # "pointer" /\ \A q \in Publishers \ {p} : at'[q] = at[q]
      BY <1>1, <2>5 DEF StageHtml, StageAssets, StageInventory, StageFile, store, GoTo, Underway, TypeOK
    <3> QED
      BY <1>1, <3>1, LineStays
  <2>6. CASE Rename(p)
    BY <2>6, LineRename DEF Rename
  <2>7. CASE RenameDenied(p)
    <3>1. CASE Refuse(p)
      BY <1>4, <2>7, <3>1 DEF RenameDenied, Refuse, store
    <3>2. CASE ~ Refuse(p)
      BY <1>1, <2>7, <3>2, LineStays DEF RenameDenied, store, Underway
    <3> QED
      BY <3>1, <3>2
  <2>8. CASE WritePointer(p)
    BY <2>8, LinePointer
  <2>9. CASE WriteRecord(p)
    BY <1>4, <2>9 DEF WriteRecord, Refuse
  <2> QED
    BY <1>6, <2>1, <2>2, <2>3, <2>4, <2>5, <2>6, <2>7, <2>8, <2>9 DEF Continue
<1>7. ASSUME NEW p \in Publishers, Crash(p) PROVE LineInv' /\ lineage' = lineage
  BY <1>4, <1>7 DEF Crash, Refuse
<1> QED
  BY <1>2, <1>3, <1>6, <1>7 DEF Next, vars

\* The store implements the lineage of ReportLineage: if the Reports of a Run
\* have one first version, no interleaving of compares and sets loses or
\* replaces a Report.
THEOREM LineageImplemented ==
  ASSUME OneInitialVersion
  PROVE  Spec => ImplementsLineage
<1>1. Init => LineInv /\ Lineage!Init
  BY DEF Init, LineInv, CompareHolds, OneAtPointer, Underway, Lineage!Init
<1>2. PublicationInv /\ LineInv /\ [Next]_vars => LineInv' /\ [Lineage!Next]_lineage
  BY LineStep
<1> QED
  BY <1>1, <1>2, PublicationAlways, PTL DEF Spec, ImplementsLineage, Lineage!Spec
=============================================================================
