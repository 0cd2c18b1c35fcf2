--------------------------- MODULE StorageProofs ---------------------------
(***************************************************************************)
(* What a Run's directory and the operations on it keep through crashes    *)
(* and torn writes, for every set of mutations and requests and every      *)
(* bound: its types, the refinement of RunHistory, and what the logs say.  *)
(***************************************************************************)
EXTENDS RunOperations, SequenceTheorems, WellFoundedInduction, TLAPS

\* A Snapshot is a sequence of mutations as long as its version.
LEMMA SnapshotSeq ==
  \A s : s \in Snapshots <=> s \in Seq(Mutations) /\ Len(s) \in Versions
<1>1. ASSUME NEW s \in Snapshots
      PROVE  s \in Seq(Mutations) /\ Len(s) \in Versions
  <2>1. PICK version \in Versions : s \in [1 .. version -> Mutations]
    BY DEF Snapshots
  <2>2. version \in Nat
    BY BoundAssumption DEF Versions, BoundAssumption
  <2> QED
    BY <2>1, <2>2
<1>2. ASSUME NEW s \in Seq(Mutations), Len(s) \in Versions
      PROVE  s \in Snapshots
  <2>1. s \in [1 .. Len(s) -> Mutations]
    BY LenProperties
  <2> QED
    BY <1>2, <2>1 DEF Snapshots
<1> QED
  BY <1>1, <1>2

\* The Snapshot after a mutation.
LEMMA SnapshotAppend ==
  ASSUME NEW s \in Snapshots, NEW m \in Mutations, Len(s) < MaxVersion
  PROVE  /\ Append(s, m) \in Snapshots
         /\ Len(Append(s, m)) = Len(s) + 1
         /\ Append(s, m)[Len(s) + 1] = m
         /\ \A i \in 1 .. Len(s) : Append(s, m)[i] = s[i]
<1>1. s \in Seq(Mutations) /\ Len(s) \in Nat
  BY SnapshotSeq
<1>2. /\ Append(s, m) \in Seq(Mutations) /\ Len(Append(s, m)) = Len(s) + 1
      /\ Append(s, m)[Len(s) + 1] = m
      /\ \A i \in 1 .. Len(s) : Append(s, m)[i] = s[i]
  BY <1>1
<1>3. Len(s) + 1 \in Versions
  BY <1>1, BoundAssumption DEF Versions, BoundAssumption
<1> QED
  BY <1>2, <1>3, SnapshotSeq

\* The Snapshot of a creation.
LEMMA SnapshotEmpty ==
  /\ <<>> \in Snapshots /\ Len(<<>>) = 0
  /\ \A s \in Snapshots : Len(s) = 0 => s = <<>>
<1>1. 0 \in Versions
  BY BoundAssumption DEF Versions, BoundAssumption
<1> QED
  BY <1>1, SnapshotSeq, EmptySeq

\* A Snapshot is neither missing nor cut off.
LEMMA SnapshotValue == \A s \in Snapshots : s # None /\ s # Torn
BY ValueAssumption

-----------------------------------------------------------------------------
\* The Snapshot files: whole ones are of their version; what is there past the
\* committed one is of the next version and extends it by one mutation.
FilesInv ==
  /\ \A v \in Versions :
       snapshots[v] \in {None, Torn} \/ (snapshots[v] \in Snapshots /\ Len(snapshots[v]) = v)
  /\ ~TornWrites => \A v \in Versions : snapshots[v] # Torn
  /\ Created => Committed # None
  /\ \A v \in Versions : (IF Created THEN v > Version + 1 ELSE v > 0) => snapshots[v] = None
  /\ Loadable => \A v \in Versions : v = Version + 1 =>
       snapshots[v] \in {None, Torn} \/ \E m \in Mutations : snapshots[v] = Append(Committed, m)
\* The writer: what it commits is the committed Snapshot or one mutation more,
\* and its file is there before the Manifest is.
WriterInv ==
  /\ at = "idle" <=> phase = "none"
  /\ phase = "none" => mutation = None /\ next = None
  /\ phase = "create" => /\ mutation = None /\ next = <<>> /\ at # "decide"
                         /\ Created <=> at = "ledger"
  /\ phase = "mutation" => /\ mutation \in Mutations /\ at # "ledger"
                           /\ Loadable /\ Version < MaxVersion
                           /\ next = Append(Committed, mutation)
  /\ phase = "result" => /\ mutation \in Requests /\ at \notin {"side", "decide"}
                         /\ Loadable /\ next = Committed
  /\ at \in {"state", "manifest"} => snapshots[Len(next)] # None
StorageInv == TypeOK /\ FilesInv /\ WriterInv

\* What is being committed, by phase.
LEMMA NextSnapshot ==
  ASSUME StorageInv
  PROVE  /\ Created => Version \in Versions /\ Version \in Nat
         /\ Loadable => Committed \in Snapshots /\ Len(Committed) = Version
         /\ phase # "none" => next \in Snapshots
         /\ phase = "create" => Len(next) = 0
         /\ phase = "mutation" => Len(next) = Version + 1
         /\ phase = "result" => Len(next) = Version
<1> USE DEF StorageInv
<1>1. Created => Version \in Versions /\ Version \in Nat
  BY ValueAssumption, BoundAssumption DEF TypeOK, Created, Version, Versions, BoundAssumption
<1>2. Loadable => Committed \in Snapshots /\ Len(Committed) = Version
  BY <1>1 DEF FilesInv, Loadable, Committed
<1>3. phase = "mutation" => next \in Snapshots /\ Len(next) = Version + 1
  BY <1>1, <1>2, SnapshotAppend DEF WriterInv
<1>4. phase = "create" => next \in Snapshots /\ Len(next) = 0
  BY SnapshotEmpty DEF WriterInv
<1>5. phase = "result" => next \in Snapshots /\ Len(next) = Version
  BY <1>2 DEF WriterInv
<1> QED
  BY <1>1, <1>2, <1>3, <1>4, <1>5 DEF TypeOK

\* Initially.
LEMMA StorageInitial == Init => StorageInv
<1> SUFFICES ASSUME Init PROVE StorageInv
  OBVIOUS
<1> USE DEF Init, StorageInit
<1>1. ~ Created
  BY DEF Created
<1>2. TypeOK
  <2>1. crashes \in 0 .. MaxCrashes
    BY BoundAssumption DEF BoundAssumption
  <2>2. events \in Seq([version : Versions, mutation : Mutations \cup {None}, part : Nat])
    BY EmptySeq
  <2>3. manifest \in [version : {None} \cup Versions, offset : Nat]
    OBVIOUS
  <2>4. decisions \in Seq([event_offset : Nat, mutation : Mutations, version : Versions])
    BY EmptySeq
  <2>5. RequestsTyped
    BY DEF RequestsTyped
  <2> QED
    BY <2>1, <2>2, <2>3, <2>4, <2>5 DEF TypeOK, Steps
<1>3. FilesInv
  BY <1>1, ValueAssumption DEF FilesInv, Loadable
<1>4. WriterInv
  BY DEF WriterInv
<1> QED
  BY <1>2, <1>3, <1>4 DEF StorageInv

-----------------------------------------------------------------------------
\* A step that touches neither Snapshots nor Manifest keeps what holds of them.
LEMMA FilesStay ==
  ASSUME FilesInv, UNCHANGED <<snapshots, manifest>>
  PROVE  FilesInv'
BY DEF FilesInv, Created, Version, Committed, Loadable

\* A refused operation leaves the writer idle.
LEMMA RefusedWriter ==
  ASSUME StorageInv, Refuse
  PROVE  WriterInv'
BY DEF Refuse, WriterInv

\* A mutation starts, in an envelope or not.
LEMMA StartStorage ==
  ASSUME StorageInv, NEW m \in Mutations, StartMutation(m), RequestsTyped'
  PROVE  StorageInv'
<1> USE DEF StorageInv
<1>1. Committed \in Snapshots /\ Len(Committed) < MaxVersion
  BY NextSnapshot DEF StartMutation
<1>2. next' \in Snapshots
  BY <1>1, SnapshotAppend DEF StartMutation
<1>3. TypeOK'
  BY <1>2 DEF TypeOK, StartMutation, directory, Steps
<1>4. FilesInv'
  BY FilesStay DEF StartMutation, directory
<1>5. WriterInv'
  BY DEF WriterInv, StartMutation, directory, Loadable, Created, Version, Committed
<1> QED
  BY <1>3, <1>4, <1>5

\* The creation starts, or what it has left to do.
LEMMA CreateStorage ==
  ASSUME StorageInv, Create
  PROVE  StorageInv'
<1> USE DEF StorageInv
<1>1. TypeOK'
  BY SnapshotEmpty DEF TypeOK, Create, directory, requestVars, RequestsTyped, Steps
<1>2. FilesInv'
  BY FilesStay DEF Create, directory
<1>3. WriterInv'
  BY DEF WriterInv, Create, directory, Loadable, Created, Version
<1> QED
  BY <1>1, <1>2, <1>3

\* The files written ahead.
LEMMA SideStorage ==
  ASSUME StorageInv, WriteSide \/ KeepSide \/ RefuseSide, UNCHANGED requestVars
  PROVE  StorageInv'
<1> USE DEF StorageInv, requestVars, RequestsTyped
<1>1. CASE WriteSide
  <2>1. SideDocument \in SUBSET Mutations
    <3>1. ASSUME mutation \in Sourced
          PROVE  EffectiveIndex(Len(next) - 1) \in SUBSET Mutations
      <4>1. phase = "mutation" /\ Created
        BY <1>1, <3>1, MutationAssumption, ValueAssumption
        DEF WriteSide, WritesNow, WriterInv, TypeOK, MutationAssumption, Loadable
      <4>2. Len(next) - 1 \in Versions
        BY <4>1, NextSnapshot
      <4>3. \A v \in 1 .. Len(next) - 1 : <<"index", v>> \in SideNames
        BY <4>2, BoundAssumption DEF SideNames, Versions, BoundAssumption
      <4>4. CASE NewestIndex(Len(next) - 1) = {}
        BY <4>4 DEF EffectiveIndex
      <4>5. CASE NewestIndex(Len(next) - 1) # {}
        <5>1. PICK v \in NewestIndex(Len(next) - 1) :
                EffectiveIndex(Len(next) - 1) = side[<<"index", v>>]
          BY <4>5 DEF EffectiveIndex
        <5>2. EffectiveIndex(Len(next) - 1) # Torn
          BY <1>1, <3>1 DEF WriteSide, WritesNow
        <5>3. v \in 1 .. Len(next) - 1 /\ side[<<"index", v>>] # None
          BY <5>1 DEF NewestIndex
        <5> QED
          BY <4>3, <5>1, <5>2, <5>3 DEF TypeOK
      <4> QED
        BY <4>4, <4>5
    <3>2. {mutation} \ {None} \in SUBSET Mutations
      BY DEF TypeOK
    <3> QED
      BY <3>1, <3>2, MutationAssumption DEF SideDocument, MutationAssumption
  <2>2. TypeOK'
    BY <1>1, <2>1 DEF TypeOK, WriteSide, GoTo, Steps
  <2>3. FilesInv'
    BY <1>1, FilesStay DEF WriteSide
  <2>4. WriterInv'
    BY <1>1 DEF WriterInv, WriteSide, WritesNow, GoTo, Loadable, Created, Version, Committed
  <2> QED
    BY <2>2, <2>3, <2>4
<1>2. CASE KeepSide
  <2>1. TypeOK'
    BY <1>2 DEF TypeOK, KeepSide, GoTo, Steps, directory
  <2>2. FilesInv'
    BY <1>2, FilesStay DEF KeepSide, directory
  <2>3. WriterInv'
    BY <1>2 DEF WriterInv, KeepSide, GoTo, directory, Loadable, Created, Version, Committed
  <2> QED
    BY <2>1, <2>2, <2>3
<1>3. CASE RefuseSide
  <2>1. TypeOK'
    BY <1>3 DEF TypeOK, RefuseSide, Refuse, Steps, directory
  <2>2. FilesInv'
    BY <1>3, FilesStay DEF RefuseSide, directory
  <2> QED
    BY <1>3, <2>1, <2>2, RefusedWriter DEF RefuseSide
<1> QED
  BY <1>1, <1>2, <1>3

\* The Event and Decision Logs.
LEMMA AuditStorage ==
  ASSUME StorageInv, UNCHANGED requestVars,
         ReadTail \/ RefuseTail \/ AppendEvent \/ AuditDone \/ AppendDecision
  PROVE  StorageInv'
<1> USE DEF StorageInv, requestVars, RequestsTyped
<1>1. FilesInv'
  BY FilesStay DEF ReadTail, RefuseTail, AppendEvent, AuditDone, AppendDecision, directory
<1>2. CASE ReadTail
  <2>1. audited' \in Nat
    BY <1>2 DEF ReadTail, OwnTail, UncommittedEvents, TypeOK
  <2>2. TypeOK'
    BY <1>2, <2>1 DEF TypeOK, ReadTail, GoTo, Steps, directory
  <2>3. WriterInv'
    BY <1>2 DEF WriterInv, ReadTail, GoTo, directory, Loadable, Created, Version, Committed
  <2> QED
    BY <1>1, <2>2, <2>3
<1>3. CASE RefuseTail
  <2>1. TypeOK'
    BY <1>3 DEF TypeOK, RefuseTail, Refuse, Steps, directory
  <2> QED
    BY <1>1, <1>3, <2>1, RefusedWriter DEF RefuseTail
<1>4. CASE AppendEvent
  <2>1. phase # "none" /\ Len(next) \in Versions
    BY <1>4, NextSnapshot, SnapshotSeq DEF AppendEvent, WriterInv
  <2>2. Event(Label, audited + 1) \in [version : Versions, mutation : Mutations \cup {None}, part : Nat]
    BY <2>1 DEF Event, Label, TypeOK
  <2>3. TypeOK'
    BY <1>4, <2>2 DEF TypeOK, AppendEvent
  <2>4. WriterInv'
    BY <1>4 DEF WriterInv, AppendEvent, Loadable, Created, Version, Committed
  <2> QED
    BY <1>1, <2>3, <2>4
<1>5. CASE AuditDone
  <2>1. TypeOK'
    BY <1>5 DEF TypeOK, AuditDone, GoTo, Steps, directory
  <2>2. WriterInv'
    BY <1>5 DEF WriterInv, AuditDone, GoTo, directory, Loadable, Created, Version, Committed
  <2> QED
    BY <1>1, <2>1, <2>2
<1>6. CASE AppendDecision
  <2>1. phase = "mutation" /\ Len(next) \in Versions
    BY <1>6, NextSnapshot, SnapshotSeq DEF AppendDecision, WriterInv, TypeOK
  <2> DEFINE Entries == [event_offset : Nat, mutation : Mutations, version : Versions]
             entry == [event_offset |-> Len(events), mutation |-> mutation, version |-> Len(next)]
  <2>2. entry \in Entries
    BY <2>1 DEF TypeOK, WriterInv
  <2>3. decisions' \in Seq(Entries)
    <3>1. decisions \in Seq(Entries)
      BY DEF TypeOK
    <3>2. decisions' = decisions \/ decisions' = Append(decisions, entry)
      BY <1>6 DEF AppendDecision, Logged
    <3> HIDE DEF Entries, entry
    <3> QED
      BY <2>2, <3>1, <3>2
  <2>4. TypeOK'
    BY <1>6, <2>3 DEF TypeOK, AppendDecision, GoTo, Steps
  <2>5. WriterInv'
    BY <1>6 DEF WriterInv, AppendDecision, GoTo, Loadable, Created, Version, Committed
  <2> QED
    BY <1>1, <2>4, <2>5
<1> QED
  BY <1>2, <1>3, <1>4, <1>5, <1>6

-----------------------------------------------------------------------------
\* A Snapshot file is written, whole or torn, where there was none.
LEMMA SnapshotFile ==
  ASSUME StorageInv, at = "snapshot", snapshots[Len(next)] = None, UNCHANGED manifest,
         NEW file, file = next \/ (TornWrites /\ file = Torn),
         snapshots' = [snapshots EXCEPT ![Len(next)] = file]
  PROVE  /\ FilesInv' /\ snapshots' \in [Versions -> {None, Torn} \cup Snapshots]
         /\ Committed' = Committed /\ (Created' <=> Created) /\ (Loadable' <=> Loadable)
<1> USE DEF StorageInv
<1>1. phase \in {"create", "mutation", "result"} /\ next \in Snapshots /\ Len(next) \in Versions
  BY NextSnapshot, SnapshotSeq DEF WriterInv, TypeOK
<1>2. Created => Version \in Versions /\ Len(next) = Version + 1 /\ Loadable /\ phase = "mutation"
  BY <1>1, NextSnapshot DEF WriterInv, FilesInv, Committed, Loadable
<1>3. ~ Created => Len(next) = 0
  BY <1>1, NextSnapshot DEF WriterInv, Loadable
<1>4. Versions \subseteq Nat
  BY BoundAssumption DEF Versions, BoundAssumption
<1>5. \A v \in Versions : snapshots'[v] = IF v = Len(next) THEN file ELSE snapshots[v]
  BY <1>1 DEF TypeOK
<1>6. snapshots' \in [Versions -> {None, Torn} \cup Snapshots]
  BY <1>1 DEF TypeOK
<1>7. Committed' = Committed /\ (Created' <=> Created) /\ (Loadable' <=> Loadable)
      /\ Version' = Version
  BY <1>2, <1>4, <1>5 DEF Committed, Created, Loadable, Version
<1>8. FilesInv'
  <2>1. \A v \in Versions : snapshots'[v] \in {None, Torn}
                          \/ (snapshots'[v] \in Snapshots /\ Len(snapshots'[v]) = v)
    BY <1>1, <1>5 DEF FilesInv
  <2>2. ~TornWrites => \A v \in Versions : snapshots'[v] # Torn
    BY <1>1, <1>5, SnapshotValue DEF FilesInv
  <2>3. \A v \in Versions : (IF Created THEN v > Version + 1 ELSE v > 0) => snapshots'[v] = None
    BY <1>2, <1>3, <1>4, <1>5 DEF FilesInv
  <2>4. Loadable => \A v \in Versions : v = Version + 1 =>
          snapshots'[v] \in {None, Torn} \/ \E m \in Mutations : snapshots'[v] = Append(Committed, m)
    <3> SUFFICES ASSUME Loadable, file = next
                 PROVE  \E m \in Mutations : file = Append(Committed, m)
      BY <1>2, <1>5 DEF Loadable
    <3> QED
      BY <1>2 DEF WriterInv, Loadable
  <2> QED
    BY <1>7, <2>1, <2>2, <2>3, <2>4 DEF FilesInv
<1> QED
  BY <1>6, <1>7, <1>8

\* The three files of a commit; the last is the Manifest.
LEMMA SnapshotStorage ==
  ASSUME StorageInv, WriteSnapshot, UNCHANGED requestVars
  PROVE  StorageInv' /\ Committed' = Committed
<1> USE DEF StorageInv, requestVars, RequestsTyped
<1>1. FilesInv' /\ snapshots' \in [Versions -> {None, Torn} \cup Snapshots]
      /\ Committed' = Committed /\ (Created' <=> Created) /\ (Loadable' <=> Loadable)
  <2>1. CASE snapshots[Len(next)] = None
    BY <2>1, SnapshotFile DEF WriteSnapshot
  <2>2. CASE snapshots[Len(next)] # None
    <3>1. snapshots' = snapshots
      BY <2>2 DEF WriteSnapshot, TypeOK
    <3> QED
      BY <3>1, FilesStay DEF WriteSnapshot, TypeOK, Committed, Created, Version, Loadable
  <2> QED
    BY <2>1, <2>2
<1>2. TypeOK'
  BY <1>1 DEF TypeOK, WriteSnapshot, GoTo, Steps
<1>3. snapshots'[Len(next)] # None
  <2>1. phase # "none"
    BY DEF WriteSnapshot, WriterInv
  <2>2. next # None /\ Len(next) \in Versions
    BY <2>1, NextSnapshot, SnapshotSeq, SnapshotValue
  <2> QED
    BY <2>2 DEF WriteSnapshot, TypeOK
<1>4. WriterInv'
  BY <1>1, <1>3 DEF WriterInv, WriteSnapshot, GoTo, Version
<1> QED
  BY <1>1, <1>2, <1>4

\* The state file, of the commit or of recovery.
LEMMA StateStorage ==
  ASSUME StorageInv, ReplaceState \/ Recover, UNCHANGED requestVars
  PROVE  StorageInv'
<1> USE DEF StorageInv, requestVars, RequestsTyped
<1>1. FilesInv'
  BY FilesStay DEF ReplaceState, Recover
<1>2. CASE ReplaceState
  <2>1. TypeOK'
    BY <1>2, NextSnapshot DEF TypeOK, ReplaceState, GoTo, Steps, WriterInv
  <2>2. WriterInv'
    BY <1>2 DEF WriterInv, ReplaceState, GoTo, Loadable, Created, Version, Committed
  <2> QED
    BY <1>1, <2>1, <2>2
<1>3. CASE Recover
  <2>1. TypeOK'
    BY <1>3, NextSnapshot DEF TypeOK, Recover, writer
  <2>2. WriterInv'
    BY <1>3 DEF WriterInv, Recover, writer, Loadable, Created, Version, Committed
  <2> QED
    BY <1>1, <2>1, <2>2
<1> QED
  BY <1>2, <1>3

\* Whatever a crash leaves of the write it interrupts.
LEMMA CrashStorage ==
  ASSUME StorageInv, Crash, UNCHANGED requestVars
  PROVE  StorageInv' /\ Committed' = Committed
<1> USE DEF StorageInv, requestVars, RequestsTyped
<1>1. FilesInv' /\ snapshots' \in [Versions -> {None, Torn} \cup Snapshots] /\ Committed' = Committed
  <2>1. CASE UNCHANGED snapshots
    BY <2>1, FilesStay DEF Crash, TypeOK, Committed, Created, Version
  <2>2. CASE snapshots' # snapshots
    BY <2>2, SnapshotFile DEF Crash, TearFile
  <2> QED
    BY <2>1, <2>2
<1>2. side' \in [SideNames -> {None, Torn} \cup SUBSET Mutations]
  BY DEF TypeOK, Crash, TearFile
<1>3. torn_logs' \subseteq {"events", "decisions", "requests", "creations"}
  BY DEF TypeOK, Crash, TearFile
<1>4. crashes' \in 0 .. MaxCrashes
  BY BoundAssumption DEF TypeOK, Crash, BoundAssumption
<1>5. TypeOK'
  BY <1>1, <1>2, <1>3, <1>4 DEF TypeOK, Crash, Refuse, Steps
<1> QED
  BY <1>1, <1>5, RefusedWriter DEF Crash

-----------------------------------------------------------------------------
\* What a step may do to the committed state.
HistoryStep ==
  \/ Committed' = Committed
  \/ Committed = None /\ Committed' = <<>>
  \/ Committed \notin {None, Torn} /\ \E m \in Mutations : Committed' = Append(Committed, m)
  \/ TornWrites /\ Committed # Torn /\ Committed' = Torn

\* The Manifest moves: the creation, one mutation, or the same Snapshot again.
LEMMA CommitStorage ==
  ASSUME StorageInv, Commit
  PROVE  StorageInv' /\ HistoryStep
<1> USE DEF StorageInv, requestVars, RequestsTyped
<1>1. /\ at = "manifest" /\ manifest' = [version |-> Len(next), offset |-> Len(events)]
      /\ UNCHANGED <<snapshots, state_file, events, decisions, side, torn_logs, crashes>>
      /\ UNCHANGED requestVars
  BY DEF Commit, ReplaceManifest
<1>2. phase \in {"create", "mutation", "result"} /\ next \in Snapshots /\ Len(next) \in Versions
  BY <1>1, NextSnapshot, SnapshotSeq DEF WriterInv, TypeOK
<1>3. Versions \subseteq Nat
  BY BoundAssumption DEF Versions, BoundAssumption
<1>4. snapshots[Len(next)] # None /\ snapshots[Len(next)] \in {Torn} \cup Snapshots
      /\ (snapshots[Len(next)] # Torn => Len(snapshots[Len(next)]) = Len(next))
      /\ (~TornWrites => snapshots[Len(next)] # Torn)
  BY <1>1, <1>2 DEF WriterInv, FilesInv
<1>5. Created' /\ Version' = Len(next) /\ Committed' = snapshots[Len(next)]
      /\ (Loadable' <=> snapshots[Len(next)] # Torn)
  BY <1>1, <1>2, ValueAssumption DEF Created, Version, Committed, Loadable
<1>6. Len(events) \in Nat /\ snapshots[Len(next)] \in {None} \cup {Torn} \cup Snapshots
  BY <1>4 DEF TypeOK
<1>7. CASE phase = "create"
  <2>1. ~ Created /\ Committed = None /\ Len(next) = 0
    BY <1>1, <1>7, NextSnapshot DEF WriterInv, Committed
  <2>2. HistoryStep
    BY <1>4, <1>5, <2>1, SnapshotEmpty, ValueAssumption DEF HistoryStep
  <2>3. FilesInv'
    BY <1>1, <1>3, <1>4, <1>5, <2>1 DEF FilesInv
  <2>4. at' = "ledger" /\ UNCHANGED <<phase, mutation, next, audited>>
    BY <1>7 DEF Commit, GoTo
  <2>5. WriterInv'
    BY <1>1, <1>5, <1>7, <2>4 DEF WriterInv
  <2>6. TypeOK'
    BY <1>1, <1>2, <1>6, <2>4 DEF TypeOK, Steps
  <2> QED
    BY <2>2, <2>3, <2>5, <2>6
<1>8. CASE phase = "mutation"
  <2>1. Created /\ Loadable /\ Version \in Versions /\ Len(next) = Version + 1
        /\ Committed \in Snapshots /\ mutation \in Mutations
    BY <1>8, NextSnapshot DEF WriterInv, Loadable
  <2>2. HistoryStep
    BY <1>2, <1>4, <1>5, <2>1, SnapshotValue DEF HistoryStep, FilesInv
  <2>3. FilesInv'
    BY <1>1, <1>3, <1>4, <1>5, <2>1 DEF FilesInv
  <2>4. CASE mutation \in Requests /\ snapshots[Len(next)] # Torn
    <3>1. at' = "tail" /\ phase' = "result" /\ next' = snapshots[Len(next)]
          /\ audited' = 0 /\ UNCHANGED mutation
      BY <1>8, <2>4 DEF Commit
    <3>2. WriterInv'
      BY <1>5, <2>4, <3>1 DEF WriterInv
    <3>3. TypeOK'
      BY <1>1, <1>2, <1>4, <1>6, <2>4, <3>1 DEF TypeOK, Steps
    <3> QED
      BY <2>2, <2>3, <3>2, <3>3
  <2>5. CASE ~ (mutation \in Requests /\ snapshots[Len(next)] # Torn)
    <3>1. Refuse
      BY <1>8, <2>5 DEF Commit
    <3>2. TypeOK'
      BY <1>1, <1>2, <1>6, <3>1 DEF TypeOK, Steps, Refuse
    <3> QED
      BY <2>2, <2>3, <3>1, <3>2, RefusedWriter
  <2> QED
    BY <2>4, <2>5
<1>9. CASE phase = "result"
  <2>1. Created /\ Loadable /\ Version \in Versions /\ Len(next) = Version /\ next = Committed
    BY <1>9, NextSnapshot DEF WriterInv, Loadable
  <2>2. Committed' = Committed /\ Version' = Version /\ Loadable'
    BY <1>5, <2>1 DEF Committed, Loadable
  <2>3. FilesInv'
    BY <1>1, <1>5, <2>1, <2>2 DEF FilesInv
  <2>4. at' = "ledger" /\ UNCHANGED <<phase, mutation, next, audited>>
    BY <1>9 DEF Commit, GoTo
  <2>5. WriterInv'
    BY <1>5, <1>9, <2>1, <2>2, <2>4 DEF WriterInv
  <2>6. TypeOK'
    BY <1>1, <1>2, <1>6, <2>4 DEF TypeOK, Steps
  <2> QED
    BY <2>2, <2>3, <2>5, <2>6 DEF HistoryStep
<1> QED
  BY <1>2, <1>7, <1>8, <1>9

\* Answers touch the ledgers only.
LEMMA RecordStorage ==
  ASSUME StorageInv, RecordAnswer
  PROVE  StorageInv'
<1> USE DEF StorageInv
<1>1. FilesInv'
  BY FilesStay DEF RecordAnswer, directory
<1>2. RequestsTyped'
  BY DEF RecordAnswer, WriterInv, TypeOK, RequestsTyped
<1>3. TypeOK'
  BY <1>2 DEF TypeOK, RecordAnswer, Refuse, directory, Steps
<1> QED
  BY <1>1, <1>3, RefusedWriter DEF RecordAnswer

\* Neither does a refusal or a replayed answer touch the directory.
LEMMA StorageUntouched ==
  ASSUME StorageInv, UNCHANGED storageVars, RequestsTyped'
  PROVE  StorageInv'
<1> USE DEF StorageInv, storageVars, directory, writer
<1>1. FilesInv'
  BY FilesStay
<1>2. TypeOK'
  BY DEF TypeOK
<1>3. WriterInv'
  BY DEF WriterInv, Loadable, Created, Version, Committed
<1> QED
  BY <1>1, <1>2, <1>3

\* Every step keeps the invariant, and extends the committed state if it
\* changes it.
LEMMA StorageNext ==
  ASSUME StorageInv, [Next]_vars
  PROVE  StorageInv' /\ HistoryStep
<1>1. ASSUME UNCHANGED <<snapshots, manifest>>
      PROVE  HistoryStep
  BY <1>1 DEF HistoryStep, Committed, Created, Version
<1>2. CASE Create
  BY <1>1, <1>2, CreateStorage DEF Create, directory
<1>3. CASE Commit
  BY <1>3, CommitStorage
<1>4. CASE RecordAnswer
  BY <1>1, <1>4, RecordStorage DEF RecordAnswer, directory
<1>5. CASE Writing
  BY <1>1, <1>5, SideStorage, AuditStorage, SnapshotStorage, StateStorage, CrashStorage
  DEF Writing, HistoryStep, WriteSide, KeepSide, RefuseSide, ReadTail, RefuseTail, AppendEvent,
      AuditDone, AppendDecision, ReplaceState, Recover, directory
<1>6. ASSUME NEW m \in Requests, Dispatch(m)
      PROVE  StorageInv' /\ HistoryStep
  <2>1. CASE Replay(m)
    <3>1. RequestsTyped'
      BY <2>1 DEF Replay, StorageInv, TypeOK, RequestsTyped
    <3> QED
      BY <1>1, <2>1, <3>1, StorageUntouched DEF Replay, storageVars, directory
  <2>2. ASSUME NEW expected \in 0 .. Version, Created, Accept(m, expected) \/ RefuseVersion(m, expected)
        PROVE  StorageInv' /\ HistoryStep
    <3>1. expected \in Versions
      BY <2>2, NextSnapshot, BoundAssumption DEF Versions, BoundAssumption
    <3>2. RequestsTyped'
      BY <2>2, <3>1 DEF Accept, RefuseVersion, StorageInv, TypeOK, RequestsTyped
    <3>3. CASE Accept(m, expected)
      BY <1>1, <3>2, <3>3, StartStorage, RequestAssumption
      DEF Accept, StartMutation, directory, RequestAssumption
    <3>4. CASE RefuseVersion(m, expected)
      BY <1>1, <3>2, <3>4, StorageUntouched DEF RefuseVersion, storageVars, directory
    <3> QED
      BY <2>2, <3>3, <3>4
  <2> QED
    BY <1>6, <2>1, <2>2 DEF Dispatch
<1>7. ASSUME NEW m \in Mutations, HostMutation(m)
      PROVE  StorageInv' /\ HistoryStep
  <2>1. RequestsTyped'
    BY <1>7 DEF HostMutation, StorageInv, TypeOK, RequestsTyped, requestVars
  <2> QED
    BY <1>1, <1>7, <2>1, StartStorage DEF HostMutation, StartMutation, directory
<1>8. CASE UNCHANGED vars
  <2>1. RequestsTyped'
    BY <1>8 DEF vars, StorageInv, TypeOK, RequestsTyped, requestVars
  <2> QED
    BY <1>1, <1>8, <2>1, StorageUntouched DEF vars, storageVars, directory
<1> QED
  BY <1>2, <1>3, <1>4, <1>5, <1>6, <1>7, <1>8 DEF Next

-----------------------------------------------------------------------------
\* The invariant holds of every Run.
LEMMA StorageAlways == Spec => []StorageInv
BY StorageInitial, StorageNext, PTL DEF Spec

\* The files, the writer and the ledgers keep their types, whatever crashes.
THEOREM StorageTypeCorrect == Spec => []TypeOK
<1>1. StorageInv => TypeOK
  BY DEF StorageInv
<1> QED
  BY <1>1, StorageAlways, PTL

\* The committed state is created once and then only extended, by one whole
\* mutation at a time; no crash takes anything back.
THEOREM HistoryImplemented == Spec => ImplementsHistory
<1>1. Init => History!Init
  BY DEF Init, StorageInit, History!Init, Committed, Created
<1>2. ASSUME StorageInv, [Next]_vars
      PROVE  [History!Next]_Committed
  <2>1. HistoryStep
    BY <1>2, StorageNext
  <2> QED
    BY <2>1 DEF HistoryStep, History!Next, History!Create, History!Commit, History!Break
<1> QED
  BY <1>1, <1>2, StorageAlways, PTL DEF Spec, ImplementsHistory, History!Spec

\* Without torn writes a Run that was created can always be loaded, however
\* often its commits are interrupted.
THEOREM CommittedReadableCorrect == ~TornWrites => (Spec => []CommittedReadable)
<1>1. ~TornWrites /\ StorageInv => CommittedReadable
  <2> SUFFICES ASSUME ~TornWrites, StorageInv PROVE Committed # Torn
    BY DEF CommittedReadable
  <2> QED
    BY NextSnapshot, ValueAssumption DEF StorageInv, FilesInv, Committed
<1>2. SUFFICES ASSUME ~TornWrites PROVE Spec => []CommittedReadable
  OBVIOUS
<1>3. StorageInv => CommittedReadable
  BY <1>1, <1>2
<1> QED
  BY <1>3, StorageAlways, PTL

-----------------------------------------------------------------------------
(* What the operations of a Run keep through crashes, torn writes and      *)
(* repeated envelopes: a request has its effect once, every Decision is    *)
(* linked to its Event, and the committed part of the Event Log tells of   *)
(* every committed mutation.                                               *)

Whole(v) == v \in Versions /\ snapshots[v] \notin {None, Torn}

\* An envelope is only ever accepted at the version it expects, so a request
\* is found in any Snapshot, committed or left behind, right after that one.
EnvelopeInv ==
  /\ \A v \in Versions : Whole(v) =>
       \A i \in 1 .. v : snapshots[v][i] \in Requests => envelope[snapshots[v][i]] = i - 1
  /\ phase = "mutation" /\ mutation \in Requests => envelope[mutation] = Version

\* A step that writes no Snapshot and lets no envelope be forgotten.
LEMMA EnvelopeStay ==
  ASSUME StorageInv, EnvelopeInv, UNCHANGED snapshots,
         \A m \in Requests : envelope[m] # None => envelope'[m] = envelope[m],
         phase' = "mutation" /\ mutation' \in Requests => envelope'[mutation'] = Version'
  PROVE  EnvelopeInv'
<1> SUFFICES ASSUME NEW v \in Versions, Whole(v), NEW i \in 1 .. v, snapshots[v][i] \in Requests
             PROVE  envelope'[snapshots[v][i]] = i - 1
  BY DEF EnvelopeInv, Whole
<1>1. envelope[snapshots[v][i]] = i - 1
  BY DEF EnvelopeInv
<1>2. i - 1 \in Versions
  BY BoundAssumption DEF Versions, BoundAssumption
<1> QED
  BY <1>1, <1>2, ValueAssumption

\* Every step keeps the envelopes and the Snapshots they led to in agreement.
LEMMA EnvelopeNext ==
  ASSUME StorageInv, EnvelopeInv, [Next]_vars
  PROVE  EnvelopeInv'
<1>1. CASE Create
  BY <1>1, EnvelopeStay DEF Create, directory, requestVars
<1>2. CASE Commit
  BY <1>2, EnvelopeStay DEF Commit, ReplaceManifest, Refuse, GoTo, requestVars, EnvelopeInv
<1>3. CASE RecordAnswer
  BY <1>3, EnvelopeStay DEF RecordAnswer, Refuse, directory
<1>4. CASE Writing
  <2>1. CASE UNCHANGED snapshots
    <3>1. UNCHANGED <<manifest, envelope>> /\ ((phase' = phase /\ mutation' = mutation) \/ phase' = "none")
      BY <1>4 DEF Writing, WriteSide, KeepSide, RefuseSide, ReadTail, RefuseTail, AppendEvent, AuditDone,
                  AppendDecision, WriteSnapshot, ReplaceState, Crash, Recover, Refuse, GoTo,
                  directory, writer, requestVars
    <3> QED
      BY <2>1, <3>1, EnvelopeStay DEF EnvelopeInv, Version
  <2>2. CASE WriteSnapshot /\ snapshots' # snapshots
    <3>1. phase = "mutation" \/ phase = "create" \/ phase = "result"
      BY <2>2 DEF WriteSnapshot, StorageInv, WriterInv, TypeOK
    <3>2. next \in Snapshots /\ Len(next) \in Versions /\ UNCHANGED <<manifest, phase, mutation, envelope>>
      BY <1>4, <2>2, <3>1, NextSnapshot, SnapshotSeq DEF WriteSnapshot, GoTo, Writing, requestVars
    <3>3. \A i \in 1 .. Len(next) : next[i] \in Requests => envelope[next[i]] = i - 1
      <4>1. CASE phase = "create"
        BY <4>1, NextSnapshot
      <4>2. CASE phase = "mutation"
        <5>1. Committed \in Snapshots /\ Len(Committed) = Version /\ Version < MaxVersion
              /\ mutation \in Mutations /\ next = Append(Committed, mutation) /\ Version \in Versions
          BY <4>2, NextSnapshot DEF StorageInv, WriterInv, Loadable
        <5>2. Whole(Version) /\ Committed = snapshots[Version]
          BY <5>1, <4>2, SnapshotValue DEF StorageInv, WriterInv, Loadable, Committed, Whole
        <5>3. /\ Len(next) = Version + 1 /\ next[Version + 1] = mutation
              /\ \A i \in 1 .. Version : next[i] = Committed[i]
          BY <5>1, SnapshotAppend
        <5>4. Version \in Nat
          BY <5>1, SnapshotSeq
        <5> QED
          BY <4>2, <5>1, <5>2, <5>3, <5>4 DEF EnvelopeInv
      <4>3. CASE phase = "result"
        <5>1. next = Committed /\ Loadable /\ Len(next) = Version /\ Version \in Versions
          BY <4>3, NextSnapshot DEF StorageInv, WriterInv, Loadable
        <5>2. Whole(Version) /\ next = snapshots[Version]
          BY <5>1, <3>2, SnapshotValue DEF Loadable, Committed, Whole
        <5> QED
          BY <5>1, <5>2 DEF EnvelopeInv
      <4> QED
        BY <3>1, <4>1, <4>2, <4>3
    <3>4. \A v \in Versions : snapshots'[v] = snapshots[v] \/ (v = Len(next) /\ snapshots'[v] = next)
      BY <2>2, <3>2 DEF WriteSnapshot, StorageInv, TypeOK
    <3> QED
      BY <3>2, <3>3, <3>4 DEF EnvelopeInv, Whole, Version
  <2>3. CASE Crash /\ snapshots' # snapshots
    <3>1. snapshots' = [snapshots EXCEPT ![Len(next)] = Torn] /\ phase' = "none" /\ UNCHANGED envelope
      BY <1>4, <2>3 DEF Crash, TearFile, Refuse, Writing, requestVars
    <3>2. \A v \in Versions : snapshots'[v] = snapshots[v] \/ snapshots'[v] = Torn
      BY <3>1 DEF StorageInv, TypeOK
    <3> QED
      BY <3>1, <3>2 DEF EnvelopeInv, Whole
  <2> QED
    BY <1>4, <2>1, <2>2, <2>3
    DEF Writing, WriteSide, KeepSide, RefuseSide, ReadTail, RefuseTail, AppendEvent, AuditDone,
        AppendDecision, ReplaceState, Recover, directory
<1>5. ASSUME NEW m \in Requests, Dispatch(m)
      PROVE  EnvelopeInv'
  <2>1. CASE Replay(m)
    BY <2>1, EnvelopeStay DEF Replay, storageVars, directory, writer, EnvelopeInv, Version
  <2>2. ASSUME NEW expected \in 0 .. Version, envelope[m] \in {None, expected},
               Accept(m, expected) \/ RefuseVersion(m, expected)
        PROVE  EnvelopeInv'
    <3>1. /\ envelope' = [envelope EXCEPT ![m] = expected] /\ UNCHANGED <<snapshots, manifest>>
          /\ \/ phase' = "mutation" /\ mutation' = m /\ expected = Version
             \/ UNCHANGED <<phase, mutation>>
      BY <2>2 DEF Accept, RefuseVersion, StartMutation, storageVars, directory, writer
    <3>2. \A r \in Requests : envelope'[r] = IF r = m THEN expected ELSE envelope[r]
      BY <3>1 DEF StorageInv, TypeOK, RequestsTyped
    <3>3. UNCHANGED <<phase, mutation>> => phase # "mutation"
      BY <2>2 DEF Accept, RefuseVersion, StartMutation, StorageInv, WriterInv
    <3> QED
      BY <2>2, <3>1, <3>2, <3>3, EnvelopeStay DEF Version
  <2> QED
    BY <1>5, <2>1, <2>2 DEF Dispatch
<1>6. ASSUME NEW m \in Mutations, HostMutation(m)
      PROVE  EnvelopeInv'
  BY <1>6, EnvelopeStay DEF HostMutation, StartMutation, directory, requestVars
<1>7. CASE UNCHANGED vars
  BY <1>7, EnvelopeStay DEF vars, storageVars, directory, writer, requestVars, EnvelopeInv, Version
<1> QED
  BY <1>1, <1>2, <1>3, <1>4, <1>5, <1>6, <1>7 DEF Next

\* A request has its effect once, however often its client repeats it and
\* wherever the crash was that made it do so.
THEOREM AppliedOnceCorrect == Spec => []AppliedOnce
<1>1. Init => EnvelopeInv
  BY DEF Init, StorageInit, EnvelopeInv, Whole
<1>2. StorageInv /\ EnvelopeInv => AppliedOnce
  <2> SUFFICES ASSUME StorageInv, EnvelopeInv, Committed \notin {None, Torn},
                      NEW m \in Requests, NEW i \in DOMAIN Committed, NEW j \in DOMAIN Committed,
                      Committed[i] = m, Committed[j] = m
               PROVE  i = j
    BY DEF AppliedOnce
  <2>1. Loadable /\ Version \in Versions
    BY NextSnapshot DEF Loadable, Committed
  <2>2. Committed = snapshots[Version] /\ Whole(Version) /\ DOMAIN Committed = 1 .. Version
    BY <2>1, NextSnapshot, SnapshotSeq, LenProperties DEF Committed, Whole, Loadable
  <2> QED
    BY <2>1, <2>2 DEF EnvelopeInv
<1> QED
  BY <1>1, <1>2, StorageAlways, EnvelopeNext, PTL DEF Spec

-----------------------------------------------------------------------------
\* While a mutation's Events are being written, the last line of the log is the
\* last of them; a Decision is appended after all of them.
TailInv ==
  /\ manifest.offset <= Len(events)
  /\ phase = "mutation" /\ at \in {"audit", "decide"} /\ audited > 0 =>
       Len(events) > 0 /\ events[Len(events)] = Event(mutation, audited)
  /\ phase = "mutation" /\ at = "decide" => audited > 0
LinkInv == TailInv /\ DecisionsLinked

\* What takes a staged mutation's Events up compares them all.
LEMMA ReusedTail ==
  ASSUME StorageInv, TailInv, ReadTail, phase = "mutation"
  PROVE  /\ audited' \in Nat /\ audited' <= EventsOf[mutation]
         /\ audited' > 0 => manifest.offset + audited' = Len(events)
         /\ \A i \in 1 .. audited' : events[manifest.offset + i] = Event(mutation, i)
<1>1. CASE mutation \in Staged
  <2>1. manifest.offset \in Nat /\ Len(events) \in Nat /\ manifest.offset <= Len(events)
    BY DEF StorageInv, TypeOK, TailInv
  <2>2. /\ Len(UncommittedEvents) = Len(events) - manifest.offset
        /\ \A i \in 1 .. Len(events) - manifest.offset :
             UncommittedEvents[i] = events[manifest.offset + i]
    <3> DEFINE Lines == [version : Versions, mutation : Mutations \cup {None}, part : Nat]
    <3>1. events \in Seq(Lines)
      BY DEF StorageInv, TypeOK
    <3> HIDE DEF Lines
    <3>2. \A i \in manifest.offset + 1 .. Len(events) : events[i] \in Lines
      BY <2>1, <3>1
    <3> DEFINE first == manifest.offset + 1
               last == Len(events)
    <3>3. first \in Int /\ last \in Int /\ last >= first - 1
      BY <2>1
    <3>4. UncommittedEvents = SubSeq(events, first, last)
      BY DEF UncommittedEvents
    <3>5. \A i \in first .. last : events[i] \in Lines
      BY <3>2
    <3> HIDE DEF first, last
    <3>6. /\ Len(UncommittedEvents) = IF first <= last THEN last - first + 1 ELSE 0
          /\ \A i \in 1 .. last - first + 1 : UncommittedEvents[i] = events[first + i - 1]
      BY <3>3, <3>4, <3>5, SubSeqProperties
    <3>7. /\ Len(UncommittedEvents) = last - first + 1
          /\ \A i \in 1 .. last - first + 1 : UncommittedEvents[i] = events[first + i - 1]
      BY <3>3, <3>6
    <3> QED
      BY <2>1, <3>7 DEF first, last
  <2>3. audited' = Len(UncommittedEvents) /\ OwnTail
    BY <1>1 DEF ReadTail
  <2>4. Label = mutation /\ Parts = EventsOf[mutation]
    BY DEF Label, Parts
  <2>5. audited' <= EventsOf[mutation]
    BY <2>3, <2>4 DEF OwnTail
  <2>6. \A i \in 1 .. audited' : UncommittedEvents[i] = Event(mutation, i)
    BY <2>3, <2>4 DEF OwnTail
  <2>7. audited' = Len(events) - manifest.offset
    BY <2>2, <2>3
  <2>8. \A i \in 1 .. audited' : events[manifest.offset + i] = Event(mutation, i)
    BY <2>2, <2>6, <2>7
  <2> QED
    BY <2>1, <2>5, <2>7, <2>8
<1>2. CASE mutation \notin Staged
  <2>1. audited' = 0
    BY <1>2 DEF ReadTail
  <2>2. EventsOf[mutation] \in Nat
    BY MutationAssumption DEF MutationAssumption, StorageInv, WriterInv
  <2> QED
    BY <2>1, <2>2
<1> QED
  BY <1>1, <1>2

\* Where neither log nor writer moves on, nor the Manifest past the log.
LEMMA LinkStay ==
  ASSUME LinkInv, UNCHANGED <<events, decisions>>, manifest'.offset <= Len(events),
         at' \notin {"audit", "decide"} \/ phase' # "mutation"
  PROVE  LinkInv'
BY DEF LinkInv, TailInv, DecisionsLinked

\* Every step keeps the Decisions linked.
LEMMA LinkNext ==
  ASSUME StorageInv, LinkInv, [Next]_vars
  PROVE  LinkInv'
<1> USE DEF LinkInv
<1>0. manifest.offset <= Len(events) /\ Len(events) \in Nat
  BY DEF TailInv, StorageInv, TypeOK
<1>1. CASE Create
  BY <1>0, <1>1, LinkStay DEF Create, directory
<1>2. CASE Commit
  <2>1. UNCHANGED <<events, decisions>> /\ manifest'.offset = Len(events)
    BY <1>2 DEF Commit, ReplaceManifest
  <2>2. at' \notin {"audit", "decide"}
    BY <1>2 DEF Commit, Refuse, GoTo
  <2> QED
    BY <1>0, <2>1, <2>2, LinkStay
<1>3. CASE RecordAnswer
  BY <1>0, <1>3, LinkStay DEF RecordAnswer, Refuse, directory
<1>4. CASE Writing
  <2>1. CASE WriteSide \/ KeepSide \/ RefuseSide \/ RefuseTail \/ Crash \/ WriteSnapshot \/ ReplaceState
    BY <1>0, <2>1, LinkStay
    DEF WriteSide, KeepSide, RefuseSide, RefuseTail, Crash, WriteSnapshot, ReplaceState, Refuse, GoTo, directory
  <2>2. CASE Recover
    BY <1>0, <2>2, LinkStay DEF Recover, writer
  <2>3. CASE ReadTail
    <3>1. at' = "audit" /\ UNCHANGED <<events, decisions, manifest, phase, mutation, next>>
      BY <2>3 DEF ReadTail, GoTo, directory
    <3>2. CASE phase = "mutation"
      <4>1. audited' > 0 => Len(events) > 0 /\ events[Len(events)] = Event(mutation, audited')
        <5>1. audited' > 0 => /\ audited' \in 1 .. audited'
                              /\ events[manifest.offset + audited'] = Event(mutation, audited')
                              /\ manifest.offset + audited' = Len(events)
          BY <2>3, <3>2, ReusedTail
        <5> QED
          BY <1>0, <5>1, ReusedTail, <2>3, <3>2 DEF StorageInv, TypeOK
      <4> QED
        BY <3>1, <4>1 DEF TailInv, DecisionsLinked, Event
    <3>3. CASE phase # "mutation"
      BY <1>0, <3>1, <3>3, LinkStay
    <3> QED
      BY <3>2, <3>3
  <2>4. CASE AppendEvent
    <3> DEFINE new == Event(Label, audited + 1)
    <3>1. events' = Append(events, new) /\ audited' = audited + 1 /\ audited \in Nat
          /\ UNCHANGED <<manifest, decisions, at, phase, mutation, next>> /\ at = "audit"
      BY <2>4 DEF AppendEvent, StorageInv, TypeOK
    <3>2. Len(events') = Len(events) + 1 /\ events'[Len(events) + 1] = new
          /\ \A i \in 1 .. Len(events) : events'[i] = events[i]
          /\ DOMAIN events = 1 .. Len(events) /\ DOMAIN events' = 1 .. Len(events')
      <4>1. events \in Seq([version : Versions, mutation : Mutations \cup {None}, part : Nat])
            /\ events' \in Seq([version : Versions, mutation : Mutations \cup {None}, part : Nat])
        BY <1>4, StorageNext DEF StorageInv, TypeOK, Next
      <4> HIDE DEF new
      <4> QED
        BY <3>1, <4>1
    <3>3. phase = "mutation" => new = Event(mutation, audited)'
      BY <3>1 DEF Label, Event
    <3>4. TailInv'
      <4> HIDE DEF new
      <4>1. (phase = "mutation")' => events'[Len(events')] = Event(mutation, audited)'
        BY <3>1, <3>2, <3>3
      <4>2. Len(events') > 0 /\ manifest'.offset <= Len(events')
        BY <1>0, <3>1, <3>2, StorageNext, <1>4 DEF StorageInv, TypeOK
      <4> QED
        BY <3>1, <4>1, <4>2 DEF TailInv
    <3>5. DecisionsLinked'
      BY <1>0, <3>1, <3>2 DEF DecisionsLinked
    <3> QED
      BY <3>4, <3>5
  <2>5. CASE AuditDone
    <3>1. UNCHANGED <<events, decisions, manifest, phase, mutation, next, audited>>
          /\ at = "audit" /\ audited = Parts
      BY <2>5 DEF AuditDone, GoTo, directory
    <3>2. phase = "mutation" => audited > 0
      BY <3>1, MutationAssumption DEF Parts, MutationAssumption, StorageInv, WriterInv
    <3> QED
      BY <3>1, <3>2 DEF TailInv, DecisionsLinked, Event
  <2>6. CASE AppendDecision
    <3> DEFINE entry == [event_offset |-> Len(events), mutation |-> mutation, version |-> Len(next)]
    <3>1. /\ decisions' = decisions \/ decisions' = Append(decisions, entry)
          /\ UNCHANGED <<events, manifest>> /\ at = "decide" /\ at' = "snapshot"
      BY <2>6 DEF AppendDecision, Logged, GoTo
    <3>2. phase = "mutation"
      BY <3>1 DEF StorageInv, WriterInv, TypeOK
    <3>3. Len(events) \in DOMAIN events /\ events[Len(events)].mutation = mutation
          /\ events[Len(events)].version = Len(next)
      BY <1>0, <3>1, <3>2 DEF TailInv, Event, StorageInv, TypeOK
    <3>4. \A i \in DOMAIN decisions' : (i \in DOMAIN decisions /\ decisions'[i] = decisions[i])
                                       \/ decisions'[i] = entry
      <4> DEFINE Entries == [event_offset : Nat, mutation : Mutations, version : Versions]
      <4>1. decisions \in Seq(Entries)
        BY DEF StorageInv, TypeOK
      <4> HIDE DEF Entries, entry
      <4> QED
        BY <3>1, <4>1
    <3>5. DecisionsLinked'
      BY <3>1, <3>3, <3>4 DEF DecisionsLinked
    <3> QED
      BY <1>0, <3>1, <3>5 DEF TailInv
  <2> QED
    BY <1>4, <2>1, <2>2, <2>3, <2>4, <2>5, <2>6 DEF Writing
<1>5. ASSUME NEW m \in Mutations, StartMutation(m)
      PROVE  LinkInv'
  BY <1>0, <1>5, LinkStay DEF StartMutation, directory
<1>6. ASSUME UNCHANGED storageVars
      PROVE  LinkInv'
  BY <1>6 DEF storageVars, directory, writer, TailInv, DecisionsLinked, Event
<1> QED
  BY <1>1, <1>2, <1>3, <1>4, <1>5, <1>6, RequestAssumption
  DEF Next, Dispatch, Accept, RefuseVersion, Replay, HostMutation, vars, RequestAssumption

\* Every entry of the Decision Log points to an Event of the decision it records.
THEOREM DecisionsLinkedCorrect == Spec => []DecisionsLinked
<1>1. Init => LinkInv
  BY DEF Init, StorageInit, LinkInv, TailInv, DecisionsLinked
<1>2. LinkInv => DecisionsLinked
  BY DEF LinkInv
<1> QED
  BY <1>1, <1>2, StorageAlways, LinkNext, PTL DEF Spec

-----------------------------------------------------------------------------
\* All Events of mutation m at version v are among the first n lines.
Covered(m, v, n) ==
  \A part \in 1 .. EventsOf[m] : \E i \in 1 .. n :
    events[i] = [version |-> v, mutation |-> m, part |-> part]
\* Those of the committed mutations are in the committed part of the log, those
\* of a Snapshot left behind anywhere in it: it may yet be adopted.
FilesCovered ==
  Loadable =>
    /\ \A v \in 1 .. Version : Covered(Committed[v], v, manifest.offset)
    /\ \A v \in Versions : v = Version + 1 /\ Whole(v) => Covered(snapshots[v][v], v, Len(events))
WriterCovered ==
  phase = "mutation" /\ at \in {"audit", "decide", "snapshot", "state", "manifest"} =>
    /\ \A part \in 1 .. audited : \E i \in 1 .. Len(events) : events[i] = Event(mutation, part)
    /\ at # "audit" => audited = EventsOf[mutation]
CoverInv == TailInv /\ FilesCovered /\ WriterCovered

EventsExtended ==
  Len(events) <= Len(events') /\ \A i \in 1 .. Len(events) : events'[i] = events[i]

\* Lines are only appended, so what is covered stays so.
LEMMA FilesCoveredStay ==
  ASSUME StorageInv, TailInv, FilesCovered, UNCHANGED <<snapshots, manifest>>, EventsExtended,
         Len(events') \in Nat
  PROVE  FilesCovered'
<1>1. manifest.offset \in Nat /\ Len(events) \in Nat /\ manifest.offset <= Len(events)
  BY DEF StorageInv, TypeOK, TailInv
<1>2. Version' = Version /\ Committed' = Committed /\ (Loadable' <=> Loadable)
  BY DEF Version, Committed, Created, Loadable
<1>3. \A m, v : Covered(m, v, manifest.offset) => Covered(m, v, manifest.offset)'
  BY <1>1 DEF Covered, EventsExtended
<1>4. \A m, v : Covered(m, v, Len(events)) => Covered(m, v, Len(events))'
  BY <1>1 DEF Covered, EventsExtended
<1> QED
  BY <1>2, <1>3, <1>4 DEF FilesCovered, Whole

\* A Snapshot is written when its Events are there.
LEMMA FilesCoveredWritten ==
  ASSUME StorageInv, CoverInv, WriteSnapshot
  PROVE  FilesCovered'
<1>1. UNCHANGED <<manifest, events>>
  BY DEF WriteSnapshot
<1>2. CASE snapshots' = snapshots
  BY <1>1, <1>2, FilesCoveredStay DEF CoverInv, EventsExtended, StorageInv, TypeOK
<1>3. CASE snapshots' # snapshots /\ Loadable'
  <2>1. phase \in {"create", "mutation", "result"} /\ next \in Snapshots /\ Len(next) \in Versions
    BY NextSnapshot, SnapshotSeq DEF WriteSnapshot, StorageInv, WriterInv, TypeOK
  <2>2. snapshots[Len(next)] = None
    BY <1>3, <2>1 DEF WriteSnapshot, StorageInv, TypeOK
  <2>3. snapshots' = [snapshots EXCEPT ![Len(next)] = next]
    BY <2>2 DEF WriteSnapshot
  <2>4. Committed' = Committed /\ Loadable /\ Version' = Version
    BY <1>1, <1>3, <2>2, <2>3, SnapshotFile DEF WriteSnapshot, Version
  <2>5. phase = "mutation" /\ mutation \in Mutations /\ Len(next) = Version + 1
        /\ Committed \in Snapshots /\ Len(Committed) = Version /\ Version < MaxVersion
        /\ next = Append(Committed, mutation) /\ Version \in Nat
    BY <2>1, <2>2, <2>4, NextSnapshot DEF StorageInv, WriterInv, Loadable, Committed, FilesInv, WriteSnapshot
  <2>6. next[Version + 1] = mutation
    BY <2>5, SnapshotAppend
  <2>7. Covered(mutation, Version + 1, Len(events))
    <3>1. audited = EventsOf[mutation]
          /\ \A part \in 1 .. audited : \E i \in 1 .. Len(events) : events[i] = Event(mutation, part)
      BY <2>5 DEF CoverInv, WriterCovered, WriteSnapshot
    <3> QED
      BY <2>5, <3>1 DEF Covered, Event
  <2>8. snapshots'[Version + 1] = next
    BY <2>1, <2>3, <2>5 DEF StorageInv, TypeOK
  <2>9. \A m, v, n : Covered(m, v, n)' <=> Covered(m, v, n)
    BY <1>1 DEF Covered
  <2> QED
    BY <1>1, <2>4, <2>6, <2>7, <2>8, <2>9 DEF CoverInv, FilesCovered
<1> QED
  BY <1>2, <1>3 DEF FilesCovered

\* The Manifest takes the whole log over with the Snapshot.
LEMMA FilesCoveredCommitted ==
  ASSUME StorageInv, CoverInv, Commit
  PROVE  FilesCovered'
<1> SUFFICES ASSUME Loadable' PROVE FilesCovered'
  BY DEF FilesCovered
<1>1. at = "manifest" /\ manifest' = [version |-> Len(next), offset |-> Len(events)]
      /\ UNCHANGED <<snapshots, events>>
  BY DEF Commit, ReplaceManifest
<1>2. phase \in {"create", "mutation", "result"} /\ Len(next) \in Versions /\ Len(next) \in Nat
  BY <1>1, NextSnapshot, SnapshotSeq, BoundAssumption
  DEF StorageInv, WriterInv, TypeOK, Versions, BoundAssumption
<1>3. Version' = Len(next) /\ Committed' = snapshots[Len(next)] /\ snapshots[Len(next)] # Torn
      /\ manifest'.offset = Len(events)
  BY <1>1, <1>2, ValueAssumption DEF Created, Version, Committed, Loadable
<1>4. manifest.offset \in Nat /\ Len(events) \in Nat /\ manifest.offset <= Len(events)
  BY DEF StorageInv, TypeOK, CoverInv, TailInv
<1>5. \A m, v : Covered(m, v, manifest.offset) => Covered(m, v, Len(events))
  BY <1>4 DEF Covered
<1>6. \A m, v, n : Covered(m, v, n)' <=> Covered(m, v, n)
  BY <1>1 DEF Covered
<1>7. Versions \subseteq Nat
  BY BoundAssumption DEF Versions, BoundAssumption
<1>8. CASE phase = "create"
  <2>1. ~ Created /\ Len(next) = 0
    BY <1>1, <1>8, NextSnapshot DEF StorageInv, WriterInv
  <2>2. \A v \in Versions : v = 1 => snapshots[v] = None
    BY <2>1 DEF StorageInv, FilesInv
  <2> QED
    BY <1>1, <1>3, <2>1, <2>2 DEF FilesCovered, Whole
<1>9. CASE phase = "mutation"
  <2>1. Created /\ Loadable /\ Version \in Nat /\ Len(next) = Version + 1
        /\ Committed \in Snapshots /\ Len(Committed) = Version /\ Version < MaxVersion
    BY <1>9, NextSnapshot DEF StorageInv, WriterInv, Loadable
  <2>2. snapshots[Version + 1] \notin {None, Torn}
    BY <1>1, <1>3, <2>1 DEF StorageInv, WriterInv
  <2>3. PICK m \in Mutations : snapshots[Version + 1] = Append(Committed, m)
    BY <1>2, <2>1, <2>2 DEF StorageInv, FilesInv
  <2>4. \A v \in 1 .. Version : Committed'[v] = Committed[v]
    BY <1>3, <2>1, <2>3, SnapshotAppend
  <2>5. \A v \in 1 .. Version : Covered(Committed'[v], v, Len(events))
    BY <1>5, <2>1, <2>4 DEF CoverInv, FilesCovered
  <2>6. Covered(Committed'[Version + 1], Version + 1, Len(events))
    BY <1>2, <1>3, <2>1, <2>2 DEF CoverInv, FilesCovered, Whole
  <2>7. \A v \in Versions : v = Len(next) + 1 => snapshots[v] = None
    BY <1>2, <1>7, <2>1 DEF StorageInv, FilesInv
  <2> QED
    BY <1>1, <1>3, <1>6, <2>1, <2>5, <2>6, <2>7 DEF FilesCovered, Whole
<1>10. CASE phase = "result"
  <2>1. Loadable /\ Len(next) = Version /\ Committed' = Committed
    BY <1>3, <1>10, NextSnapshot DEF StorageInv, WriterInv, Committed, Loadable
  <2> QED
    BY <1>1, <1>3, <1>5, <1>6, <2>1 DEF CoverInv, FilesCovered, Whole
<1> QED
  BY <1>2, <1>8, <1>9, <1>10

\* Every step keeps the Snapshots covered by the log.
LEMMA CoverNext ==
  ASSUME StorageInv, CoverInv, [Next]_vars
  PROVE  FilesCovered' /\ WriterCovered'
<1> USE DEF CoverInv
<1>0. Len(events) \in Nat /\ Len(events') \in Nat /\ manifest.offset \in Nat
  BY StorageNext DEF StorageInv, TypeOK
<1>1. ASSUME UNCHANGED <<snapshots, manifest, events>>
      PROVE  FilesCovered'
  BY <1>0, <1>1, FilesCoveredStay DEF EventsExtended
<1>2. ASSUME phase' # "mutation" \/ at' \in {"idle", "side", "tail", "ledger"}
      PROVE  WriterCovered'
  BY <1>2 DEF WriterCovered
<1>3. ASSUME UNCHANGED <<events, phase, mutation, next, audited>>, at' # "audit", audited = EventsOf[mutation],
             at \in {"audit", "decide", "snapshot", "state", "manifest"} \/ phase # "mutation"
      PROVE  WriterCovered'
  BY <1>3 DEF WriterCovered, Event
<1>4. CASE Create
  BY <1>1, <1>2, <1>4 DEF Create, directory
<1>5. CASE Commit
  <2>1. phase' # "mutation" \/ at' \in {"idle", "side", "tail", "ledger"}
    BY <1>5 DEF Commit, Refuse, GoTo
  <2> QED
    BY <1>2, <1>5, <2>1, FilesCoveredCommitted
<1>6. CASE RecordAnswer
  BY <1>1, <1>2, <1>6 DEF RecordAnswer, Refuse, directory
<1>7. CASE Writing
  <2>1. CASE WriteSide \/ KeepSide \/ RefuseSide \/ RefuseTail
    BY <1>1, <1>2, <2>1 DEF WriteSide, KeepSide, RefuseSide, RefuseTail, Refuse, GoTo, directory
  <2>2. CASE Recover
    BY <1>1, <2>2 DEF Recover, writer, WriterCovered
  <2>3. CASE ReadTail
    <3>1. UNCHANGED <<snapshots, manifest, events, phase, mutation, next>> /\ at' = "audit"
      BY <2>3 DEF ReadTail, GoTo, directory
    <3>2. phase = "mutation" =>
            \A part \in 1 .. audited' : \E i \in 1 .. Len(events) : events[i] = Event(mutation, part)
      <4> SUFFICES ASSUME phase = "mutation", NEW part \in 1 .. audited'
                   PROVE  \E i \in 1 .. Len(events) : events[i] = Event(mutation, part)
        OBVIOUS
      <4>1. /\ audited' \in Nat /\ (audited' > 0 => manifest.offset + audited' = Len(events))
            /\ events[manifest.offset + part] = Event(mutation, part)
        BY <2>3, ReusedTail
      <4>2. manifest.offset + part \in 1 .. Len(events)
        BY <1>0, <4>1
      <4> QED
        BY <4>1, <4>2
    <3> QED
      BY <1>1, <3>1, <3>2 DEF WriterCovered, Event
  <2>4. CASE AppendEvent
    <3> DEFINE new == Event(Label, audited + 1)
    <3>1. events' = Append(events, new) /\ audited' = audited + 1 /\ audited \in Nat /\ audited < Parts
          /\ UNCHANGED <<snapshots, manifest, at, phase, mutation, next>> /\ at = "audit"
      BY <2>4 DEF AppendEvent, StorageInv, TypeOK
    <3>2. Len(events') = Len(events) + 1 /\ events'[Len(events) + 1] = new
          /\ \A i \in 1 .. Len(events) : events'[i] = events[i]
      <4>1. events \in Seq([version : Versions, mutation : Mutations \cup {None}, part : Nat])
        BY DEF StorageInv, TypeOK
      <4> HIDE DEF new
      <4> QED
        BY <3>1, <4>1
    <3>3. FilesCovered'
      BY <1>0, <3>1, <3>2, FilesCoveredStay DEF EventsExtended
    <3>4. ASSUME phase = "mutation", NEW part \in 1 .. audited'
          PROVE  \E i \in 1 .. Len(events') : events'[i] = Event(mutation, part)'
      <4>1. CASE part = audited + 1
        <5>1. new = Event(mutation, part)'
          BY <3>1, <3>4, <4>1 DEF Label, Event
        <5> HIDE DEF new
        <5> QED
          BY <1>0, <3>2, <5>1
      <4>2. CASE part \in 1 .. audited
        <5>1. PICK i \in 1 .. Len(events) : events[i] = Event(mutation, part)
          BY <3>1, <3>4, <4>2 DEF WriterCovered
        <5>2. Event(mutation, part)' = Event(mutation, part)
          BY <3>1 DEF Event
        <5>3. i \in 1 .. Len(events') /\ events'[i] = events[i]
          BY <1>0, <3>2
        <5> QED
          BY <5>1, <5>2, <5>3
      <4> QED
        BY <3>1, <4>1, <4>2
    <3> QED
      BY <3>1, <3>3, <3>4 DEF WriterCovered
  <2>5. CASE AuditDone
    <3>1. UNCHANGED <<snapshots, manifest, events, phase, mutation, next, audited>> /\ at' # "audit"
          /\ at = "audit" /\ audited = Parts
      BY <2>5 DEF AuditDone, GoTo, directory
    <3>2. phase = "mutation" => audited = EventsOf[mutation]
      BY <3>1 DEF Parts
    <3> QED
      BY <1>1, <1>2, <1>3, <3>1, <3>2
  <2>6. CASE AppendDecision \/ WriteSnapshot \/ ReplaceState
    <3>1. UNCHANGED <<manifest, events, phase, mutation, next, audited>>
          /\ at \in {"decide", "snapshot", "state"} /\ at' # "audit"
      BY <2>6 DEF AppendDecision, WriteSnapshot, ReplaceState, GoTo
    <3>2. phase = "mutation" => audited = EventsOf[mutation]
      BY <3>1 DEF WriterCovered
    <3>3. WriterCovered'
      BY <1>2, <1>3, <3>1, <3>2
    <3>4. FilesCovered'
      BY <1>1, <2>6, FilesCoveredWritten DEF AppendDecision, ReplaceState
    <3> QED
      BY <3>3, <3>4
  <2>7. CASE Crash
    <3>1. UNCHANGED <<manifest, events>> /\ phase' = "none"
      BY <2>7 DEF Crash, Refuse
    <3>2. \A v \in Versions : snapshots'[v] = snapshots[v] \/ snapshots'[v] = Torn
      BY <2>7 DEF Crash, TearFile, StorageInv, TypeOK
    <3>3. Committed' = Committed
      BY <1>7, <2>7, CrashStorage DEF Writing
    <3>4. Version' = Version /\ (Loadable' <=> Loadable)
      BY <3>1, <3>3 DEF Version, Loadable, Created
    <3>5. \A m, v, n : Covered(m, v, n)' <=> Covered(m, v, n)
      BY <3>1 DEF Covered
    <3>6. FilesCovered'
      BY <3>1, <3>2, <3>3, <3>4, <3>5 DEF FilesCovered, Whole
    <3> QED
      BY <1>2, <3>1, <3>6
  <2> QED
    BY <1>7, <2>1, <2>2, <2>3, <2>4, <2>5, <2>6, <2>7 DEF Writing
<1>8. ASSUME NEW m \in Mutations, StartMutation(m)
      PROVE  FilesCovered' /\ WriterCovered'
  BY <1>1, <1>2, <1>8 DEF StartMutation, directory
<1>9. ASSUME UNCHANGED storageVars
      PROVE  FilesCovered' /\ WriterCovered'
  BY <1>1, <1>9 DEF storageVars, directory, writer, WriterCovered, Event
<1> QED
  BY <1>4, <1>5, <1>6, <1>7, <1>8, <1>9, RequestAssumption
  DEF Next, Dispatch, Accept, RefuseVersion, Replay, HostMutation, vars, RequestAssumption

\* Every mutation the committed state was made by has all its Events within the
\* committed part of the log, those of adopted Snapshots included.
THEOREM AuditCompleteCorrect == Spec => []AuditComplete
<1>1. Init => LinkInv /\ CoverInv
  BY DEF Init, StorageInit, LinkInv, CoverInv, TailInv, DecisionsLinked, FilesCovered, WriterCovered,
         Loadable, Created
<1>2. StorageInv /\ LinkInv /\ CoverInv /\ [Next]_vars => (LinkInv /\ CoverInv)'
  BY LinkNext, CoverNext DEF LinkInv, CoverInv
<1>3. StorageInv /\ CoverInv => AuditComplete
  <2> SUFFICES ASSUME StorageInv, CoverInv, Committed \notin {None, Torn}
               PROVE  \A v \in DOMAIN Committed : Covered(Committed[v], v, manifest.offset)
    BY DEF AuditComplete, Covered
  <2>1. Loadable /\ DOMAIN Committed = 1 .. Version
    BY NextSnapshot, SnapshotSeq, LenProperties DEF Loadable, Committed
  <2> QED
    BY <2>1 DEF CoverInv, FilesCovered
<1> QED
  BY <1>1, <1>2, <1>3, StorageAlways, PTL DEF Spec

-----------------------------------------------------------------------------
(***************************************************************************)
(* The Source Indexes.  Each holds what the newest before it held, and the *)
(* one of a version is there before the Snapshot that brought its sources. *)
(***************************************************************************)
Index(v) == side[<<"index", v>>]
Positive == 1 .. MaxVersion
\* The sources of mutation m are listed at version v, if its index can be read.
Listed(files, m, v) ==
  m \in Sourced => /\ files[<<"index", v>>] # None
                   /\ files[<<"index", v>>] = Torn \/ m \in files[<<"index", v>>]

\* No index is newer than the next version, and the readable ones only grow.
IndexesGrow ==
  /\ \A v \in Positive : (IF Created THEN v > Version + 1 ELSE TRUE) => Index(v) = None
  /\ \A u, v \in Positive : u < v /\ Index(u) # None /\ Index(v) \notin {None, Torn} =>
       Index(u) # Torn /\ Index(u) \subseteq Index(v)
\* So for the committed Snapshot and the one that may yet be adopted ...
FilesListed ==
  Loadable =>
    /\ \A v \in 1 .. Version : Listed(side, Committed[v], v)
    /\ \A v \in Versions : v = Version + 1 /\ Whole(v) => Listed(side, snapshots[v][v], v)
\* ... because the writer has written its index before.
WriterListed ==
  phase = "mutation" /\ mutation \in Sourced /\ at # "side" =>
    Index(Version + 1) # None /\ mutation \in Index(Version + 1)
IndexInv == IndexesGrow /\ FilesListed /\ WriterListed

\* A non-empty set of versions has a newest one.
LEMMA NewestExists ==
  ASSUME NEW n \in Nat, NEW S \in SUBSET (1 .. n), S # {}
  PROVE  \E w \in S : \A u \in S : u <= w
<1> DEFINE T == {n - v : v \in S}
           Less == {p \in Nat \X Nat : p[1] < p[2]}
<1>0. \A v \in S : v \in Int /\ 1 <= v /\ v <= n
  OBVIOUS
<1>1. T \subseteq Nat /\ T # {}
  <2>1. \A v \in S : n - v \in Nat
    BY <1>0
  <2>2. PICK v \in S : TRUE
    OBVIOUS
  <2>3. n - v \in T
    OBVIOUS
  <2> QED
    BY <2>1, <2>3
<1>2. IsWellFoundedOn(Less, Nat)
  BY NatLessThanWellFounded DEF OpToRel
<1>3. \E x \in T : \A y \in T : ~ (<<y, x>> \in Less)
  <2> HIDE DEF T, Less
  <2> QED
    BY <1>1, <1>2, WFMin
<1>4. PICK x \in T : \A y \in T : ~ (<<y, x>> \in Less)
  BY <1>3
<1>5. \A i \in Nat, j \in Nat : <<i, j>> \notin Less => j <= i
  OBVIOUS
<1>6. \A y \in T : x <= y
  <2> HIDE DEF T, Less
  <2> QED
    BY <1>1, <1>4, <1>5
<1>7. PICK w \in S : x = n - w
  OBVIOUS
<1>8. \A u \in S : n - w <= n - u
  BY <1>6, <1>7
<1> HIDE DEF T, Less
<1>9. \A u \in S : u <= w
  BY <1>0, <1>8
<1> QED
  BY <1>9

\* What a reader of version n gets: the newest index, if there is one.
LEMMA EffectiveMeans ==
  ASSUME NEW n \in Nat
  PROVE  \/ EffectiveIndex(n) = {} /\ \A v \in 1 .. n : Index(v) = None
         \/ \E w \in 1 .. n : /\ EffectiveIndex(n) = Index(w) /\ Index(w) # None
                              /\ \A v \in 1 .. n : Index(v) # None => v <= w
<1> DEFINE S == {v \in 1 .. n : Index(v) # None}
<1>1. CASE S = {}
  <2>1. NewestIndex(n) = {}
    BY <1>1 DEF NewestIndex, Index
  <2> QED
    BY <1>1, <2>1 DEF EffectiveIndex
<1>2. CASE S # {}
  <2>1. PICK w \in S : \A u \in S : u <= w
    <3>1. S \in SUBSET (1 .. n)
      OBVIOUS
    <3> HIDE DEF S
    <3> QED
      BY <1>2, <3>1, NewestExists
  <2>2. w \in NewestIndex(n)
    BY <2>1 DEF NewestIndex, Index
  <2>3. \A v \in NewestIndex(n) : v = w
    <3> SUFFICES ASSUME NEW v \in NewestIndex(n) PROVE v = w
      OBVIOUS
    <3>1. v \in S /\ v <= w /\ v \in Int /\ w \in Int
      BY <2>1 DEF NewestIndex, Index
    <3>2. ~ (v < w)
      <4> SUFFICES ASSUME v < w PROVE FALSE
        OBVIOUS
      <4>1. w \in v + 1 .. n
        BY <2>1, <3>1
      <4> QED
        BY <2>1, <4>1 DEF NewestIndex, Index
    <3> QED
      BY <3>1, <3>2
  <2>4. EffectiveIndex(n) = Index(w)
    <3>1. NewestIndex(n) # {} /\ (CHOOSE v \in NewestIndex(n) : TRUE) = w
      BY <2>2, <2>3
    <3> QED
      BY <3>1 DEF EffectiveIndex, Index
  <2> QED
    BY <2>1, <2>4
<1> QED
  BY <1>1, <1>2

\* The index of a version that an index is missing for comes from the newest.
LEMMA EffectiveGrows ==
  ASSUME StorageInv, IndexesGrow, NEW n \in Versions, EffectiveIndex(n) # Torn,
         NEW u \in 1 .. n, Index(u) # None
  PROVE  Index(u) # Torn /\ Index(u) \subseteq EffectiveIndex(n)
<1>1. n \in Nat /\ n <= MaxVersion /\ 1 .. n \subseteq Positive
  BY BoundAssumption DEF BoundAssumption, Versions, Positive
<1>2. PICK w \in 1 .. n : /\ EffectiveIndex(n) = Index(w) /\ Index(w) # None
                          /\ \A v \in 1 .. n : Index(v) # None => v <= w
  BY <1>1, EffectiveMeans
<1>3. u <= w /\ u \in Int /\ w \in Int
  BY <1>1, <1>2
<1>4. CASE u = w
  BY <1>2, <1>4
<1>5. CASE u < w
  BY <1>1, <1>2, <1>5 DEF IndexesGrow
<1> QED
  BY <1>3, <1>4, <1>5

\* What a step may do to the indexes: nothing, or write one that is missing,
\* ahead of a mutation that brings sources.
IndexMove ==
  \/ \A v \in Positive : side'[<<"index", v>>] = Index(v)
  \/ /\ phase = "mutation" /\ mutation \in Sourced
     /\ Index(Version + 1) = None /\ EffectiveIndex(Version) # Torn
     /\ \A v \in Positive : side'[<<"index", v>>] =
          IF v # Version + 1 THEN Index(v)
          ELSE IF phase' = "mutation" THEN EffectiveIndex(Version) \cup {mutation} ELSE Torn

\* The writer's next version, where a mutation is under way.
LEMMA NextVersion ==
  ASSUME StorageInv, phase = "mutation"
  PROVE  /\ Loadable /\ Created /\ Version \in Nat /\ Version \in Versions
         /\ Version < MaxVersion /\ Version + 1 \in Positive /\ Len(next) = Version + 1
         /\ mutation \in Mutations
<1>1. Loadable /\ Created /\ Version < MaxVersion /\ mutation \in Mutations
  BY DEF StorageInv, WriterInv, Loadable
<1>2. Version \in Nat /\ Version \in Versions /\ Len(next) = Version + 1
  BY <1>1, NextSnapshot
<1> QED
  BY <1>1, <1>2, BoundAssumption DEF Positive, BoundAssumption

\* The indexes go on growing whatever is written of the next one.
LEMMA IndexesStay ==
  ASSUME StorageInv, IndexesGrow, IndexMove,
         Created => Created' /\ Version' \in Nat /\ Version <= Version',
         ~ Created => Version' \in Nat \/ ~ Created'
  PROVE  IndexesGrow'
<1>0. Created => Version \in Nat
  BY NextSnapshot
<1>1. CASE \A v \in Positive : side'[<<"index", v>>] = Index(v)
  <2>1. \A v \in Positive : (IF Created' THEN v > Version' + 1 ELSE TRUE) => side'[<<"index", v>>] = None
    <3> SUFFICES ASSUME NEW v \in Positive, IF Created' THEN v > Version' + 1 ELSE TRUE
                 PROVE  Index(v) = None
      BY <1>1
    <3>1. v \in Int
      BY DEF Positive
    <3> QED
      BY <1>0, <3>1 DEF IndexesGrow
  <2>2. \A u, v \in Positive :
          u < v /\ side'[<<"index", u>>] # None /\ side'[<<"index", v>>] \notin {None, Torn} =>
            side'[<<"index", u>>] # Torn /\ side'[<<"index", u>>] \subseteq side'[<<"index", v>>]
    BY <1>1 DEF IndexesGrow
  <2> QED
    BY <2>1, <2>2 DEF IndexesGrow, Index, Positive
<1>2. CASE /\ phase = "mutation" /\ mutation \in Sourced
           /\ Index(Version + 1) = None /\ EffectiveIndex(Version) # Torn
           /\ \A v \in Positive : side'[<<"index", v>>] =
                IF v # Version + 1 THEN Index(v)
                ELSE IF phase' = "mutation" THEN EffectiveIndex(Version) \cup {mutation} ELSE Torn
  <2>1. /\ Created /\ Version \in Nat /\ Version \in Versions /\ Version < MaxVersion
        /\ Version + 1 \in Positive
    BY <1>2, NextVersion
  <2>2. \A v \in Positive : v \in Int /\ v >= 1
    BY DEF Positive
  <2>3. \A v \in Positive : v > Version + 1 => Index(v) = None /\ side'[<<"index", v>>] = None
    BY <1>2, <2>1, <2>2 DEF IndexesGrow
  <2>4. \A v \in Positive : (IF Created' THEN v > Version' + 1 ELSE TRUE) => side'[<<"index", v>>] = None
    BY <2>1, <2>2, <2>3
  <2>5. ASSUME NEW u \in Positive, NEW v \in Positive, u < v, side'[<<"index", u>>] # None,
               side'[<<"index", v>>] \notin {None, Torn}
        PROVE  side'[<<"index", u>>] # Torn /\ side'[<<"index", u>>] \subseteq side'[<<"index", v>>]
    <3>1. ~ (v > Version + 1)
      BY <2>3, <2>5
    <3>2. side'[<<"index", u>>] = Index(u) /\ u \in 1 .. Version
      BY <1>2, <2>1, <2>2, <2>5, <3>1
    <3>3. CASE v = Version + 1
      <4>1. side'[<<"index", v>>] = EffectiveIndex(Version) \cup {mutation}
        BY <1>2, <2>5, <3>3
      <4>2. Index(u) # Torn /\ Index(u) \subseteq EffectiveIndex(Version)
        BY <1>2, <2>1, <2>5, <3>2, EffectiveGrows
      <4> QED
        BY <3>2, <4>1, <4>2
    <3>4. CASE v # Version + 1
      <4>1. side'[<<"index", v>>] = Index(v)
        BY <1>2, <3>4
      <4>2. Index(u) # None /\ Index(v) \notin {None, Torn} /\ u < v
        BY <2>5, <3>2, <4>1
      <4>3. Index(u) # Torn /\ Index(u) \subseteq Index(v)
        BY <4>2 DEF IndexesGrow
      <4> QED
        BY <3>2, <4>1, <4>3
    <3> QED
      BY <3>3, <3>4
  <2> QED
    BY <2>4, <2>5 DEF IndexesGrow, Index, Positive
<1> QED
  BY <1>1, <1>2 DEF IndexMove

\* What is listed stays listed: an index once there is not written again.
LEMMA ListedStays ==
  ASSUME StorageInv, IndexMove, NEW m, NEW v \in Positive, Listed(side, m, v)
  PROVE  Listed(side', m, v)
BY DEF IndexMove, Listed, Index

\* A step that only reads the Snapshots, or cuts one off, keeps them listed.
LEMMA ListingStays ==
  ASSUME StorageInv, IndexInv, IndexMove, UNCHANGED manifest, Committed' = Committed,
         \A v \in Versions : snapshots'[v] = snapshots[v] \/ snapshots'[v] = Torn
  PROVE  IndexesGrow' /\ FilesListed'
<1>1. Version' = Version /\ (Created' <=> Created) /\ (Loadable' <=> Loadable)
  BY DEF Version, Created, Loadable
<1>2. Created => Version \in Nat /\ Version \in Versions
  BY NextSnapshot
<1>3. IndexesGrow'
  BY <1>1, <1>2, IndexesStay DEF IndexInv
<1>4. ASSUME Loadable', NEW v \in 1 .. Version' PROVE Listed(side', Committed'[v], v)
  <2>1. Loadable /\ v \in 1 .. Version /\ v \in Positive
    BY <1>1, <1>2, <1>4, BoundAssumption DEF Loadable, Positive, Versions, BoundAssumption
  <2>2. Listed(side, Committed[v], v)
    BY <2>1 DEF IndexInv, FilesListed
  <2> QED
    BY <2>1, <2>2, ListedStays
<1>5. ASSUME Loadable', NEW v \in Versions, v = Version' + 1, Whole(v)'
      PROVE  Listed(side', snapshots'[v][v], v)
  <2>1. snapshots'[v] = snapshots[v] /\ Whole(v)
    BY <1>5 DEF Whole
  <2>2. Listed(side, snapshots[v][v], v)
    BY <1>1, <1>5, <2>1 DEF IndexInv, FilesListed
  <2>3. v \in Positive
    BY <1>1, <1>2, <1>5, BoundAssumption DEF Loadable, Positive, Versions, BoundAssumption
  <2> QED
    BY <2>1, <2>2, <2>3, ListedStays
<1> QED
  BY <1>3, <1>4, <1>5 DEF FilesListed

\* A Snapshot is written when the sources of its mutation are listed.
LEMMA ListingWritten ==
  ASSUME StorageInv, IndexInv, WriteSnapshot
  PROVE  IndexesGrow' /\ FilesListed'
<1>1. UNCHANGED <<manifest, side>>
  BY DEF WriteSnapshot
<1>2. IndexMove
  BY <1>1 DEF IndexMove, Index
<1>3. CASE snapshots' = snapshots
  BY <1>1, <1>2, <1>3, ListingStays DEF Committed, Created, Version
<1>4. CASE snapshots' # snapshots
  <2>1. phase \in {"create", "mutation", "result"} /\ next \in Snapshots /\ Len(next) \in Versions
    BY NextSnapshot, SnapshotSeq DEF WriteSnapshot, StorageInv, WriterInv, TypeOK
  <2>2. snapshots[Len(next)] = None
    BY <1>4, <2>1 DEF WriteSnapshot, StorageInv, TypeOK
  <2>3. snapshots' = [snapshots EXCEPT ![Len(next)] = next]
    BY <2>2 DEF WriteSnapshot
  <2>4. Committed' = Committed /\ (Loadable' <=> Loadable) /\ (Created' <=> Created) /\ Version' = Version
    BY <1>1, <2>2, <2>3, SnapshotFile DEF WriteSnapshot, Version
  <2>5. Created => Version \in Nat /\ Version \in Versions
    BY NextSnapshot
  <2>6. IndexesGrow'
    BY <1>2, <2>4, <2>5, IndexesStay DEF IndexInv
  <2>7. ASSUME Loadable PROVE FilesListed'
    <3>1. phase = "mutation"
      BY <2>1, <2>2, <2>7, NextSnapshot DEF StorageInv, WriterInv, Loadable, Committed, FilesInv, WriteSnapshot
    <3>2. /\ Version \in Nat /\ Version < MaxVersion /\ Len(next) = Version + 1
          /\ Committed \in Snapshots /\ Len(Committed) = Version
          /\ next = Append(Committed, mutation) /\ mutation \in Mutations
      BY <3>1, NextVersion, NextSnapshot DEF StorageInv, WriterInv
    <3>3. next[Version + 1] = mutation
      BY <3>2, SnapshotAppend
    <3>4. Listed(side, mutation, Version + 1)
      BY <3>1 DEF IndexInv, WriterListed, WriteSnapshot, Listed, Index
    <3>5. snapshots'[Version + 1] = next
      BY <2>1, <2>3, <3>2 DEF StorageInv, TypeOK
    <3>6. \A v \in 1 .. Version : Listed(side', Committed'[v], v)
      BY <1>1, <2>4, <2>7 DEF IndexInv, FilesListed
    <3>7. \A v \in Versions : v = Version + 1 => Listed(side', snapshots'[v][v], v)
      BY <1>1, <3>3, <3>4, <3>5
    <3> QED
      BY <2>4, <3>6, <3>7 DEF FilesListed
  <2> QED
    BY <2>4, <2>6, <2>7 DEF FilesListed
<1> QED
  BY <1>3, <1>4

\* What the Manifest takes over, a Snapshot left behind included, is listed.
LEMMA ListingCommitted ==
  ASSUME StorageInv, IndexInv, Commit
  PROVE  IndexesGrow' /\ FilesListed'
<1>1. at = "manifest" /\ manifest' = [version |-> Len(next), offset |-> Len(events)]
      /\ UNCHANGED <<snapshots, side>>
  BY DEF Commit, ReplaceManifest
<1>2. phase \in {"create", "mutation", "result"} /\ Len(next) \in Versions /\ Len(next) \in Nat
  BY <1>1, NextSnapshot, SnapshotSeq, BoundAssumption
  DEF StorageInv, WriterInv, TypeOK, Versions, BoundAssumption
<1>3. Version' = Len(next) /\ Created' /\ Committed' = snapshots[Len(next)]
  BY <1>1, <1>2, ValueAssumption DEF Created, Version, Committed
<1>4. IndexMove
  BY <1>1 DEF IndexMove, Index
<1>5. Created => Version \in Nat /\ Version <= Len(next)
  <2> SUFFICES ASSUME Created PROVE Version \in Nat /\ Version <= Len(next)
    OBVIOUS
  <2>1. phase # "create"
    BY <1>1 DEF StorageInv, WriterInv
  <2> QED
    BY <1>2, <2>1, NextSnapshot
<1>6. IndexesGrow'
  BY <1>2, <1>3, <1>4, <1>5, IndexesStay DEF IndexInv
<1>7. Versions \subseteq Nat
  BY BoundAssumption DEF Versions, BoundAssumption
<1>8. ASSUME Loadable' PROVE FilesListed'
  <2>0. snapshots[Len(next)] \notin {None, Torn}
    BY <1>1, <1>3, <1>8 DEF Loadable, StorageInv, WriterInv
  <2>1. CASE phase = "create"
    <3>1. ~ Created /\ Len(next) = 0
      BY <1>1, <2>1, NextSnapshot DEF StorageInv, WriterInv
    <3>2. \A v \in Versions : v = 1 => snapshots[v] = None
      BY <3>1 DEF StorageInv, FilesInv
    <3> QED
      BY <1>1, <1>3, <3>1, <3>2 DEF FilesListed, Whole
  <2>2. CASE phase = "mutation"
    <3>1. /\ Loadable /\ Created /\ Version \in Nat /\ Len(next) = Version + 1
          /\ Committed \in Snapshots /\ Len(Committed) = Version /\ Version < MaxVersion
      BY <2>2, NextVersion, NextSnapshot
    <3>2. PICK m \in Mutations : snapshots[Version + 1] = Append(Committed, m)
      BY <1>2, <2>0, <3>1 DEF StorageInv, FilesInv
    <3>3. \A v \in 1 .. Version : Committed'[v] = Committed[v]
      BY <1>3, <3>1, <3>2, SnapshotAppend
    <3>4. \A v \in 1 .. Version : Listed(side', Committed'[v], v)
      BY <1>1, <3>1, <3>3 DEF IndexInv, FilesListed
    <3>5. Listed(side', Committed'[Version + 1], Version + 1)
      BY <1>1, <1>2, <1>3, <2>0, <3>1 DEF IndexInv, FilesListed, Whole
    <3>6. \A v \in Versions : v = Len(next) + 1 => snapshots[v] = None
      BY <1>2, <1>7, <3>1 DEF StorageInv, FilesInv
    <3> QED
      BY <1>1, <1>3, <3>1, <3>4, <3>5, <3>6 DEF FilesListed, Whole
  <2>3. CASE phase = "result"
    <3>1. Loadable /\ Len(next) = Version /\ Committed' = Committed /\ Version' = Version
      BY <1>3, <2>3, NextSnapshot DEF StorageInv, WriterInv, Committed, Loadable
    <3> QED
      BY <1>1, <3>1 DEF IndexInv, FilesListed, Whole
  <2> QED
    BY <1>2, <2>1, <2>2, <2>3
<1> QED
  BY <1>6, <1>8 DEF FilesListed

\* A readable index lists mutations.
LEMMA EffectiveType ==
  ASSUME StorageInv, NEW n \in Versions, EffectiveIndex(n) # Torn
  PROVE  EffectiveIndex(n) \in SUBSET Mutations
<1>1. n \in Nat /\ \A v \in 1 .. n : <<"index", v>> \in SideNames
  BY BoundAssumption DEF SideNames, Versions, BoundAssumption
<1>2. \A v \in 1 .. n : Index(v) \in {None, Torn} \cup SUBSET Mutations
  BY <1>1 DEF StorageInv, TypeOK, Index
<1> QED
  BY <1>1, <1>2, EffectiveMeans

\* The writer puts its index there before it goes on, or finds the same one.
LEMMA SideListing ==
  ASSUME StorageInv, IndexInv, WriteSide \/ KeepSide \/ RefuseSide
  PROVE  IndexMove /\ WriterListed'
<1>1. UNCHANGED <<manifest, snapshots>>
  BY DEF WriteSide, KeepSide, RefuseSide, directory
<1>2. Version' = Version
  BY <1>1 DEF Version
<1>3. side \in [SideNames -> {None, Torn} \cup SUBSET Mutations]
  BY DEF StorageInv, TypeOK
<1>4. \A v \in Positive : <<"index", v>> \in SideNames
  BY BoundAssumption DEF SideNames, Positive, Versions, BoundAssumption
<1>5. phase \in {"create", "mutation"} /\ (phase = "create" => mutation \notin Sourced \cup Gated)
  BY MutationAssumption, ValueAssumption
  DEF WriteSide, WritesNow, KeepSide, RefuseSide, StorageInv, WriterInv, TypeOK, MutationAssumption
<1>6. CASE RefuseSide
  BY <1>6 DEF RefuseSide, Refuse, directory, IndexMove, Index, WriterListed
<1>7. CASE mutation \notin Sourced /\ KeepSide
  BY <1>7 DEF KeepSide, GoTo, directory, IndexMove, Index, WriterListed
<1>8. CASE mutation \notin Sourced /\ WriteSide
  <2>1. \A v \in Positive : SideFile # <<"index", v>>
    BY <1>5, <1>8, MutationAssumption
    DEF SideFile, WriteSide, WritesNow, WritesAhead, MutationAssumption
  <2>2. \A v \in Positive : side'[<<"index", v>>] = Index(v)
    BY <1>3, <1>4, <1>8, <2>1 DEF WriteSide, Index
  <2> QED
    BY <1>8, <2>2 DEF IndexMove, WriteSide, GoTo, WriterListed
<1>9. CASE phase = "mutation" /\ mutation \in Sourced /\ (WriteSide \/ KeepSide)
  <2>1. /\ Version \in Nat /\ Version \in Versions /\ Version + 1 \in Positive
        /\ Len(next) = Version + 1 /\ Len(next) - 1 = Version
        /\ mutation \in Mutations /\ mutation \notin Gated
    BY <1>9, NextVersion, MutationAssumption DEF MutationAssumption
  <2>2. SideFile = <<"index", Version + 1>> /\ SideDocument = EffectiveIndex(Version) \cup {mutation}
    BY <1>9, <2>1 DEF SideFile, SideDocument
  <2>3. phase' = "mutation" /\ mutation' = mutation
    BY <1>9 DEF WriteSide, KeepSide, GoTo
  <2>4. EffectiveIndex(Version) # Torn
    BY <1>9, <2>1 DEF WriteSide, WritesNow, KeepSide, WritesAhead
  <2>5. EffectiveIndex(Version) \cup {mutation} # None
    BY <2>1, <2>4, EffectiveType, ValueAssumption
  <2>6. CASE WriteSide
    <3>1. /\ side[<<"index", Version + 1>>] = None
          /\ side' = [side EXCEPT ![<<"index", Version + 1>>] = EffectiveIndex(Version) \cup {mutation}]
      BY <2>2, <2>6 DEF WriteSide, WritesNow
    <3>2. \A v \in Positive : side'[<<"index", v>>] =
            IF v # Version + 1 THEN side[<<"index", v>>] ELSE EffectiveIndex(Version) \cup {mutation}
      BY <1>3, <1>4, <3>1
    <3>3. IndexMove
      BY <1>9, <2>3, <2>4, <3>1, <3>2 DEF IndexMove, Index
    <3> QED
      BY <1>2, <2>1, <2>3, <2>5, <3>2, <3>3 DEF WriterListed, Index
  <2>7. CASE KeepSide
    <3>1. UNCHANGED side /\ side[<<"index", Version + 1>>] = EffectiveIndex(Version) \cup {mutation}
      BY <1>9, <2>2, <2>7 DEF KeepSide, WritesAhead, directory
    <3>2. IndexMove
      BY <3>1 DEF IndexMove, Index
    <3> QED
      BY <1>2, <2>3, <2>5, <3>1, <3>2 DEF WriterListed, Index
  <2> QED
    BY <1>9, <2>6, <2>7
<1> QED
  BY <1>5, <1>6, <1>7, <1>8, <1>9

\* A crash leaves the index it interrupts missing or cut off.
LEMMA CrashListing ==
  ASSUME StorageInv, Crash
  PROVE  IndexMove
<1>1. CASE UNCHANGED side
  BY <1>1 DEF IndexMove, Index
<1>2. CASE WritesNow /\ side' = [side EXCEPT ![SideFile] = Torn]
  <2>1. side \in [SideNames -> {None, Torn} \cup SUBSET Mutations]
    BY DEF StorageInv, TypeOK
  <2>2. \A v \in Positive : <<"index", v>> \in SideNames
    BY BoundAssumption DEF SideNames, Positive, Versions, BoundAssumption
  <2>3. phase \in {"create", "mutation"} /\ (phase = "create" => mutation \notin Sourced \cup Gated)
    BY <1>2, MutationAssumption, ValueAssumption
    DEF WritesNow, StorageInv, WriterInv, TypeOK, MutationAssumption
  <2>4. CASE mutation \notin Sourced
    <3>1. \A v \in Positive : SideFile # <<"index", v>>
      BY <1>2, <2>3, <2>4, MutationAssumption DEF SideFile, WritesNow, WritesAhead, MutationAssumption
    <3> QED
      BY <1>2, <2>1, <2>2, <3>1 DEF IndexMove, Index
  <2>5. CASE phase = "mutation" /\ mutation \in Sourced
    <3>1. /\ Version \in Nat /\ Version + 1 \in Positive /\ Len(next) = Version + 1
          /\ Len(next) - 1 = Version /\ mutation \notin Gated
      BY <2>5, NextVersion, MutationAssumption DEF MutationAssumption
    <3>2. SideFile = <<"index", Version + 1>>
      BY <2>5, <3>1 DEF SideFile
    <3>3. side[<<"index", Version + 1>>] = None /\ EffectiveIndex(Version) # Torn
      BY <1>2, <2>5, <3>1, <3>2 DEF WritesNow
    <3>4. \A v \in Positive : side'[<<"index", v>>] =
            IF v # Version + 1 THEN side[<<"index", v>>] ELSE Torn
      BY <1>2, <2>1, <2>2, <3>2
    <3>5. phase' # "mutation"
      BY DEF Crash, Refuse
    <3> QED
      BY <2>5, <3>3, <3>4, <3>5 DEF IndexMove, Index
  <2> QED
    BY <2>3, <2>4, <2>5
<1> QED
  BY <1>1, <1>2 DEF Crash, TearFile

\* Every step keeps the Snapshots listed.
LEMMA ListingNext ==
  ASSUME StorageInv, IndexInv, [Next]_vars
  PROVE  IndexInv'
<1>1. ASSUME IndexMove, UNCHANGED <<snapshots, manifest>>
      PROVE  IndexesGrow' /\ FilesListed'
  BY <1>1, ListingStays DEF Committed, Created, Version
<1>2. ASSUME UNCHANGED side PROVE IndexMove
  BY <1>2 DEF IndexMove, Index
<1>3. ASSUME phase' # "mutation" \/ at' = "side" PROVE WriterListed'
  BY <1>3 DEF WriterListed
<1>4. ASSUME UNCHANGED <<side, manifest, phase, mutation>>, at # "side" PROVE WriterListed'
  BY <1>4 DEF IndexInv, WriterListed, Index, Version
<1>5. CASE Create
  BY <1>1, <1>2, <1>3, <1>5 DEF Create, directory, IndexInv
<1>6. CASE Commit
  <2>1. phase' # "mutation"
    BY <1>6 DEF Commit, Refuse, GoTo
  <2> QED
    BY <1>3, <1>6, <2>1, ListingCommitted DEF IndexInv
<1>7. CASE RecordAnswer
  BY <1>1, <1>2, <1>3, <1>7 DEF RecordAnswer, Refuse, directory, IndexInv
<1>8. CASE Writing
  <2>1. CASE WriteSide \/ KeepSide \/ RefuseSide
    BY <1>1, <2>1, SideListing DEF WriteSide, KeepSide, RefuseSide, directory, IndexInv
  <2>2. CASE ReadTail \/ AppendEvent \/ AuditDone \/ AppendDecision \/ ReplaceState
    <3>1. UNCHANGED <<snapshots, manifest, side, phase, mutation>> /\ at # "side"
      BY <2>2 DEF ReadTail, AppendEvent, AuditDone, AppendDecision, ReplaceState, GoTo, directory
    <3> QED
      BY <1>1, <1>2, <1>4, <3>1 DEF IndexInv
  <2>3. CASE RefuseTail
    BY <1>1, <1>2, <1>3, <2>3 DEF RefuseTail, Refuse, directory, IndexInv
  <2>4. CASE Recover
    <3>1. UNCHANGED <<snapshots, manifest, side>> /\ phase' # "mutation"
      BY <2>4 DEF Recover, writer, StorageInv, WriterInv
    <3> QED
      BY <1>1, <1>2, <1>3, <3>1 DEF IndexInv
  <2>5. CASE WriteSnapshot
    <3>1. UNCHANGED <<manifest, side, phase, mutation>> /\ at # "side"
      BY <2>5 DEF WriteSnapshot, GoTo
    <3> QED
      BY <1>4, <2>5, <3>1, ListingWritten DEF IndexInv
  <2>6. CASE Crash
    <3>1. UNCHANGED manifest /\ phase' = "none"
      BY <2>6 DEF Crash, Refuse
    <3>2. \A v \in Versions : snapshots'[v] = snapshots[v] \/ snapshots'[v] = Torn
      BY <2>6 DEF Crash, TearFile, StorageInv, TypeOK
    <3>3. Committed' = Committed
      BY <1>8, <2>6, CrashStorage DEF Writing
    <3>4. IndexesGrow' /\ FilesListed'
      BY <2>6, <3>1, <3>2, <3>3, CrashListing, ListingStays
    <3> QED
      BY <1>3, <3>1, <3>4 DEF IndexInv
  <2> QED
    BY <1>8, <2>1, <2>2, <2>3, <2>4, <2>5, <2>6 DEF Writing
<1>9. ASSUME NEW m \in Mutations, StartMutation(m) PROVE IndexInv'
  BY <1>1, <1>2, <1>3, <1>9 DEF StartMutation, directory, IndexInv
<1>10. ASSUME UNCHANGED storageVars PROVE IndexInv'
  <2>1. WriterListed'
    BY <1>10 DEF storageVars, directory, writer, IndexInv, WriterListed, Index, Version
  <2> QED
    BY <1>1, <1>2, <1>10, <2>1 DEF storageVars, directory, IndexInv
<1> QED
  BY <1>5, <1>6, <1>7, <1>8, <1>9, <1>10, RequestAssumption
  DEF Next, Dispatch, Accept, RefuseVersion, Replay, HostMutation, vars, RequestAssumption

\* The Source Index a reader of the committed state gets lists the sources of
\* every mutation it was made by, wherever a crash left a commit half done.
THEOREM SourcesCompleteCorrect == Spec => []SourcesComplete
<1>1. Init => IndexInv
  <2> SUFFICES ASSUME Init PROVE IndexInv
    OBVIOUS
  <2>1. ~ Created /\ phase = "none"
    BY DEF Init, StorageInit, Created
  <2>2. \A v \in Positive : Index(v) = None
    BY BoundAssumption DEF Init, StorageInit, Index, SideNames, Positive, Versions, BoundAssumption
  <2> QED
    BY <2>1, <2>2 DEF IndexInv, IndexesGrow, FilesListed, WriterListed, Loadable
<1>2. StorageInv /\ IndexInv /\ [Next]_vars => IndexInv'
  BY ListingNext
<1>3. StorageInv /\ IndexInv => SourcesComplete
  <2> SUFFICES ASSUME StorageInv, IndexInv, Committed \notin {None, Torn}, EffectiveIndex(Version) # Torn,
                      NEW v \in DOMAIN Committed, Committed[v] \in Sourced
               PROVE  Committed[v] \in EffectiveIndex(Version)
    BY DEF SourcesComplete
  <2>1. Loadable /\ DOMAIN Committed = 1 .. Version /\ Version \in Versions
    BY NextSnapshot, SnapshotSeq, LenProperties DEF Loadable, Committed
  <2>2. Index(v) # None /\ (Index(v) = Torn \/ Committed[v] \in Index(v))
    BY <2>1 DEF IndexInv, FilesListed, Listed, Index
  <2>3. Index(v) # Torn /\ Index(v) \subseteq EffectiveIndex(Version)
    BY <2>1, <2>2, EffectiveGrows DEF IndexInv
  <2> QED
    BY <2>2, <2>3
<1> QED
  BY <1>1, <1>2, <1>3, StorageAlways, PTL DEF Spec
=============================================================================
