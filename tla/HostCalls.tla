----------------------------- MODULE HostCalls -----------------------------
(***************************************************************************)
(* How a business service changes a Run.  A call reads the Snapshot,       *)
(* computes from it everything it will write, and then writes: immutable   *)
(* files, each refused where one of its name is, and Snapshots, each of    *)
(* which becomes effective at once (RunStorage takes a commit apart).  One *)
(* call runs at a time; a crash ends it between or inside two writes.      *)
(***************************************************************************)
EXTENDS Naturals, Sequences

CONSTANTS
  None, Torn,               \* no file; a file cut off by a crash
  TornWrites,               \* may a crash cut off a file
  MaxCrashes                \* bound

VARIABLES
  run,                      \* Snapshot and Manifest: a record
  files,                    \* immutable files by name
  todo,                     \* what the call under way has still to write
  crashes

callVars == <<run, files, todo, crashes>>
Idle == todo = <<>>

File(name, document) == [kind |-> "file", name |-> name, document |-> document]
Save(snapshot) == [kind |-> "snapshot", run |-> snapshot]

\* A call starts: it has computed its writes.
Call(writes) == Idle /\ todo' = writes /\ UNCHANGED <<run, files, crashes>>
\* A call that commits once and writes no file of its own.
Change(snapshot) == Idle /\ run' = snapshot /\ UNCHANGED <<files, todo, crashes>>

\* _write_immutable_json: an existing name raises, and the call is over.
WriteFile ==
  /\ todo # <<>> /\ Head(todo).kind = "file"
  /\ LET name == Head(todo).name IN
       \/ /\ files[name] = None
          /\ files' = [files EXCEPT ![name] = Head(todo).document]
          /\ todo' = Tail(todo)
       \/ files[name] # None /\ todo' = <<>> /\ UNCHANGED files
  /\ UNCHANGED <<run, crashes>>

\* _persist.
Commit ==
  /\ todo # <<>> /\ Head(todo).kind = "snapshot"
  /\ run' = Head(todo).run
  /\ todo' = Tail(todo)
  /\ UNCHANGED <<files, crashes>>

Crash ==
  /\ ~ Idle /\ crashes < MaxCrashes
  /\ crashes' = crashes + 1
  /\ \/ UNCHANGED files
     \/ /\ TornWrites /\ Head(todo).kind = "file" /\ files[Head(todo).name] = None
        /\ files' = [files EXCEPT ![Head(todo).name] = Torn]
  /\ todo' = <<>>
  /\ UNCHANGED run
=============================================================================
