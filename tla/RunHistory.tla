----------------------------- MODULE RunHistory -----------------------------
(***************************************************************************)
(* What the storage of a Run promises: its committed state is the history  *)
(* of the mutations that made it, it begins with the creation, and it is   *)
(* only ever extended, by one whole mutation at a time; no crash takes     *)
(* anything back or shows half of one.  Where files may be torn, it may    *)
(* become unreadable, for good.  RunOperations is shown to implement it.   *)
(***************************************************************************)
EXTENDS Sequences

CONSTANTS Mutations, None, Torn, TornWrites

VARIABLE history          \* None until the Run is created

Init == history = None
Create == history = None /\ history' = <<>>
Commit ==
  /\ history \notin {None, Torn}
  /\ \E m \in Mutations : history' = Append(history, m)
Break == TornWrites /\ history # Torn /\ history' = Torn
Next == Create \/ Commit \/ Break
Spec == Init /\ [][Next]_history
=============================================================================
