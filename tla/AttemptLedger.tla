--------------------------- MODULE AttemptLedger ---------------------------
(***************************************************************************)
(* What the Attempt log of a Run promises its readers: per node it only    *)
(* grows, one entry of it at most is live, an entry follows the Attempt    *)
(* table of transitions.py, and a finished entry never changes again.      *)
(* RunKernel is shown to implement it.                                     *)
(***************************************************************************)
EXTENDS Naturals

CONSTANTS Nodes, MaxAttempts

VARIABLE log              \* [Nodes -> [1 .. MaxAttempts -> entry]]

Live == {"RUNNING", "WAITING_FOR_USER", "WAITING_FOR_EXTERNAL"}
Finished == {"VERIFIED", "COMPLETED", "FAILED", "INVALIDATED"}
Entries == Live \cup Finished \cup {"NONE"}

\* _ATTEMPT_TRANSITIONS; a completed Attempt is verified at once or never.
Successors(entry) ==
  CASE entry = "RUNNING" -> (Live \ {"RUNNING"}) \cup Finished
    [] entry \in Live \ {"RUNNING"} -> {"RUNNING", "FAILED", "INVALIDATED"}
    [] OTHER -> {}

\* One node's log starts its next Attempt, when none is live ...
Start(old, new) ==
  \E k \in 1 .. MaxAttempts :
    /\ \A j \in 1 .. MaxAttempts : IF j < k THEN old[j] \in Finished ELSE old[j] = "NONE"
    /\ new = [old EXCEPT ![k] = "RUNNING"]
\* ... or its live Attempt moves on.
Move(old, new) ==
  \E k \in 1 .. MaxAttempts :
    /\ new[k] \in Successors(old[k])
    /\ new = [old EXCEPT ![k] = new[k]]

Init == log = [n \in Nodes |-> [k \in 1 .. MaxAttempts |-> "NONE"]]
Next ==
  /\ log' \in [Nodes -> [1 .. MaxAttempts -> Entries]]
  /\ \A n \in Nodes : log'[n] = log[n] \/ Start(log[n], log'[n]) \/ Move(log[n], log'[n])
Spec == Init /\ [][Next]_log
=============================================================================
