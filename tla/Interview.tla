----------------------------- MODULE Interview -----------------------------
(***************************************************************************)
(* What idea shaping promises: questions are asked and answered in turn,   *)
(* MaxRounds at most; the interview ends with an idea that can be          *)
(* researched, or, only after the last answer, as insufficient.  One that  *)
(* failed may start afresh; a researchable idea is final.                  *)
(***************************************************************************)
EXTENDS Naturals

CONSTANT MaxRounds
VARIABLES asked, answered, outcome

Init == asked = 0 /\ answered = 0 /\ outcome = "open"
Ask ==
  /\ outcome = "open" /\ asked = answered /\ asked < MaxRounds
  /\ asked' = asked + 1 /\ UNCHANGED <<answered, outcome>>
Answer ==
  /\ outcome = "open" /\ answered < asked
  /\ answered' = asked /\ UNCHANGED <<asked, outcome>>
Conclude ==
  /\ outcome = "open" /\ asked = answered
  /\ \/ outcome' = "researchable"
     \/ asked = MaxRounds /\ outcome' = "insufficient"
  /\ UNCHANGED <<asked, answered>>
Restart == outcome # "researchable" /\ asked' = 0 /\ answered' = 0 /\ outcome' = "open"

Next == Ask \/ Answer \/ Conclude \/ Restart
Spec == Init /\ [][Next]_<<asked, answered, outcome>>
=============================================================================
