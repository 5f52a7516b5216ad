--------------------------- MODULE FeynmanPromise ---------------------------
(***************************************************************************)
(* What one Feynman loop promises (docs/pedagogy-core.md 1.1), without     *)
(* budgets of characters, gaps, scores or talk: the learner names a        *)
(* concept, explains it lap after lap and at most MaxLoops times, and the  *)
(* loop ends either closed, with one mastery credit, or escaped, with      *)
(* none.  FeynmanLoop implements it.                                       *)
(***************************************************************************)
EXTENDS Naturals

CONSTANT MaxLoops

VARIABLES
  phase,    \* the state of the loop
  laps,     \* how often Teach was entered
  credits   \* mastery credits granted

vars == <<phase, laps, credits>>

Init == phase = "Pick" /\ laps = 0 /\ credits = 0

\* Teach is entered for one more lap, never for more than MaxLoops.
StartLap ==
  /\ phase \in {"Pick", "Return", "Simplify"}
  /\ laps < MaxLoops
  /\ phase' = "Teach"
  /\ laps' = laps + 1
  /\ UNCHANGED credits

Explain ==
  /\ phase = "Teach"
  /\ phase' = "Detect"
  /\ UNCHANGED <<laps, credits>>

Diagnose ==
  /\ phase = "Detect"
  /\ phase' \in {"Return", "Simplify"}
  /\ UNCHANGED <<laps, credits>>

Close ==
  /\ phase = "Simplify"
  /\ phase' = "Closed"
  /\ credits' = credits + 1
  /\ UNCHANGED laps

Escape ==
  /\ phase \notin {"Closed", "Escaped"}
  /\ phase' = "Escaped"
  /\ UNCHANGED <<laps, credits>>

Next == StartLap \/ Explain \/ Diagnose \/ Close \/ Escape

Spec == Init /\ [][Next]_vars

=============================================================================
