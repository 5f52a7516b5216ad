---------------------------- MODULE FeynmanLoop ----------------------------
(***************************************************************************)
(* One Feynman loop driven by every event a caller may hand to tick(), in  *)
(* any order: the learner's (concept named, explanation, request for the   *)
(* answer) and the tutor's (gap report, supply, judgement).                *)
(***************************************************************************)
EXTENDS FeynmanKernel

CONSTANTS
  ExplainSizes,  \* lengths of explanations
  SystemSizes,   \* characters the system may have said with an event
  Reports        \* reports the grader may hand in

ASSUME InputAssumption ==
  /\ ExplainSizes \subseteq Nat
  /\ SystemSizes \subseteq Nat
  /\ Reports \subseteq GapReport

VARIABLES
  state,    \* the PedagogyState snapshot
  actions,  \* what the last LoopStep asked the caller to do
  credits   \* how many RECORD_MASTERY the loop has emitted (history)

vars == <<state, actions, credits>>

Init ==
  /\ state = NewSnapshot
  /\ actions = {}
  /\ credits = 0

Tick(e) ==
  LET step == tick(state, e)
  IN  /\ state' = step.state
      /\ actions' = step.actions
      /\ credits' = IF "record_mastery" \in step.actions
                    THEN credits + 1 ELSE credits

ConceptNamed ==
  \E c \in Concepts : Tick([kind |-> "concept_named", concept_id |-> c])

ExplanationSubmitted ==
  \E m \in ExplainSizes, n \in SystemSizes :
    Tick([kind |-> "explanation_submitted", chars |-> m, system_chars |-> n])

GapReported ==
  \E r \in Reports, n \in SystemSizes :
    Tick([kind |-> "gap_reported", report |-> r, system_chars |-> n])

SupplyCompleted ==
  \E n \in SystemSizes :
    Tick([kind |-> "supply_completed", system_chars |-> n])

SimplifyJudged ==
  \E r \in Reports, passed \in BOOLEAN, n \in SystemSizes :
    Tick([kind |-> "simplify_judged", report |-> r,
          transfer_passed |-> passed, system_chars |-> n])

EscapeRequested ==
  \E confirmed \in BOOLEAN, n \in SystemSizes :
    Tick([kind |-> "escape_requested", confirmed |-> confirmed,
          system_chars |-> n])

Next ==
  \/ ConceptNamed
  \/ ExplanationSubmitted
  \/ GapReported
  \/ SupplyCompleted
  \/ SimplifyJudged
  \/ EscapeRequested

Spec == Init /\ [][Next]_vars

-----------------------------------------------------------------------------
(* Properties *)

\* Every field of the snapshot keeps its type, through every handler.
TypeOK == IsSnapshot(state) /\ credits \in Nat

\* The loop budget (states.py, loop.py): Teach is entered at most MaxLoops
\* times, the loop is reported capped only on its last lap, and a capped loop
\* never teaches or diagnoses again.
LoopBudget == LapsInBudget(state)

\* Gaps are open only while they are being supplied or where the learner gave
\* up; the probes the learner is told were used are exactly the open gaps, and
\* a Return without gaps is one that has hit the loop cap.
GapBookkeeping == GapsAccounted(state)

\* What Return supplies stays within return_max_chars in total, and no open gap
\* is less severe than one after it (loop.py, _on_gap_reported, _clamp_supply).
SupplyWithinBudget == SuppliesInBudget(state.open_gaps)

\* Mastery is credited once and only for a closed loop, and closing rests on
\* a named concept and on scores that clear both thresholds, with no gap left
\* open; an escaped loop earns nothing (closure_verdict, _on_escape_requested).
ClosedOnEvidence ==
  /\ credits = IF state.state = "Closed" THEN 1 ELSE 0
  /\ ClosureEvidenced(state)
  /\ state.state = "Closed" => state.open_gaps = << >> /\ state.concept_id \in Concepts

\* The loop does not spin (states.py): in the end its state stops changing,
\* whatever the callers keep sending.
PhaseSettles == <>[][state'.state = state.state]_vars

Promise == INSTANCE FeynmanPromise
             WITH phase <- state.state, laps <- state.loop_index

\* One loop implements what the pedagogy document promises of it.
KeepsPromise == Promise!Spec

=============================================================================
