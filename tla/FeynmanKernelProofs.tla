------------------------ MODULE FeynmanKernelProofs ------------------------
(***************************************************************************)
(* Every snapshot tick() produces from a legal snapshot is legal, for all  *)
(* thresholds and whatever the event: one lemma per handler, and           *)
(* TickIsLegal, which puts them together.  The theorems about the modules  *)
(* that call tick() rest on it.                                            *)
(***************************************************************************)
EXTENDS FeynmanKernel, FiniteSetTheorems, TLAPS

\* What one step does to the phase, the lap count and the mastery ledger.
Moves(s, step) ==
  LET t == step.state
      credited == "record_mastery" \in step.actions
  IN  \/ /\ t.state = s.state
         /\ t.loop_index = s.loop_index
         /\ ~ credited
      \/ /\ s.state \in {"Pick", "Return", "Simplify"}
         /\ t.state = "Teach"
         /\ s.loop_index < MaxLoops
         /\ t.loop_index = s.loop_index + 1
         /\ ~ credited
      \/ /\ \/ s.state = "Teach" /\ t.state = "Detect"
            \/ s.state = "Detect" /\ t.state \in {"Return", "Simplify"}
            \/ s.state \in ACTIVE_STATES /\ t.state = "Escaped"
         /\ t.loop_index = s.loop_index
         /\ ~ credited
      \/ /\ s.state = "Simplify"
         /\ t.state = "Closed"
         /\ t.loop_index = s.loop_index
         /\ credited

\* The saturating sum stays on the scale.
LEMMA AddInRange ==
  ASSUME NEW m \in 0..TalkCap, NEW n \in Nat
  PROVE  Add(m, n) \in 0..TalkCap
BY KernelAssumption DEF Add, KernelAssumption

\* The gaps Return keeps are indexed by the probes it counts, at most
\* MaxProbes, and at least one when the report has one.
LEMMA KeptGaps ==
  ASSUME NEW gaps, Len(gaps) \in Nat, Len(gaps) > 0
  PROVE  LET kept == ClampSupply(WithinProbeBudget(gaps))
         IN  /\ ProbesKept(gaps) \in Nat
             /\ ProbesKept(gaps) <= MaxProbes
             /\ DOMAIN kept = 1..ProbesKept(gaps)
             /\ kept # << >>
<1>1. /\ ProbesKept(gaps) \in Nat
      /\ ProbesKept(gaps) <= MaxProbes
      /\ ProbesKept(gaps) >= 1
  BY KernelAssumption DEF KernelAssumption, ProbesKept
<1>2. DOMAIN WithinProbeBudget(gaps) = 1..ProbesKept(gaps)
  BY DEF WithinProbeBudget
<1>3. DOMAIN ClampSupply(WithinProbeBudget(gaps)) = 1..ProbesKept(gaps)
  BY <1>2 DEF ClampSupply
<1>4. ClampSupply(WithinProbeBudget(gaps)) # << >>
  BY <1>1, <1>3
<1> QED
  BY <1>1, <1>3, <1>4

\* The snapshot a loop starts with is legal.
LEMMA NewIsLegal == LegalSnapshot(NewSnapshot)
<1>1. IsSnapshot(NewSnapshot)
  BY KernelAssumption
  DEF KernelAssumption, IsSnapshot, NewSnapshot, FeynmanState, ACTIVE_STATES
<1>2. /\ LapsInBudget(NewSnapshot)
      /\ GapsAccounted(NewSnapshot)
      /\ ConceptKnown(NewSnapshot)
      /\ ClosureEvidenced(NewSnapshot)
  BY KernelAssumption
  DEF KernelAssumption, LapsInBudget, GapsAccounted, ConceptKnown,
      ClosureEvidenced, NewSnapshot, ACTIVE_STATES
<1> QED
  BY <1>1, <1>2 DEF LegalSnapshot

-----------------------------------------------------------------------------
(* The handlers *)

\* The seven phases, one by one.
LEMMA Phases == \A p \in {"Pick", "Teach", "Detect", "Return", "Simplify",
                          "Closed", "Escaped"} : p \in FeynmanState
BY DEF FeynmanState, ACTIVE_STATES, TERMINAL_STATES

\* No gaps are indexed by no probe.
LEMMA NoGaps == DOMAIN << >> = 1..0
OBVIOUS

\* _on_concept_named leads from Pick to the first lap.
LEMMA ConceptNamedLegal ==
  ASSUME NEW s, LegalSnapshot(s), s.state = "Pick",
         NEW e, e.concept_id \in Concepts
  PROVE  /\ LegalSnapshot(OnConceptNamed(s, e).state)
         /\ Moves(s, OnConceptNamed(s, e))
<1> DEFINE t == [NextLap(s) EXCEPT !.concept_id = e.concept_id,
                                   !.open_gaps = << >>,
                                   !.probes_used = 0]
<1>1. /\ OnConceptNamed(s, e).state = t
      /\ OnConceptNamed(s, e).actions = {"ask_explain"}
  BY DEF OnConceptNamed, LoopStep
<1>2. IsSnapshot(t)
  BY NoGaps, Phases DEF LegalSnapshot, IsSnapshot, NewSnapshot, NextLap
<1>3. LapsInBudget(t)
  BY KernelAssumption
  DEF KernelAssumption, LegalSnapshot, IsSnapshot, LapsInBudget, NewSnapshot, NextLap
<1>4. GapsAccounted(t) /\ ConceptKnown(t) /\ ClosureEvidenced(t)
  BY KernelAssumption
  DEF KernelAssumption, LegalSnapshot, IsSnapshot, GapsAccounted,
      ConceptKnown, ClosureEvidenced, NewSnapshot, NextLap
<1>5. Moves(s, OnConceptNamed(s, e))
  BY <1>1, KernelAssumption
  DEF KernelAssumption, LegalSnapshot, IsSnapshot, LapsInBudget, Moves,
      NewSnapshot, NextLap
<1> QED
  BY <1>1, <1>2, <1>3, <1>4, <1>5 DEF LegalSnapshot

\* _on_explanation_submitted keeps a short explanation in Teach and sends a long
\* one to Detect.
LEMMA ExplanationSubmittedLegal ==
  ASSUME NEW s, LegalSnapshot(s), s.state = "Teach",
         NEW e, e.chars \in Nat, e.system_chars \in Nat
  PROVE  /\ LegalSnapshot(OnExplanationSubmitted(s, e).state)
         /\ Moves(s, OnExplanationSubmitted(s, e))
<1> DEFINE step   == OnExplanationSubmitted(s, e)
           talked == [s EXCEPT !.learner_chars = Add(s.learner_chars, e.chars),
                               !.system_chars = Add(s.system_chars, e.system_chars)]
<1>1. /\ Add(s.learner_chars, e.chars) \in 0..TalkCap
      /\ Add(s.system_chars, e.system_chars) \in 0..TalkCap
  BY AddInRange DEF LegalSnapshot, IsSnapshot
<1>2. CASE e.chars < MinExplainChars
  <2>1. /\ step.state = talked
        /\ "record_mastery" \notin step.actions
    BY <1>2 DEF OnExplanationSubmitted, LoopStep
  <2>2. IsSnapshot(talked)
    BY <1>1 DEF LegalSnapshot, IsSnapshot, NewSnapshot
  <2>3. /\ LapsInBudget(talked)
        /\ GapsAccounted(talked)
        /\ ConceptKnown(talked)
        /\ ClosureEvidenced(talked)
    BY DEF LegalSnapshot, IsSnapshot, LapsInBudget, GapsAccounted,
           ConceptKnown, ClosureEvidenced, NewSnapshot
  <2>4. Moves(s, step)
    BY <2>1 DEF LegalSnapshot, IsSnapshot, Moves, NewSnapshot
  <2> QED
    BY <2>1, <2>2, <2>3, <2>4 DEF LegalSnapshot
<1>3. CASE ~ (e.chars < MinExplainChars)
  <2> DEFINE t == [talked EXCEPT !.state = "Detect", !.probes_used = 0]
  <2>1. /\ step.state = t
        /\ step.actions = {"probe"}
    BY <1>3 DEF OnExplanationSubmitted, LoopStep
  <2>2. s.open_gaps = << >> /\ ~ s.loop_capped
    BY DEF LegalSnapshot, LapsInBudget, GapsAccounted
  <2>3. IsSnapshot(t)
    BY <1>1, <2>2, NoGaps, Phases DEF LegalSnapshot, IsSnapshot, NewSnapshot
  <2>4. /\ LapsInBudget(t)
        /\ GapsAccounted(t)
        /\ ConceptKnown(t)
        /\ ClosureEvidenced(t)
    BY <2>2, KernelAssumption
    DEF KernelAssumption, LegalSnapshot, IsSnapshot, LapsInBudget, GapsAccounted,
        ConceptKnown, ClosureEvidenced, NewSnapshot, ACTIVE_STATES
  <2>5. Moves(s, step)
    BY <2>1 DEF LegalSnapshot, IsSnapshot, Moves, NewSnapshot
  <2> QED
    BY <2>1, <2>3, <2>4, <2>5 DEF LegalSnapshot
<1> QED
  BY <1>2, <1>3

\* _on_gap_reported opens the gaps that fit the probes, or goes to Simplify.
LEMMA GapReportedLegal ==
  ASSUME NEW s, LegalSnapshot(s), s.state = "Detect",
         NEW e, e.report \in GapReport, e.system_chars \in Nat
  PROVE  /\ LegalSnapshot(OnGapReported(s, e).state)
         /\ Moves(s, OnGapReported(s, e))
<1> DEFINE step  == OnGapReported(s, e)
           gaps  == e.report.gaps
           heard == [s EXCEPT !.last_scores = e.report.scores,
                              !.system_chars = Add(s.system_chars, e.system_chars)]
<1>1. Add(s.system_chars, e.system_chars) \in 0..TalkCap
  BY AddInRange DEF LegalSnapshot, IsSnapshot
<1>2. e.report.scores \in Scores /\ gaps \in Seq(GapItem)
  BY DEF GapReport
<1>3. CASE e.report.verdict = "closed" \/ gaps = << >>
  <2> DEFINE t == [heard EXCEPT !.state = "Simplify",
                                !.open_gaps = << >>,
                                !.probes_used = 0]
  <2>1. /\ step.state = t
        /\ step.actions = {"request_simplify"}
    BY <1>3 DEF OnGapReported, LoopStep
  <2>2. IsSnapshot(t)
    BY <1>1, <1>2, NoGaps, Phases DEF LegalSnapshot, IsSnapshot, NewSnapshot
  <2>3. /\ LapsInBudget(t)
        /\ GapsAccounted(t)
        /\ ConceptKnown(t)
        /\ ClosureEvidenced(t)
    BY KernelAssumption
    DEF KernelAssumption, LegalSnapshot, IsSnapshot, LapsInBudget, GapsAccounted,
        ConceptKnown, ClosureEvidenced, NewSnapshot, ACTIVE_STATES
  <2>4. Moves(s, step)
    BY <2>1 DEF LegalSnapshot, IsSnapshot, Moves, NewSnapshot
  <2> QED
    BY <2>1, <2>2, <2>3, <2>4 DEF LegalSnapshot
<1>4. CASE ~ (e.report.verdict = "closed" \/ gaps = << >>)
  <2> DEFINE kept == ClampSupply(WithinProbeBudget(gaps))
             n    == ProbesKept(gaps)
             t    == [heard EXCEPT !.state = "Return",
                                   !.open_gaps = kept,
                                   !.probes_used = n]
  <2>1. /\ step.state = t
        /\ step.actions = {"supply_atoms"}
    BY <1>4 DEF OnGapReported, LoopStep
  <2>2. Len(gaps) \in Nat /\ Len(gaps) > 0
    BY <1>2, <1>4
  <2>3. n \in Nat /\ n <= MaxProbes /\ DOMAIN kept = 1..n /\ kept # << >>
    BY <2>2, KeptGaps
  <2> HIDE DEF kept, n
  <2>4. ~ s.loop_capped
    BY DEF LegalSnapshot, LapsInBudget
  <2>5. IsSnapshot(t)
    BY <1>1, <1>2, <2>3, Phases DEF LegalSnapshot, IsSnapshot, NewSnapshot
  <2>6. /\ LapsInBudget(t)
        /\ GapsAccounted(t)
        /\ ConceptKnown(t)
        /\ ClosureEvidenced(t)
    BY <2>3, <2>4, KernelAssumption
    DEF KernelAssumption, LegalSnapshot, IsSnapshot, LapsInBudget, GapsAccounted,
        ConceptKnown, ClosureEvidenced, NewSnapshot, ACTIVE_STATES
  <2>7. Moves(s, step)
    BY <2>1 DEF LegalSnapshot, IsSnapshot, Moves, NewSnapshot
  <2> QED
    BY <2>1, <2>5, <2>6, <2>7 DEF LegalSnapshot
<1> QED
  BY <1>3, <1>4

\* _on_supply_completed starts a lap, or stays where it is on the last one.
LEMMA SupplyCompletedLegal ==
  ASSUME NEW s, LegalSnapshot(s), s.state = "Return",
         NEW e, e.system_chars \in Nat
  PROVE  /\ LegalSnapshot(OnSupplyCompleted(s, e).state)
         /\ Moves(s, OnSupplyCompleted(s, e))
<1> DEFINE step == OnSupplyCompleted(s, e)
           base == [s EXCEPT !.system_chars = Add(s.system_chars, e.system_chars),
                             !.open_gaps = << >>,
                             !.probes_used = 0]
<1>1. Add(s.system_chars, e.system_chars) \in 0..TalkCap
  BY AddInRange DEF LegalSnapshot, IsSnapshot
<1>2. s.loop_index \in Nat /\ s.loop_index <= MaxLoops
  BY DEF LegalSnapshot, IsSnapshot, LapsInBudget
<1>3. CASE s.loop_index >= MaxLoops
  <2> DEFINE t == [base EXCEPT !.loop_capped = TRUE]
  <2>1. /\ step.state = t
        /\ step.actions = {"escalate"}
    BY <1>3 DEF OnSupplyCompleted, LoopStep, AtLoopCap
  <2>2. IsSnapshot(t)
    BY <1>1, NoGaps, Phases DEF LegalSnapshot, IsSnapshot, NewSnapshot
  <2>3. /\ LapsInBudget(t)
        /\ GapsAccounted(t)
        /\ ConceptKnown(t)
        /\ ClosureEvidenced(t)
    BY <1>2, <1>3, KernelAssumption
    DEF KernelAssumption, LegalSnapshot, IsSnapshot, LapsInBudget, GapsAccounted,
        ConceptKnown, ClosureEvidenced, NewSnapshot, ACTIVE_STATES
  <2>4. Moves(s, step)
    BY <2>1 DEF LegalSnapshot, IsSnapshot, Moves, NewSnapshot
  <2> QED
    BY <2>1, <2>2, <2>3, <2>4 DEF LegalSnapshot
<1>4. CASE ~ (s.loop_index >= MaxLoops)
  <2> DEFINE t == NextLap(base)
  <2>1. /\ step.state = t
        /\ step.actions = {"ask_explain"}
    BY <1>4 DEF OnSupplyCompleted, LoopStep, AtLoopCap
  <2>2. IsSnapshot(t)
    BY <1>1, NoGaps, Phases DEF LegalSnapshot, IsSnapshot, NewSnapshot, NextLap
  <2>3. s.loop_index < MaxLoops /\ ~ s.loop_capped
    BY <1>2, <1>4, KernelAssumption
    DEF KernelAssumption, LegalSnapshot, IsSnapshot, LapsInBudget
  <2>4. /\ LapsInBudget(t)
        /\ GapsAccounted(t)
        /\ ConceptKnown(t)
        /\ ClosureEvidenced(t)
    BY <1>2, <2>3, KernelAssumption
    DEF KernelAssumption, LegalSnapshot, IsSnapshot, LapsInBudget, GapsAccounted,
        ConceptKnown, ClosureEvidenced, NewSnapshot, NextLap, ACTIVE_STATES
  <2>5. Moves(s, step)
    BY <2>1, <2>3 DEF LegalSnapshot, IsSnapshot, Moves, NewSnapshot, NextLap
  <2> QED
    BY <2>1, <2>2, <2>4, <2>5 DEF LegalSnapshot
<1> QED
  BY <1>3, <1>4

\* _on_simplify_judged closes on evidence only, and otherwise starts a lap or
\* stays in Simplify on the last one.
LEMMA SimplifyJudgedLegal ==
  ASSUME NEW s, LegalSnapshot(s), s.state = "Simplify",
         NEW e, e.report \in GapReport, e.system_chars \in Nat
  PROVE  /\ LegalSnapshot(OnSimplifyJudged(s, e).state)
         /\ Moves(s, OnSimplifyJudged(s, e))
<1> DEFINE step   == OnSimplifyJudged(s, e)
           passed == closure_verdict(e.report, e.transfer_passed)
           heard  == [s EXCEPT !.last_scores = e.report.scores,
                               !.system_chars = Add(s.system_chars, e.system_chars)]
<1>1. Add(s.system_chars, e.system_chars) \in 0..TalkCap
  BY AddInRange DEF LegalSnapshot, IsSnapshot
<1>2. e.report.scores \in Scores /\ e.report.scores # None
  BY KernelAssumption DEF KernelAssumption, GapReport, Scores
<1>3. s.loop_index \in Nat /\ s.loop_index <= MaxLoops /\ s.open_gaps = << >>
  BY DEF LegalSnapshot, IsSnapshot, LapsInBudget, GapsAccounted
<1>4. CASE passed
  <2> DEFINE t == [heard EXCEPT !.state = "Closed",
                                !.open_gaps = << >>,
                                !.probes_used = 0]
  <2>1. /\ step.state = t
        /\ step.actions = {"record_mastery", "schedule_review"}
    BY <1>4 DEF OnSimplifyJudged, LoopStep, AtLoopCap
  <2>2. /\ e.report.scores.completeness >= MinCompleteness
        /\ e.report.scores.own_words >= MinOwnWords
    BY <1>4 DEF closure_verdict
  <2>3. IsSnapshot(t)
    BY <1>1, <1>2, NoGaps, Phases DEF LegalSnapshot, IsSnapshot, NewSnapshot
  <2>4. /\ LapsInBudget(t)
        /\ GapsAccounted(t)
        /\ ConceptKnown(t)
        /\ ClosureEvidenced(t)
    BY <1>2, <1>3, <2>2, KernelAssumption
    DEF KernelAssumption, LegalSnapshot, IsSnapshot, LapsInBudget, GapsAccounted,
        ConceptKnown, ClosureEvidenced, NewSnapshot, ACTIVE_STATES
  <2>5. Moves(s, step)
    BY <2>1 DEF LegalSnapshot, IsSnapshot, Moves, NewSnapshot
  <2> QED
    BY <2>1, <2>3, <2>4, <2>5 DEF LegalSnapshot
<1>5. CASE ~ passed /\ s.loop_index >= MaxLoops
  <2> DEFINE t == [heard EXCEPT !.loop_capped = TRUE]
  <2>1. /\ step.state = t
        /\ step.actions = {"escalate"}
    BY <1>5 DEF OnSimplifyJudged, LoopStep, AtLoopCap
  <2>2. IsSnapshot(t)
    BY <1>1, <1>2 DEF LegalSnapshot, IsSnapshot, NewSnapshot
  <2>3. /\ LapsInBudget(t)
        /\ GapsAccounted(t)
        /\ ConceptKnown(t)
        /\ ClosureEvidenced(t)
    BY <1>3, <1>5, KernelAssumption
    DEF KernelAssumption, LegalSnapshot, IsSnapshot, LapsInBudget, GapsAccounted,
        ConceptKnown, ClosureEvidenced, NewSnapshot, ACTIVE_STATES
  <2>4. Moves(s, step)
    BY <2>1 DEF LegalSnapshot, IsSnapshot, Moves, NewSnapshot
  <2> QED
    BY <2>1, <2>2, <2>3, <2>4 DEF LegalSnapshot
<1>6. CASE ~ passed /\ ~ (s.loop_index >= MaxLoops)
  <2> DEFINE t == NextLap(heard)
  <2>1. /\ step.state = t
        /\ step.actions = {"ask_explain"}
    BY <1>6 DEF OnSimplifyJudged, LoopStep, AtLoopCap
  <2>2. IsSnapshot(t)
    BY <1>1, <1>2, Phases DEF LegalSnapshot, IsSnapshot, NewSnapshot, NextLap
  <2>3. s.loop_index < MaxLoops /\ ~ s.loop_capped
    BY <1>3, <1>6, KernelAssumption
    DEF KernelAssumption, LegalSnapshot, IsSnapshot, LapsInBudget
  <2>4. /\ LapsInBudget(t)
        /\ GapsAccounted(t)
        /\ ConceptKnown(t)
        /\ ClosureEvidenced(t)
    BY <1>3, <2>3, KernelAssumption
    DEF KernelAssumption, LegalSnapshot, IsSnapshot, LapsInBudget, GapsAccounted,
        ConceptKnown, ClosureEvidenced, NewSnapshot, NextLap, ACTIVE_STATES
  <2>5. Moves(s, step)
    BY <2>1, <2>3 DEF LegalSnapshot, IsSnapshot, Moves, NewSnapshot, NextLap
  <2> QED
    BY <2>1, <2>2, <2>4, <2>5 DEF LegalSnapshot
<1> QED
  BY <1>4, <1>5, <1>6

\* _on_escape_requested ends the loop when confirmed, with its gaps still open.
LEMMA EscapeRequestedLegal ==
  ASSUME NEW s, LegalSnapshot(s), s.state \in ACTIVE_STATES,
         NEW e, e.system_chars \in Nat
  PROVE  /\ LegalSnapshot(OnEscapeRequested(s, e).state)
         /\ Moves(s, OnEscapeRequested(s, e))
<1> DEFINE step  == OnEscapeRequested(s, e)
           heard == [s EXCEPT !.system_chars = Add(s.system_chars, e.system_chars)]
           t     == [heard EXCEPT !.state = "Escaped"]
<1>1. Add(s.system_chars, e.system_chars) \in 0..TalkCap
  BY AddInRange DEF LegalSnapshot, IsSnapshot
<1>2. /\ step.state = IF e.confirmed THEN t ELSE heard
      /\ "record_mastery" \notin step.actions
  BY DEF OnEscapeRequested, LoopStep
<1>3. LegalSnapshot(heard)
  <2>1. IsSnapshot(heard)
    BY <1>1 DEF LegalSnapshot, IsSnapshot, NewSnapshot
  <2>2. /\ LapsInBudget(heard)
        /\ GapsAccounted(heard)
        /\ ConceptKnown(heard)
        /\ ClosureEvidenced(heard)
    BY DEF LegalSnapshot, IsSnapshot, LapsInBudget, GapsAccounted,
           ConceptKnown, ClosureEvidenced, NewSnapshot
  <2> QED
    BY <2>1, <2>2 DEF LegalSnapshot
<1>4. LegalSnapshot(t)
  <2>1. IsSnapshot(t)
    BY <1>1, Phases DEF LegalSnapshot, IsSnapshot, NewSnapshot
  <2>2. /\ LapsInBudget(t)
        /\ GapsAccounted(t)
        /\ ConceptKnown(t)
        /\ ClosureEvidenced(t)
    BY DEF LegalSnapshot, IsSnapshot, LapsInBudget, GapsAccounted,
           ConceptKnown, ClosureEvidenced, NewSnapshot, ACTIVE_STATES
  <2> QED
    BY <2>1, <2>2 DEF LegalSnapshot
<1>5. Moves(s, step)
  <2>1. /\ heard.state = s.state /\ heard.loop_index = s.loop_index
        /\ t.state = "Escaped" /\ t.loop_index = s.loop_index
    BY DEF LegalSnapshot, IsSnapshot, NewSnapshot
  <2> HIDE DEF t, heard, step
  <2> QED
    BY <1>2, <2>1 DEF Moves
<1> QED
  BY <1>2, <1>3, <1>4, <1>5

-----------------------------------------------------------------------------
(* tick *)

\* Whatever the event and the thresholds, tick() answers a legal snapshot with
\* a legal one, and moves the loop only along the steps of FeynmanPromise.
THEOREM TickIsLegal ==
  ASSUME NEW s, LegalSnapshot(s), NEW e \in LoopEvent
  PROVE  LegalSnapshot(tick(s, e).state) /\ Moves(s, tick(s, e))
<1>1. CASE s.state \in TERMINAL_STATES \/ ~ Accepts(s.state, e.kind)
  <2>1. tick(s, e) = LoopStep(s, {}, {})
    BY <1>1 DEF tick
  <2> QED
    BY <2>1 DEF LoopStep, Moves
<1>2. CASE ~ (s.state \in TERMINAL_STATES \/ ~ Accepts(s.state, e.kind))
  <2>1. s.state \in ACTIVE_STATES
    BY <1>2 DEF LegalSnapshot, IsSnapshot, FeynmanState
  <2>2. CASE e.kind = "concept_named"
    <3>1. s.state = "Pick" /\ e.concept_id \in Concepts
      BY <1>2, <2>2 DEF Accepts, TRANSITIONS, LoopEvent
    <3>2. tick(s, e) = OnConceptNamed(s, e)
      BY <1>2, <2>2 DEF tick
    <3> QED
      BY <3>1, <3>2, ConceptNamedLegal
  <2>3. CASE e.kind = "explanation_submitted"
    <3>1. s.state = "Teach" /\ e.chars \in Nat /\ e.system_chars \in Nat
      BY <1>2, <2>3 DEF Accepts, TRANSITIONS, LoopEvent
    <3>2. tick(s, e) = OnExplanationSubmitted(s, e)
      BY <1>2, <2>3 DEF tick
    <3> QED
      BY <3>1, <3>2, ExplanationSubmittedLegal
  <2>4. CASE e.kind = "gap_reported"
    <3>1. s.state = "Detect" /\ e.report \in GapReport /\ e.system_chars \in Nat
      BY <1>2, <2>4 DEF Accepts, TRANSITIONS, LoopEvent
    <3>2. tick(s, e) = OnGapReported(s, e)
      BY <1>2, <2>4 DEF tick
    <3> QED
      BY <3>1, <3>2, GapReportedLegal
  <2>5. CASE e.kind = "supply_completed"
    <3>1. s.state = "Return" /\ e.system_chars \in Nat
      BY <1>2, <2>5 DEF Accepts, TRANSITIONS, LoopEvent
    <3>2. tick(s, e) = OnSupplyCompleted(s, e)
      BY <1>2, <2>5 DEF tick
    <3> QED
      BY <3>1, <3>2, SupplyCompletedLegal
  <2>6. CASE e.kind = "simplify_judged"
    <3>1. s.state = "Simplify" /\ e.report \in GapReport /\ e.system_chars \in Nat
      BY <1>2, <2>6 DEF Accepts, TRANSITIONS, LoopEvent
    <3>2. tick(s, e) = OnSimplifyJudged(s, e)
      BY <1>2, <2>6 DEF tick
    <3> QED
      BY <3>1, <3>2, SimplifyJudgedLegal
  <2>7. CASE e.kind = "escape_requested"
    <3>1. e.system_chars \in Nat
      BY <2>7 DEF LoopEvent
    <3>2. tick(s, e) = OnEscapeRequested(s, e)
      BY <1>2, <2>7 DEF tick
    <3> QED
      BY <2>1, <3>1, <3>2, EscapeRequestedLegal
  <2>8. e.kind \in EventKind
    BY DEF LoopEvent, EventKind
  <2> QED
    BY <2>2, <2>3, <2>4, <2>5, <2>6, <2>7, <2>8 DEF EventKind
<1> QED
  BY <1>1, <1>2

-----------------------------------------------------------------------------
(* Recursion: what the functions the kernel recurses with are *)

\* Induction over the numbers, for a set of them.
LEMMA NatSetInduction ==
  ASSUME NEW P, 0 \in P, \A n \in Nat : n \in P => n + 1 \in P
  PROVE  Nat \subseteq P
<1> DEFINE T == Nat \ P
           R == {ss \in Nat \X Nat : ss[1] < ss[2]}
<1> SUFFICES ASSUME T # {} PROVE FALSE
  OBVIOUS
<1>1. PICK x \in T : \A y \in T : ~ (<<y, x>> \in R)
  <2>1. IsWellFoundedOn(R, Nat)
    BY NatLessThanWellFounded DEF OpToRel
  <2> HIDE DEF R
  <2> QED
    BY <2>1, WFMin
<1>2. \A y \in T : ~ (y < x)
  BY <1>1
<1>3. x # 0 /\ x - 1 \in Nat
  OBVIOUS
<1> QED
  BY <1>2, <1>3

\* g starts at base and follows next up to n, within S.
Follows(g, n, base, next, S) ==
  /\ g \in [0..n -> S]
  /\ g[0] = base
  /\ \A i \in 1..n : g[i] = next[<<i, g[i - 1]>>]

\* There is such a function for every n.
LEMMA RecursionExists ==
  ASSUME NEW S, NEW base \in S, NEW next \in [Nat \X S -> S], NEW n \in Nat
  PROVE  \E g : Follows(g, n, base, next, S)
<1> DEFINE P == { m \in Nat : \E g : Follows(g, m, base, next, S) }
<1>1. 0 \in P
  <2> DEFINE g == [i \in 0..0 |-> base]
  <2>1. Follows(g, 0, base, next, S)
    BY DEF Follows
  <2> QED
    BY <2>1
<1>2. ASSUME NEW m \in Nat, m \in P PROVE m + 1 \in P
  <2>1. PICK g : Follows(g, m, base, next, S)
    BY <1>2
  <2> DEFINE h == [i \in 0..(m + 1) |-> IF i <= m THEN g[i]
                                        ELSE next[<<m + 1, g[m]>>]]
  <2>2. \A i \in 0..m : h[i] = g[i]
    OBVIOUS
  <2>3. h \in [0..(m + 1) -> S] /\ h[0] = base
    BY <2>1 DEF Follows
  <2>4. ASSUME NEW i \in 1..(m + 1) PROVE h[i] = next[<<i, h[i - 1]>>]
    <3>1. CASE i \in 1..m
      <4>1. h[i] = g[i] /\ h[i - 1] = g[i - 1]
        BY <2>2, <3>1
      <4> QED
        BY <2>1, <3>1, <4>1 DEF Follows
    <3>2. CASE i = m + 1
      <4>1. h[i - 1] = g[m] /\ h[i] = next[<<m + 1, g[m]>>]
        BY <2>2, <3>2
      <4> QED
        BY <3>2, <4>1
    <3> QED
      BY <3>1, <3>2
  <2>5. Follows(h, m + 1, base, next, S)
    <3> HIDE DEF h
    <3> QED
      BY <2>3, <2>4 DEF Follows
  <2> HIDE DEF h
  <2> QED
    BY <2>5
<1>3. Nat \subseteq P
  <2> HIDE DEF P
  <2> QED
    BY <1>1, <1>2, NatSetInduction
<1> QED
  BY <1>3

-----------------------------------------------------------------------------
(* What Return supplies *)

\* What is left of the budget after each gap, and what the gaps up to one draw.
Left(gaps, left) ==
  [i \in 0..Len(gaps) |->
     IF i = 0 THEN ReturnMaxChars
     ELSE left[i - 1] - Allowed(gaps[i], left[i - 1])]

Drawn(gaps, drawn) ==
  [i \in 0..Len(gaps) |->
     IF i = 0 THEN 0
     ELSE drawn[i - 1] + (IF gaps[i].supply = None THEN 0 ELSE gaps[i].supply)]

\* The budget a gap is allowed is part of what is left.
LEMMA AllowedInBudget ==
  ASSUME NEW gap \in GapItem, NEW budget \in Nat
  PROVE  Allowed(gap, budget) \in 0..budget
BY DEF GapItem, Allowed

\* There is the function ClampSupply recurses with, and it never leaves less than
\* nothing.
LEMMA LeftExists ==
  ASSUME NEW gaps \in Seq(GapItem)
  PROVE  /\ \E left : left = Left(gaps, left)
         /\ \A left : left = Left(gaps, left) =>
              \A i \in 0..Len(gaps) : left[i] \in 0..ReturnMaxChars
<1> DEFINE n    == Len(gaps)
           next == [iv \in Nat \X (0..ReturnMaxChars) |->
                      IF iv[1] \in 1..n THEN iv[2] - Allowed(gaps[iv[1]], iv[2])
                      ELSE iv[2]]
<1>0. n \in Nat /\ ReturnMaxChars \in Nat
  BY KernelAssumption DEF KernelAssumption
<1>1. \A i \in 1..n : gaps[i] \in GapItem
  OBVIOUS
<1>2. ASSUME NEW i \in 1..n, NEW v \in 0..ReturnMaxChars
      PROVE  v - Allowed(gaps[i], v) \in 0..ReturnMaxChars
  <2>1. gaps[i] \in GapItem /\ v \in Nat
    BY <1>0, <1>1
  <2>2. Allowed(gaps[i], v) \in 0..v
    BY <2>1, AllowedInBudget
  <2> QED
    BY <1>0, <2>2
<1>3. next \in [Nat \X (0..ReturnMaxChars) -> 0..ReturnMaxChars]
  BY <1>2
<1>4. \E left : left = Left(gaps, left)
  <2>1. PICK g \in [0..n -> 0..ReturnMaxChars] :
          /\ g[0] = ReturnMaxChars
          /\ \A i \in 1..n : g[i] = next[<<i, g[i - 1]>>]
    <3>1. ReturnMaxChars \in 0..ReturnMaxChars
      BY <1>0
    <3> DEFINE S == 0..ReturnMaxChars
    <3> HIDE DEF next, n, S
    <3>2. next \in [Nat \X S -> S] /\ ReturnMaxChars \in S /\ n \in Nat
      BY <1>0, <1>3, <3>1 DEF S
    <3>3. \E g : Follows(g, n, ReturnMaxChars, next, S)
      BY <3>2, RecursionExists
    <3> QED
      BY <3>3 DEF S, Follows
  <2>2. \A i \in 1..n : g[i - 1] \in 0..ReturnMaxChars
    BY <1>0, <2>1
  <2>3. ASSUME NEW i \in 1..n
        PROVE  g[i] = g[i - 1] - Allowed(gaps[i], g[i - 1])
    <3>1. <<i, g[i - 1]>> \in Nat \X (0..ReturnMaxChars)
      BY <2>2
    <3>2. next[<<i, g[i - 1]>>] = g[i - 1] - Allowed(gaps[i], g[i - 1])
      BY <3>1
    <3> QED
      BY <2>1, <3>2
  <2>4. g = Left(gaps, g)
    BY <1>0, <2>1, <2>3 DEF Left
  <2> QED
    BY <2>4
<1>5. ASSUME NEW left, left = Left(gaps, left), NEW i \in 0..n
      PROVE  left[i] \in 0..ReturnMaxChars
  <2> DEFINE P == { m \in Nat : m <= n => left[m] \in 0..ReturnMaxChars }
  <2>1. 0 \in P
    BY <1>0, <1>5 DEF Left
  <2>2. ASSUME NEW m \in Nat, m \in P PROVE m + 1 \in P
    <3> SUFFICES ASSUME m + 1 <= n PROVE left[m + 1] \in 0..ReturnMaxChars
      OBVIOUS
    <3>1. left[m] \in 0..ReturnMaxChars /\ m + 1 \in 1..n
      BY <1>0, <2>2
    <3>2. left[m + 1] = left[m] - Allowed(gaps[m + 1], left[m])
      <4>1. m + 1 \in 0..n /\ m + 1 # 0 /\ (m + 1) - 1 = m
        BY <1>0, <3>1
      <4> QED
        BY <1>5, <4>1 DEF Left
    <3> QED
      BY <1>2, <3>1, <3>2
  <2>3. Nat \subseteq P
    <3> HIDE DEF P
    <3> QED
      BY <2>1, <2>2, NatSetInduction
  <2> QED
    BY <1>0, <2>3
<1> QED
  BY <1>4, <1>5

\* kept is gaps with the supplies left allows.
Clamped(gaps, left, kept) ==
  kept = [i \in DOMAIN gaps |->
            IF gaps[i].supply = None THEN gaps[i]
            ELSE [gaps[i] EXCEPT !.supply = Allowed(gaps[i], left[i - 1])]]

\* The function ClampSupply recurses with follows Left.
LEMMA ClampFollowsLeft ==
  ASSUME NEW gaps \in Seq(GapItem)
  PROVE  \E left :
           /\ left = Left(gaps, left)
           /\ Clamped(gaps, left, ClampSupply(gaps))
<1> DEFINE F(g) == [i \in 0..Len(gaps) |->
                      IF i = 0 THEN ReturnMaxChars
                               ELSE g[i - 1] - Allowed(gaps[i], g[i - 1])]
           left == CHOOSE g : g = F(g)
<1>1. left = Left(gaps, left)
  <2>1. \E g : g = F(g)
    BY LeftExists DEF Left
  <2>2. left = F(left)
    <3> HIDE DEF F
    <3> QED
      BY <2>1
  <2> QED
    BY <2>2 DEF Left
<1>2. Clamped(gaps, left, ClampSupply(gaps))
  BY DEF ClampSupply, Clamped
<1> HIDE DEF left
<1> QED
  BY <1>1, <1>2

\* An open gap: its supply may have been cut to nothing.
OpenGap == [shield : BOOLEAN, severity : 1..3, supply : Nat \cup {None}]

\* The clamp keeps every gap and its severity, and cuts its supply to its part of
\* what is left.
LEMMA ClampKeepsGaps ==
  ASSUME NEW gaps \in Seq(GapItem), NEW left, left = Left(gaps, left),
         NEW kept, Clamped(gaps, left, kept)
  PROVE  /\ kept \in Seq(OpenGap)
         /\ Len(kept) = Len(gaps)
         /\ \A i \in 1..Len(gaps) :
              /\ kept[i].severity = gaps[i].severity
              /\ kept[i].supply # None => kept[i].supply = left[i - 1] - left[i]
              /\ left[i] <= left[i - 1]
<1> DEFINE n == Len(gaps)
<1>0. n \in Nat /\ ReturnMaxChars \in Nat /\ DOMAIN gaps = 1..n
  BY KernelAssumption DEF KernelAssumption
<1>1. \A i \in 0..n : left[i] \in 0..ReturnMaxChars
  BY LeftExists
<1>2. ASSUME NEW i \in 1..n
      PROVE  /\ kept[i] \in OpenGap
             /\ kept[i].severity = gaps[i].severity
             /\ kept[i].supply # None => kept[i].supply = left[i - 1] - left[i]
             /\ left[i] <= left[i - 1]
  <2>1. gaps[i] \in GapItem /\ left[i - 1] \in Nat
    BY <1>0, <1>1
  <2>2. PICK a \in 0..left[i - 1] : a = Allowed(gaps[i], left[i - 1])
    BY <2>1, AllowedInBudget
  <2>3. left[i] = left[i - 1] - a
    <3>1. i \in 0..n /\ i # 0
      BY <1>0
    <3> QED
      BY <3>1, <2>2 DEF Left
  <2>4. /\ a \in Nat /\ left[i] <= left[i - 1]
        /\ left[i - 1] - left[i] = a
    BY <2>1, <2>2, <2>3
  <2>5. kept[i] = IF gaps[i].supply = None THEN gaps[i]
                  ELSE [gaps[i] EXCEPT !.supply = a]
    BY <1>0, <2>2 DEF Clamped
  <2>6. gaps[i] \in OpenGap
    BY <2>1 DEF GapItem, OpenGap
  <2>7. CASE gaps[i].supply = None
    BY <2>4, <2>5, <2>6, <2>7
  <2>8. CASE gaps[i].supply # None
    <3>1. kept[i] = [gaps[i] EXCEPT !.supply = a]
      BY <2>5, <2>8
    <3>2. kept[i] \in OpenGap /\ kept[i].supply = a
      BY <2>4, <2>6, <3>1 DEF OpenGap
    <3>3. kept[i].severity = gaps[i].severity
      BY <2>6, <3>1 DEF OpenGap
    <3> QED
      BY <2>4, <3>2, <3>3
  <2> QED
    BY <2>7, <2>8
<1>3. kept \in [1..n -> OpenGap]
  BY <1>0, <1>2 DEF Clamped
<1>4. kept \in Seq(OpenGap) /\ Len(kept) = n
  BY <1>0, <1>3
<1> QED
  BY <1>2, <1>4

\* Drawing what is left leaves the sum within the budget.
LEMMA StaysWithin ==
  ASSUME NEW budget \in Nat, NEW a \in Nat, NEW b \in Nat,
         NEW before \in Nat, NEW after \in Nat,
         a <= budget - before, b <= before - after
  PROVE  a + b \in Nat /\ a + b <= budget - after
OBVIOUS

\* What the clamped gaps draw together stays within the budget.
LEMMA ClampedDraws ==
  ASSUME NEW gaps \in Seq(GapItem), NEW kept, kept = ClampSupply(gaps)
  PROVE  /\ kept \in Seq(OpenGap)
         /\ Len(kept) = Len(gaps)
         /\ \A i \in 1..Len(gaps) : kept[i].severity = gaps[i].severity
         /\ \E drawn : drawn = Drawn(kept, drawn)
         /\ \A drawn : drawn = Drawn(kept, drawn) =>
              \A i \in 0..Len(kept) : drawn[i] \in 0..ReturnMaxChars
<1> DEFINE n == Len(gaps)
           amount == [i \in 1..n |-> IF kept[i].supply = None THEN 0
                                     ELSE kept[i].supply]
           next == [iv \in Nat \X Nat |-> IF iv[1] \in 1..n
                                          THEN iv[2] + amount[iv[1]] ELSE iv[2]]
<1>0. n \in Nat /\ ReturnMaxChars \in Nat
  BY KernelAssumption DEF KernelAssumption
<1>1. PICK left :
        /\ left = Left(gaps, left)
        /\ Clamped(gaps, left, kept)
  BY ClampFollowsLeft
<1>2. /\ kept \in Seq(OpenGap)
      /\ Len(kept) = n
      /\ \A i \in 1..n :
           /\ kept[i].severity = gaps[i].severity
           /\ kept[i].supply # None => kept[i].supply = left[i - 1] - left[i]
           /\ left[i] <= left[i - 1]
  BY <1>1, ClampKeepsGaps
<1>3. /\ \A i \in 0..n : left[i] \in 0..ReturnMaxChars
      /\ left[0] = ReturnMaxChars
  <2>1. \A i \in 0..n : left[i] \in 0..ReturnMaxChars
    BY <1>1, LeftExists
  <2> QED
    BY <1>0, <1>1, <2>1 DEF Left
<1>4. ASSUME NEW i \in 1..n
      PROVE  amount[i] \in Nat /\ amount[i] <= left[i - 1] - left[i]
  <2>1. left[i] \in Nat /\ left[i - 1] \in Nat
    BY <1>0, <1>3
  <2>2. left[i] <= left[i - 1]
    BY <1>2
  <2>3. CASE kept[i].supply = None
    <3>1. amount[i] = 0
      BY <2>3
    <3> QED
      BY <2>1, <2>2, <3>1
  <2>4. CASE kept[i].supply # None
    <3>1. amount[i] = kept[i].supply
      BY <2>4
    <3>2. kept[i].supply = left[i - 1] - left[i]
      BY <1>2, <2>4
    <3> HIDE DEF amount
    <3> QED
      BY <2>1, <2>2, <3>1, <3>2
  <2> QED
    BY <2>3, <2>4
<1> HIDE DEF amount
<1>5. next \in [Nat \X Nat -> Nat]
  BY <1>4
<1>6. PICK g : Follows(g, n, 0, next, Nat)
  <2> HIDE DEF next
  <2> QED
    BY <1>0, <1>5, RecursionExists
<1>7. ASSUME NEW drawn
      PROVE  drawn = Drawn(kept, drawn) <=>
               drawn = [i \in 0..n |-> IF i = 0 THEN 0
                                       ELSE drawn[i - 1] + amount[i]]
  <2>1. \A i \in 1..n : amount[i] = IF kept[i].supply = None THEN 0
                                  ELSE kept[i].supply
    BY DEF amount
  <2>2. \A i \in 0..n : i # 0 => i \in 1..n
    BY <1>0
  <2> QED
    BY <1>2, <2>1, <2>2 DEF Drawn
<1>8. \E drawn : drawn = Drawn(kept, drawn)
  <2>1. ASSUME NEW i \in 1..n PROVE g[i] = g[i - 1] + amount[i]
    <3>1. <<i, g[i - 1]>> \in Nat \X Nat
      BY <1>0, <1>6 DEF Follows
    <3>2. next[<<i, g[i - 1]>>] = g[i - 1] + amount[i]
      BY <3>1
    <3> QED
      BY <1>6, <3>2 DEF Follows
  <2>2. g = [i \in 0..n |-> IF i = 0 THEN 0 ELSE g[i - 1] + amount[i]]
    BY <1>0, <1>6, <2>1 DEF Follows
  <2> QED
    BY <1>7, <2>2
<1>9. ASSUME NEW drawn, drawn = Drawn(kept, drawn), NEW i \in 0..n
      PROVE  drawn[i] \in 0..ReturnMaxChars
  <2> DEFINE P == { m \in Nat : m <= n => /\ drawn[m] \in Nat
                                          /\ drawn[m] <= ReturnMaxChars - left[m] }
  <2>0. drawn = [m \in 0..n |-> IF m = 0 THEN 0 ELSE drawn[m - 1] + amount[m]]
    BY <1>7, <1>9
  <2>1. 0 \in P
    BY <1>0, <1>3, <2>0
  <2>2. ASSUME NEW m \in Nat, m \in P PROVE m + 1 \in P
    <3> SUFFICES ASSUME m + 1 <= n
                 PROVE  /\ drawn[m + 1] \in Nat
                        /\ drawn[m + 1] <= ReturnMaxChars - left[m + 1]
      OBVIOUS
    <3>1. /\ drawn[m] \in Nat /\ drawn[m] <= ReturnMaxChars - left[m]
          /\ m + 1 \in 1..n /\ m \in 0..n /\ m + 1 \in 0..n
      BY <1>0, <2>2
    <3>2. drawn[m + 1] = drawn[m] + amount[m + 1]
      <4>1. m + 1 # 0 /\ (m + 1) - 1 = m
        OBVIOUS
      <4> QED
        BY <2>0, <3>1, <4>1
    <3>3. amount[m + 1] \in Nat /\ amount[m + 1] <= left[m] - left[m + 1]
      <4>1. (m + 1) - 1 = m
        OBVIOUS
      <4> QED
        BY <1>4, <3>1, <4>1
    <3>4. left[m] \in Nat /\ left[m + 1] \in Nat
      BY <1>0, <1>3, <3>1
    <3>5. \A a, b, before, after \in Nat :
            a <= ReturnMaxChars - before /\ b <= before - after =>
              a + b \in Nat /\ a + b <= ReturnMaxChars - after
      BY <1>0, StaysWithin
    <3> DEFINE a      == drawn[m]
               b      == amount[m + 1]
               before == left[m]
               after  == left[m + 1]
    <3>6. /\ a \in Nat /\ b \in Nat /\ before \in Nat /\ after \in Nat
          /\ a <= ReturnMaxChars - before /\ b <= before - after
          /\ drawn[m + 1] = a + b
      BY <3>1, <3>2, <3>3, <3>4
    <3> HIDE DEF a, b, before
    <3>7. a + b \in Nat /\ a + b <= ReturnMaxChars - after
      <4> HIDE DEF after
      <4> QED
        BY <3>5, <3>6
    <3> QED
      BY <3>6, <3>7
  <2>3. Nat \subseteq P
    <3> HIDE DEF P
    <3> QED
      BY <2>1, <2>2, NatSetInduction
  <2>4. drawn[i] \in Nat /\ drawn[i] <= ReturnMaxChars - left[i]
    BY <1>0, <2>3
  <2> QED
    BY <1>0, <1>3, <2>4
<1> QED
  BY <1>2, <1>8, <1>9

-----------------------------------------------------------------------------
(* Which gaps Return keeps *)

\* The gaps sorted before gap j, and the rank of j.
Before(gaps, j) == {i \in DOMAIN gaps : Precedes(gaps, i, j)}

\* Both intervals of length n have n members.
LEMMA UpTo ==
  ASSUME NEW n \in Nat
  PROVE  /\ IsFiniteSet(1..n) /\ Cardinality(1..n) = n
         /\ IsFiniteSet(0..(n - 1)) /\ Cardinality(0..(n - 1)) = n
<1> DEFINE m == n - 1
<1>1. n \in Int /\ m \in Int /\ 0 \in Int /\ 1 \in Int
  OBVIOUS
<1> HIDE DEF m
<1>2. /\ IsFiniteSet(1..n)
      /\ Cardinality(1..n) = IF 1 > n THEN 0 ELSE n - 1 + 1
  BY <1>1, FS_Interval
<1>3. /\ IsFiniteSet(0..m)
      /\ Cardinality(0..m) = IF 0 > m THEN 0 ELSE m - 0 + 1
  BY <1>1, FS_Interval
<1> QED
  BY <1>2, <1>3 DEF m

\* A gap that precedes another one has a lower rank.
LEMMA RankOrder ==
  ASSUME NEW gaps \in Seq(GapItem), NEW i \in DOMAIN gaps, NEW j \in DOMAIN gaps
  PROVE  /\ Cardinality(Before(gaps, i)) \in 0..(Len(gaps) - 1)
         /\ Precedes(gaps, i, j) =>
              Cardinality(Before(gaps, i)) < Cardinality(Before(gaps, j))
         /\ i # j => Precedes(gaps, i, j) \/ Precedes(gaps, j, i)
<1> DEFINE n == Len(gaps)
<1>0. n \in Nat /\ DOMAIN gaps = 1..n /\ i \in 1..n /\ j \in 1..n
  OBVIOUS
<1>1. \A h \in 1..n : gaps[h].severity \in Int
  <2>1. \A h \in 1..n : gaps[h] \in GapItem
    BY <1>0
  <2> QED
    BY <2>1 DEF GapItem
<1>2. IsFiniteSet(1..n) /\ Cardinality(1..n) = n
  BY <1>0, UpTo
<1>3. ASSUME NEW h \in 1..n
      PROVE  /\ IsFiniteSet(Before(gaps, h))
             /\ Cardinality(Before(gaps, h)) \in Nat
             /\ Cardinality(Before(gaps, h)) < n
  <2>1. Before(gaps, h) \in SUBSET (1..n) /\ h \notin Before(gaps, h)
    BY <1>0, <1>1 DEF Before, Precedes
  <2>2. /\ IsFiniteSet(Before(gaps, h))
        /\ Cardinality(Before(gaps, h)) <= n
        /\ Cardinality(Before(gaps, h)) # n
    BY <1>2, <2>1, FS_Subset
  <2>3. Cardinality(Before(gaps, h)) \in Nat
    BY <2>2, FS_CardinalityType
  <2> QED
    BY <1>0, <2>2, <2>3
<1>4. ASSUME Precedes(gaps, i, j)
      PROVE  Cardinality(Before(gaps, i)) < Cardinality(Before(gaps, j))
  <2>1. /\ Before(gaps, i) \in SUBSET Before(gaps, j)
        /\ i \in Before(gaps, j) /\ i \notin Before(gaps, i)
    BY <1>0, <1>1, <1>4 DEF Before, Precedes
  <2>2. /\ Cardinality(Before(gaps, i)) <= Cardinality(Before(gaps, j))
        /\ Cardinality(Before(gaps, i)) # Cardinality(Before(gaps, j))
    BY <1>0, <1>3, <2>1, FS_Subset
  <2> QED
    BY <1>0, <1>3, <2>2
<1>5. i # j => Precedes(gaps, i, j) \/ Precedes(gaps, j, i)
  BY <1>0, <1>1 DEF Precedes
<1>6. Cardinality(Before(gaps, i)) \in 0..(n - 1)
  BY <1>0, <1>3
<1> QED
  BY <1>4, <1>5, <1>6

\* Every rank is taken.
LEMMA RankTaken ==
  ASSUME NEW gaps \in Seq(GapItem), NEW k \in 1..Len(gaps)
  PROVE  \E j \in DOMAIN gaps : Cardinality(Before(gaps, j)) = k - 1
<1> DEFINE n    == Len(gaps)
           rank == [j \in 1..n |-> Cardinality(Before(gaps, j))]
<1>0. n \in Nat /\ DOMAIN gaps = 1..n /\ n >= 1
  OBVIOUS
<1>1. rank \in [1..n -> 0..(n - 1)]
  BY <1>0, RankOrder
<1>2. ASSUME NEW i \in 1..n, NEW j \in 1..n, rank[i] = rank[j]
      PROVE  i = j
  <2>1. rank[i] \in Int /\ rank[j] \in Int
    BY <1>0, <1>1
  <2>2. /\ Precedes(gaps, i, j) => rank[i] < rank[j]
        /\ Precedes(gaps, j, i) => rank[j] < rank[i]
        /\ i # j => Precedes(gaps, i, j) \/ Precedes(gaps, j, i)
    BY <1>0, RankOrder
  <2> HIDE DEF rank
  <2> QED
    BY <1>2, <2>1, <2>2
<1>3. rank \in Injection(1..n, 0..(n - 1))
  <2> HIDE DEF rank
  <2> QED
    BY <1>1, <1>2 DEF Injection, IsInjective
<1>4. /\ IsFiniteSet(0..(n - 1))
      /\ Cardinality(0..(n - 1)) = Cardinality(1..n)
  BY <1>0, UpTo
<1>5. rank \in Surjection(1..n, 0..(n - 1))
  BY <1>3, <1>4, FS_Injection
<1>6. k - 1 \in 0..(n - 1)
  BY <1>0
<1>7. PICK j \in 1..n : rank[j] = k - 1
  <2> HIDE DEF rank
  <2> QED
    BY <1>5, <1>6 DEF Surjection
<1> QED
  BY <1>0, <1>7

\* The gaps kept are gaps of the report, the more severe ones first.
LEMMA KeptIsSorted ==
  ASSUME NEW gaps \in Seq(GapItem)
  PROVE  LET kept == WithinProbeBudget(gaps)
         IN  /\ kept \in Seq(GapItem)
             /\ Len(kept) = ProbesKept(gaps)
             /\ \A i, j \in 1..Len(kept) : i < j => kept[i].severity >= kept[j].severity
<1> DEFINE n    == Len(gaps)
           kept == WithinProbeBudget(gaps)
           at(k) == CHOOSE j \in DOMAIN gaps : Cardinality(Before(gaps, j)) = k - 1
<1>0. n \in Nat /\ DOMAIN gaps = 1..n
  OBVIOUS
<1>1. ProbesKept(gaps) \in 0..n
  BY <1>0, KernelAssumption DEF KernelAssumption, ProbesKept
<1>2. ASSUME NEW k \in 1..ProbesKept(gaps)
      PROVE  /\ at(k) \in 1..n
             /\ Cardinality(Before(gaps, at(k))) = k - 1
             /\ kept[k] = gaps[at(k)]
  <2>1. k \in 1..n
    BY <1>0, <1>1
  <2>2. at(k) \in DOMAIN gaps /\ Cardinality(Before(gaps, at(k))) = k - 1
    BY <2>1, RankTaken
  <2>3. kept[k] = gaps[at(k)]
    BY DEF WithinProbeBudget, AtRank, Before
  <2> QED
    BY <1>0, <2>2, <2>3
<1> HIDE DEF at
<1>3. kept \in [1..ProbesKept(gaps) -> GapItem]
  <2>1. \A k \in 1..ProbesKept(gaps) : kept[k] \in GapItem
    BY <1>0, <1>2
  <2>2. kept = [k \in 1..ProbesKept(gaps) |-> kept[k]]
    BY DEF WithinProbeBudget
  <2> HIDE DEF kept
  <2> QED
    BY <2>1, <2>2
<1>4. kept \in Seq(GapItem) /\ Len(kept) = ProbesKept(gaps)
  BY <1>1, <1>3
<1>5. ASSUME NEW i \in 1..ProbesKept(gaps), NEW j \in 1..ProbesKept(gaps), i < j
      PROVE  kept[i].severity >= kept[j].severity
  <2> DEFINE p == at(i)
             q == at(j)
  <2>1. /\ p \in 1..n /\ q \in 1..n
        /\ Cardinality(Before(gaps, p)) = i - 1
        /\ Cardinality(Before(gaps, q)) = j - 1
        /\ kept[i] = gaps[p] /\ kept[j] = gaps[q]
    BY <1>2
  <2> HIDE DEF p, q
  <2>2. ~ Precedes(gaps, q, p)
    <3>1. Precedes(gaps, q, p) => j - 1 < i - 1
      BY <1>0, <2>1, RankOrder
    <3> QED
      BY <1>0, <1>1, <1>5, <3>1
  <2>3. gaps[p].severity \in Int /\ gaps[q].severity \in Int
    <3>1. gaps[p] \in GapItem /\ gaps[q] \in GapItem
      BY <1>0, <2>1
    <3> QED
      BY <3>1 DEF GapItem
  <2> QED
    BY <2>1, <2>2, <2>3 DEF Precedes
<1> QED
  BY <1>4, <1>5

-----------------------------------------------------------------------------
(* The gaps a loop has open *)

\* Gaps whose draws stay in the budget, the more severe ones first, are supplied
\* within the budget.
LEMMA DrawsInBudget ==
  ASSUME NEW gaps, Len(gaps) \in Nat,
         \E drawn : drawn = Drawn(gaps, drawn),
         \A drawn : drawn = Drawn(gaps, drawn) =>
           \A i \in 0..Len(gaps) : drawn[i] \in 0..ReturnMaxChars,
         \A i, j \in 1..Len(gaps) : i < j => gaps[i].severity >= gaps[j].severity
  PROVE  SuppliesInBudget(gaps)
<1> DEFINE F(g) == [i \in 0..Len(gaps) |->
                      IF i = 0 THEN 0
                      ELSE g[i - 1] + (IF gaps[i].supply = None THEN 0
                                       ELSE gaps[i].supply)]
           drawn == CHOOSE g : g = F(g)
<1>1. drawn = Drawn(gaps, drawn)
  <2>1. \E g : g = F(g)
    BY DEF Drawn
  <2>2. drawn = F(drawn)
    <3> HIDE DEF F
    <3> QED
      BY <2>1
  <2> QED
    BY <2>2 DEF Drawn
<1>2. SuppliesInBudget(gaps) <=>
        /\ \A i \in 0..Len(gaps) : drawn[i] \in 0..ReturnMaxChars
        /\ \A i, j \in 1..Len(gaps) : i < j => gaps[i].severity >= gaps[j].severity
  BY DEF SuppliesInBudget
<1> HIDE DEF drawn
<1> QED
  BY <1>1, <1>2

\* No gaps draw nothing.
LEMMA NothingSupplied == SuppliesInBudget(<< >>)
<1>1. Len(<< >>) = 0
  OBVIOUS
<1>2. \A g : g = Drawn(<< >>, g) => \A i \in 0..Len(<< >>) : g[i] \in 0..ReturnMaxChars
  BY <1>1, KernelAssumption DEF Drawn, KernelAssumption
<1>3. \E g : g = Drawn(<< >>, g)
  <2> DEFINE g == [i \in 0..0 |-> 0]
  <2>1. g = Drawn(<< >>, g)
    BY <1>1 DEF Drawn
  <2> QED
    BY <2>1
<1> QED
  BY <1>1, <1>2, <1>3, DrawsInBudget

\* What Return opens stays within the budget: the clamp is shared, and the gaps
\* kept are in the order of their severity.
LEMMA ReturnInBudget ==
  ASSUME NEW gaps \in Seq(GapItem)
  PROVE  SuppliesInBudget(ClampSupply(WithinProbeBudget(gaps)))
<1> DEFINE kept == WithinProbeBudget(gaps)
           open == ClampSupply(kept)
<1>1. /\ kept \in Seq(GapItem)
      /\ \A i, j \in 1..Len(kept) : i < j => kept[i].severity >= kept[j].severity
  BY KeptIsSorted
<1> HIDE DEF kept
<1>2. /\ open \in Seq(OpenGap)
      /\ Len(open) = Len(kept)
      /\ \A i \in 1..Len(kept) : open[i].severity = kept[i].severity
      /\ \E drawn : drawn = Drawn(open, drawn)
      /\ \A drawn : drawn = Drawn(open, drawn) =>
           \A i \in 0..Len(open) : drawn[i] \in 0..ReturnMaxChars
  BY <1>1, ClampedDraws
<1> HIDE DEF open
<1>3. \A i, j \in 1..Len(open) : i < j => open[i].severity >= open[j].severity
  BY <1>1, <1>2
<1>4. Len(open) \in Nat
  BY <1>2
<1>5. SuppliesInBudget(open)
  BY <1>2, <1>3, <1>4, DrawsInBudget
<1> QED
  BY <1>5 DEF open, kept

\* tick() never opens gaps whose supplies exceed the budget, in whatever state.
THEOREM TickKeepsSupplies ==
  ASSUME NEW s, LegalSnapshot(s), SuppliesInBudget(s.open_gaps), NEW e \in LoopEvent
  PROVE  SuppliesInBudget(tick(s, e).state.open_gaps)
<1> DEFINE t == tick(s, e).state
<1>1. \/ t.open_gaps = s.open_gaps
      \/ t.open_gaps = << >>
      \/ /\ e.kind = "gap_reported"
         /\ t.open_gaps = ClampSupply(WithinProbeBudget(e.report.gaps))
  <2>1. DOMAIN s = DOMAIN NewSnapshot
    BY DEF LegalSnapshot, IsSnapshot
  <2>2. CASE s.state \in TERMINAL_STATES \/ ~ Accepts(s.state, e.kind)
    BY <2>2 DEF tick, LoopStep
  <2>3. CASE ~ (s.state \in TERMINAL_STATES \/ ~ Accepts(s.state, e.kind))
    <3>1. e.kind \in EventKind
      BY DEF LoopEvent, EventKind
    <3>2. CASE e.kind = "concept_named"
      <4>1. tick(s, e) = OnConceptNamed(s, e)
        BY <2>3, <3>2 DEF tick
      <4>2. DOMAIN NextLap(s) = DOMAIN NewSnapshot
        BY <2>1 DEF NextLap
      <4>3. t = [NextLap(s) EXCEPT !.concept_id = e.concept_id,
                                   !.open_gaps = << >>,
                                   !.probes_used = 0]
        BY <4>1 DEF OnConceptNamed, LoopStep
      <4>4. "open_gaps" \in DOMAIN NextLap(s)
        BY <4>2 DEF NewSnapshot
      <4> HIDE DEF t
      <4> QED
        BY <4>3, <4>4
    <3>3. CASE e.kind = "explanation_submitted"
      <4>1. tick(s, e) = OnExplanationSubmitted(s, e)
        BY <2>3, <3>3 DEF tick
      <4> QED
        BY <2>1, <4>1 DEF OnExplanationSubmitted, LoopStep, NewSnapshot
    <3>4. CASE e.kind = "gap_reported"
      <4>1. tick(s, e) = OnGapReported(s, e)
        BY <2>3, <3>4 DEF tick
      <4> QED
        BY <2>1, <3>4, <4>1 DEF OnGapReported, LoopStep, NewSnapshot
    <3>5. CASE e.kind = "supply_completed"
      <4>1. tick(s, e) = OnSupplyCompleted(s, e)
        BY <2>3, <3>5 DEF tick
      <4> QED
        BY <2>1, <4>1 DEF OnSupplyCompleted, LoopStep, NextLap, NewSnapshot
    <3>6. CASE e.kind = "simplify_judged"
      <4>1. tick(s, e) = OnSimplifyJudged(s, e)
        BY <2>3, <3>6 DEF tick
      <4> QED
        BY <2>1, <4>1 DEF OnSimplifyJudged, LoopStep, NextLap, NewSnapshot
    <3>7. CASE e.kind = "escape_requested"
      <4>1. tick(s, e) = OnEscapeRequested(s, e)
        BY <2>3, <3>7 DEF tick
      <4> QED
        BY <2>1, <4>1 DEF OnEscapeRequested, LoopStep, NewSnapshot
    <3> QED
      BY <3>1, <3>2, <3>3, <3>4, <3>5, <3>6, <3>7 DEF EventKind
  <2> QED
    BY <2>2, <2>3
<1>2. e.kind = "gap_reported" => e.report.gaps \in Seq(GapItem)
  BY DEF LoopEvent, GapReport
<1> HIDE DEF t
<1>3. SuppliesInBudget(t.open_gaps)
  BY <1>1, <1>2, NothingSupplied, ReturnInBudget
<1> QED
  BY <1>3 DEF t

=============================================================================
