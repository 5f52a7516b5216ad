--------------------------- MODULE FeynmanKernel ---------------------------
(***************************************************************************)
(* The teaching kernel of the chat backend as constant-level operators:    *)
(* the thresholds (pedagogy/policy.py), the transition table               *)
(* (pedagogy/states.py) and the pure function  tick  (pedagogy/loop.py).   *)
(* FeynmanLoop drives one loop with it, PedagogyChat puts it behind        *)
(* /api/chat.                                                              *)
(*                                                                         *)
(* Abstractions.  A gap keeps what the kernel tells apart: whether it is a *)
(* jargon shield, its severity and the character budget of its supply      *)
(* (None: no atom bundle attached).  A report keeps the gaps, the two      *)
(* scores the verdict reads, the grader's verdict and whether some claim   *)
(* is wrong.  The two talk counters saturate at TalkCap, a bound of the    *)
(* model, not of the code.  Texts, reasons, notes and prerequisites are    *)
(* left out: nothing branches on them.                                     *)
(***************************************************************************)
EXTENDS Absent, Integers, Sequences, FiniteSets

CONSTANTS
  MaxLoops,         \* PEDAGOGY_MAX_LOOPS
  MaxProbes,        \* PEDAGOGY_MAX_PROBES_PER_TURN
  ReturnMaxChars,   \* PEDAGOGY_RETURN_MAX_CHARS
  MinExplainChars,  \* PEDAGOGY_MIN_EXPLAIN_CHARS
  MinTalkPct,       \* PEDAGOGY_MIN_LEARNER_TALK_RATIO, in percent
  MinCompleteness,  \* PEDAGOGY_MIN_COMPLETENESS, on the scale 0..FullScore
  MinOwnWords,      \* PEDAGOGY_MIN_OWN_WORDS, on the same scale
  FullScore,        \* the score 1.0
  TalkCap,          \* where the model stops counting characters
  Concepts          \* the concepts a learner may name

ASSUME KernelAssumption ==
  /\ MaxLoops \in Nat \ {0}
  /\ MaxProbes \in Nat \ {0}
  /\ ReturnMaxChars \in Nat \ {0}
  /\ MinExplainChars \in Nat \ {0}
  /\ MinTalkPct \in 0..100
  /\ FullScore \in Nat
  /\ MinCompleteness \in 0..FullScore
  /\ MinOwnWords \in 0..FullScore
  /\ TalkCap \in Nat
  /\ None \notin Concepts
  /\ None \notin [completeness : 0..FullScore, own_words : 0..FullScore]

-----------------------------------------------------------------------------
(* States and the transition table *)

TERMINAL_STATES == {"Closed", "Escaped"}
ACTIVE_STATES   == {"Pick", "Teach", "Detect", "Return", "Simplify"}
FeynmanState    == ACTIVE_STATES \cup TERMINAL_STATES

EventKind == {"concept_named", "explanation_submitted", "gap_reported",
              "supply_completed", "simplify_judged", "escape_requested"}

\* <<state, event kind, candidate target>>
TRANSITIONS ==
  { <<"Pick",     "concept_named",         "Teach">>,
    <<"Teach",    "explanation_submitted", "Detect">>,
    <<"Teach",    "explanation_submitted", "Teach">>,
    <<"Detect",   "gap_reported",          "Return">>,
    <<"Detect",   "gap_reported",          "Simplify">>,
    <<"Return",   "supply_completed",      "Teach">>,
    <<"Simplify", "simplify_judged",       "Closed">>,
    <<"Simplify", "simplify_judged",       "Teach">>,
    <<"Simplify", "simplify_judged",       "Simplify">> }
  \cup (ACTIVE_STATES \X {"escape_requested"} \X {"Escaped"})
  \cup { <<st, "escape_requested", st>> : st \in ACTIVE_STATES }

AcceptsAnything(st, kind) == TRUE  \* mutant: no table look-up

Accepts(st, kind) == \E to \in FeynmanState : <<st, kind, to>> \in TRANSITIONS

-----------------------------------------------------------------------------
(* Evidence and snapshots *)

Scores  == [completeness : 0..FullScore, own_words : 0..FullScore]
Verdict == {"closed", "not_closed"}

GapItem == [ shield : BOOLEAN, severity : 1..3,
             supply : (Nat \ {0}) \cup {None} ]

GapReport == [ gaps : Seq(GapItem), scores : Scores, verdict : Verdict,
               wrong : BOOLEAN ]

\* What tick() is called with.
LoopEvent ==
  [kind : {"concept_named"}, concept_id : Concepts]
  \cup [kind : {"explanation_submitted"}, chars : Nat, system_chars : Nat]
  \cup [kind : {"gap_reported"}, report : GapReport, system_chars : Nat]
  \cup [kind : {"supply_completed"}, system_chars : Nat]
  \cup [kind : {"simplify_judged"}, report : GapReport,
        transfer_passed : BOOLEAN, system_chars : Nat]
  \cup [kind : {"escape_requested"}, confirmed : BOOLEAN, system_chars : Nat]

NewSnapshot ==
  [ state         |-> "Pick",
    concept_id    |-> None,
    loop_index    |-> 0,
    open_gaps     |-> << >>,
    probes_used   |-> 0,
    learner_chars |-> 0,
    system_chars  |-> 0,
    last_scores   |-> None,
    loop_capped   |-> FALSE ]

Add(m, n) == IF m + n > TalkCap THEN TalkCap ELSE m + n

LoopStep(s, actions, violations) ==
  [state |-> s, actions |-> actions, violations |-> violations]

-----------------------------------------------------------------------------
(* What every snapshot the kernel produces satisfies *)

\* The fields and their types, and one open gap per probe used; what the gaps
\* hold is SuppliesInBudget.
IsSnapshot(s) ==
  /\ DOMAIN s = DOMAIN NewSnapshot
  /\ s.state \in FeynmanState
  /\ s.concept_id \in Concepts \cup {None}
  /\ s.loop_index \in Nat
  /\ s.probes_used \in Nat
  /\ DOMAIN s.open_gaps = 1..s.probes_used
  /\ s.learner_chars \in 0..TalkCap
  /\ s.system_chars \in 0..TalkCap
  /\ s.last_scores \in Scores \cup {None}
  /\ s.loop_capped \in BOOLEAN

LapsInBudget(s) ==
  /\ s.loop_index <= MaxLoops
  /\ s.state = "Pick" => s.loop_index = 0
  /\ s.state \in ACTIVE_STATES \ {"Pick"} => s.loop_index >= 1
  /\ s.loop_capped => /\ s.loop_index = MaxLoops
                      /\ s.state \notin {"Pick", "Teach", "Detect"}

GapsAccounted(s) ==
  /\ s.open_gaps # << >> => s.state \in {"Return", "Escaped"}
  /\ s.probes_used <= MaxProbes
  /\ s.state = "Return" /\ s.open_gaps = << >> => s.loop_capped

SuppliesInBudget(gaps) ==
  LET drawn[i \in 0..Len(gaps)] ==
        IF i = 0 THEN 0
        ELSE drawn[i - 1] + (IF gaps[i].supply = None THEN 0 ELSE gaps[i].supply)
  IN  /\ \A i \in 0..Len(gaps) : drawn[i] \in 0..ReturnMaxChars
      /\ \A i, j \in 1..Len(gaps) : i < j => gaps[i].severity >= gaps[j].severity

\* Every loop past Pick is about a concept, unless it was escaped before.
ConceptKnown(s) == s.state \notin {"Pick", "Escaped"} => s.concept_id \in Concepts

ClosureEvidenced(s) ==
  s.state = "Closed" =>
    /\ s.last_scores # None
    /\ s.last_scores.completeness >= MinCompleteness
    /\ s.last_scores.own_words >= MinOwnWords

LegalSnapshot(s) ==
  /\ IsSnapshot(s)
  /\ LapsInBudget(s)
  /\ GapsAccounted(s)
  /\ ConceptKnown(s)
  /\ ClosureEvidenced(s)

-----------------------------------------------------------------------------
(* Guards *)

\* The learner's share is below the floor; nobody having spoken counts as 0.
TalkRatioLow(learner, system) ==
  IF learner + system > 0
  THEN 100 * learner < MinTalkPct * (learner + system)
  ELSE MinTalkPct > 0

remaining_probes(used) ==
  IF used >= MaxProbes THEN 0 ELSE MaxProbes - (IF used < 0 THEN 0 ELSE used)

\* sorted(enumerate(gaps), key=(-severity, index))
Precedes(gaps, i, j) ==
  \/ gaps[i].severity > gaps[j].severity
  \/ gaps[i].severity = gaps[j].severity /\ i < j

AtRank(gaps, k) ==
  gaps[CHOOSE j \in DOMAIN gaps :
         Cardinality({i \in DOMAIN gaps : Precedes(gaps, i, j)}) = k - 1]

ProbesUncapped(gaps) == Len(gaps)  \* mutant: no probe budget

ProbesKept(gaps) == IF Len(gaps) > MaxProbes THEN MaxProbes ELSE Len(gaps)

\* mutant: the gaps are not cut to the probes
WithinProbeBudgetUncut(gaps) == [k \in DOMAIN gaps |-> AtRank(gaps, k)]

WithinProbeBudget(gaps) == [k \in 1..ProbesKept(gaps) |-> AtRank(gaps, k)]

\* mutant: every gap gets the whole budget
AllowedUnshared(gap, budget) == IF gap.supply = None THEN 0 ELSE gap.supply

\* What one gap may draw from the budget that is left.
Allowed(gap, budget) ==
  CASE gap.supply = None -> 0
    [] OTHER -> IF gap.supply < budget THEN gap.supply ELSE budget

ClampSupply(gaps) ==
  LET left[i \in 0..Len(gaps)] ==
        IF i = 0 THEN ReturnMaxChars
                 ELSE left[i - 1] - Allowed(gaps[i], left[i - 1])
  IN  [i \in DOMAIN gaps |->
         IF gaps[i].supply = None THEN gaps[i]
         ELSE [gaps[i] EXCEPT !.supply = Allowed(gaps[i], left[i - 1])]]

\* mutant: own words are not asked for
closure_verdict_parroted(report, transfer_passed) ==
  /\ transfer_passed
  /\ report.scores.completeness >= MinCompleteness
  /\ \A i \in DOMAIN report.gaps : ~ report.gaps[i].shield
  /\ ~ report.wrong
  /\ report.verdict = "closed"

closure_verdict(report, transfer_passed) ==
  /\ transfer_passed
  /\ report.scores.completeness >= MinCompleteness
  /\ report.scores.own_words >= MinOwnWords
  /\ \A i \in DOMAIN report.gaps : ~ report.gaps[i].shield
  /\ ~ report.wrong
  /\ report.verdict = "closed"

-----------------------------------------------------------------------------
(* The six handlers: OnX(s, e) is the LoopStep of event e in snapshot s *)

AtLoopCapLate(s) == s.loop_index > MaxLoops  \* mutant: one lap too many

AtLoopCap(s) == s.loop_index >= MaxLoops

LapUncounted(s) == [s EXCEPT !.state = "Teach"]  \* mutant: the lap is free

NextLap(s) == [s EXCEPT !.state = "Teach", !.loop_index = s.loop_index + 1]

OnConceptNamed(s, e) ==
  LoopStep([NextLap(s) EXCEPT !.concept_id = e.concept_id,
                              !.open_gaps = << >>,
                              !.probes_used = 0],
           {"ask_explain"}, {})

OnExplanationSubmitted(s, e) ==
  LET talked == [s EXCEPT !.learner_chars = Add(s.learner_chars, e.chars),
                          !.system_chars = Add(s.system_chars, e.system_chars)]
  IN  IF e.chars < MinExplainChars
      THEN LoopStep(talked,
                    {"ask_more_detail"}
                      \cup (IF AtLoopCap(s) THEN {"escalate"} ELSE {}),
                    {})
      ELSE LoopStep([talked EXCEPT !.state = "Detect", !.probes_used = 0],
                    {"probe"},
                    IF TalkRatioLow(talked.learner_chars, talked.system_chars)
                    THEN {"learner_talk_ratio"} ELSE {})

OnGapReported(s, e) ==
  LET heard == [s EXCEPT !.last_scores = e.report.scores,
                         !.system_chars = Add(s.system_chars, e.system_chars)]
  IN  IF e.report.verdict = "closed" \/ e.report.gaps = << >>
      THEN LoopStep([heard EXCEPT !.state = "Simplify",
                                  !.open_gaps = << >>,
                                  !.probes_used = 0],
                    {"request_simplify"}, {})
      ELSE LoopStep([heard EXCEPT !.state = "Return",
                                  !.open_gaps =
                                    ClampSupply(WithinProbeBudget(e.report.gaps)),
                                  !.probes_used = ProbesKept(e.report.gaps)],
                    {"supply_atoms"},
                    IF Len(e.report.gaps) > MaxProbes
                    THEN {"probe_budget"} ELSE {})

OnSupplyCompleted(s, e) ==
  LET base == [s EXCEPT !.system_chars = Add(s.system_chars, e.system_chars),
                        !.open_gaps = << >>,
                        !.probes_used = 0]
  IN  IF AtLoopCap(s)
      THEN LoopStep([base EXCEPT !.loop_capped = TRUE], {"escalate"}, {})
      ELSE LoopStep(NextLap(base), {"ask_explain"}, {})

OnSimplifyJudged(s, e) ==
  LET heard == [s EXCEPT !.last_scores = e.report.scores,
                         !.system_chars = Add(s.system_chars, e.system_chars)]
  IN  IF closure_verdict(e.report, e.transfer_passed)
      THEN LoopStep([heard EXCEPT !.state = "Closed",
                                  !.open_gaps = << >>,
                                  !.probes_used = 0],
                    {"record_mastery", "schedule_review"}, {})
      ELSE IF AtLoopCap(s)
      THEN LoopStep([heard EXCEPT !.loop_capped = TRUE], {"escalate"}, {})
      ELSE LoopStep(NextLap(heard), {"ask_explain"}, {})

\* open_gaps is kept on purpose: where the learner gave up is evidence.
OnEscapeRequested(s, e) ==
  LET heard == [s EXCEPT !.system_chars = Add(s.system_chars, e.system_chars)]
  IN  IF e.confirmed
      THEN LoopStep([heard EXCEPT !.state = "Escaped"], {"no_mastery_credit"}, {})
      ELSE LoopStep(heard, {"confirm_escape"}, {"escape_hatch"})

\* Events of a terminal loop, and events its state does not accept, are
\* answered with the unchanged snapshot.
tick(s, e) ==
  IF s.state \in TERMINAL_STATES \/ ~ Accepts(s.state, e.kind)
  THEN LoopStep(s, {}, {})
  ELSE CASE e.kind = "concept_named"         -> OnConceptNamed(s, e)
         [] e.kind = "explanation_submitted" -> OnExplanationSubmitted(s, e)
         [] e.kind = "gap_reported"          -> OnGapReported(s, e)
         [] e.kind = "supply_completed"      -> OnSupplyCompleted(s, e)
         [] e.kind = "simplify_judged"       -> OnSimplifyJudged(s, e)
         [] e.kind = "escape_requested"      -> OnEscapeRequested(s, e)

=============================================================================
