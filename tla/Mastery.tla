------------------------------ MODULE Mastery -------------------------------
(***************************************************************************)
(* The arithmetic of pedagogy/mastery.py: evidence weights, forgetting,    *)
(* the update of an account and the schedule of its review.  Mastery is a  *)
(* number in 0..Scale, a weight one in 0..Unit, time is in days.  The      *)
(* exponential exp(-days / tau) is a division by Fade per day, which       *)
(* composes over days as the exponential does.  The review ladder stays on *)
(* its first rung: nothing in the program calls mastery.review.            *)
(***************************************************************************)
EXTENDS Integers, FiniteSetsExt

CONSTANTS
  Alpha, Unit,    \* mastery_alpha is Alpha / Unit
  Scale,          \* mastery 1.0
  Fade,           \* what a day divides mastery by
  WhyDepth,       \* why_chain_max_depth
  None

ASSUME MasteryAssumption ==
  /\ Unit \in Nat \ {0} /\ Alpha \in 0..Unit
  /\ Scale \in Nat \ {0} /\ Fade \in Nat \ {0} /\ WhyDepth \in Nat \ {0}
  /\ None \notin Int

EvidenceKind ==
  {"closed_explanation", "transfer_correct", "probe_answered",
   "direct_answer_read", "escaped"}

EVIDENCE_WEIGHTS(kind) ==
  CASE kind = "closed_explanation" -> Unit
    [] kind = "transfer_correct"   -> (4 * Unit) \div 5
    [] kind = "probe_answered"     -> (2 * Unit) \div 5
    [] OTHER                       -> 0

\* From seven tenths at depth 0 up to one at the deepest.
depth_factor(depth) ==
  (7 * Unit + (3 * Unit * Min({depth, WhyDepth})) \div WhyDepth) \div 10

evidence_weight(kind, depth) ==
  (EVIDENCE_WEIGHTS(kind) * depth_factor(depth)) \div Unit

\* Days since the account was last written; a clock that was set back counts
\* as no time at all, and so does an account without evidence.
elapsed_days_since(since, now) ==
  IF since = None THEN 0 ELSE Max({now - since, 0})

decay(mastery, days) ==
  LET faded[d \in 0..days] == IF d = 0 THEN mastery ELSE faded[d - 1] \div Fade
  IN  faded[days]

\* mutant: the gain does not shrink as mastery grows
update_mastery_linear(mastery, weight) ==
  mastery + (Alpha * weight * Scale) \div (Unit * Unit)

\* m + alpha * w * (1 - m)
update_mastery(mastery, weight) ==
  mastery + (Alpha * weight * (Scale - mastery)) \div (Unit * Unit)

new_entry == [mastery |-> 0, evidence_count |-> 0, updated_at |-> None]

\* One piece of evidence that counts: decay to the day, then add.
record(entry, weight, now) ==
  [ mastery        |-> update_mastery(
                         decay(entry.mastery,
                               elapsed_days_since(entry.updated_at, now)),
                         weight),
    evidence_count |-> entry.evidence_count + 1,
    updated_at     |-> now ]

\* REVIEW_LADDER_DAYS, on its first rung
interval_days == 1

scheduled_review(entry) == entry.updated_at + interval_days

\* The weighted mean over the atoms of a concept, 0 when it has none.
concept_mastery(mastery, weight) ==
  LET S     == DOMAIN weight
      total == MapThenSumSet(LAMBDA i : weight[i], S)
  IN  IF total = 0 THEN 0
      ELSE MapThenSumSet(LAMBDA i : mastery[i] * weight[i], S) \div total

=============================================================================
