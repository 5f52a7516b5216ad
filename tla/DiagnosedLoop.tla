---------------------------- MODULE DiagnosedLoop ----------------------------
(***************************************************************************)
(* A Feynman loop whose reports come from the gap detector: in Detect and  *)
(* in Simplify what the learner said is graded and analyzed, and tick()    *)
(* gets the report.  The caller that puts the two together is not in src/  *)
(* yet, /api/chat takes its reports from the model's message: it is        *)
(* modelled from the loop of docs/pedagogy-core.md that both are made for. *)
(***************************************************************************)
EXTENDS FeynmanLoop, GapDetector

CONSTANTS
  Sayings,     \* what a learner may say: terms and connective
  Statements,  \* what the grader may list, statement or not
  Grades       \* what the grader may hand in

ASSUME GradeAssumption ==
  /\ \A item \in Statements : Usable(item) =>
       item.id \in Nat \cup {None} /\ item.text \in ClaimText /\ item.atom_ref \in Refs
  /\ Grades \subseteq [ items : Seq(Statements), jargon_terms : Seq(Terms), analogy : BOOLEAN,
                        counterexample : BOOLEAN, own_words : 0..FullScore ]

VARIABLES
  heard,     \* the saying, its grade and whether its analogy is flagged
  detection  \* what analyze made of it, or None

diagnosedVars == <<vars, heard, detection>>

DiagnosedInit == Init /\ heard = None /\ detection = None

Name ==
  /\ state.state = "Pick"
  /\ ConceptNamed
  /\ UNCHANGED <<heard, detection>>

Explain ==
  /\ state.state = "Teach"
  /\ ExplanationSubmitted
  /\ heard' = None /\ detection' = None

\* The grader answers.  What it answers may be no grade: then analyze raises,
\* nothing has happened and it is asked again.
Analyze(said, grade, flagged) ==
  /\ state.state \in {"Detect", "Simplify"}
  /\ detection = None
  /\ heard' = [said |-> said, grade |-> grade, flagged |-> flagged]
  /\ detection' = analyze(grade, said, flagged, state.state)
  /\ UNCHANGED vars

\* In Detect the gaps are reported.
Report(n) ==
  /\ state.state = "Detect"
  /\ detection # None
  /\ Tick([kind |-> "gap_reported", report |-> KernelReport(detection), system_chars |-> n])
  /\ heard' = None /\ detection' = None

\* In Simplify the kernel judges; a loop that may not go back says it again.
Judge(transfer_passed, n) ==
  /\ state.state = "Simplify"
  /\ detection # None
  /\ Tick([kind |-> "simplify_judged", report |-> KernelReport(detection),
           transfer_passed |-> transfer_passed, system_chars |-> n])
  /\ IF state'.state = "Closed" THEN UNCHANGED <<heard, detection>>
     ELSE heard' = None /\ detection' = None

Supply ==
  /\ state.state = "Return"
  /\ SupplyCompleted
  /\ UNCHANGED <<heard, detection>>

DiagnosedNext ==
  \/ Name \/ Explain \/ Supply
  \/ \E n \in SystemSizes : Report(n)
  \/ \E transfer_passed \in BOOLEAN, n \in SystemSizes : Judge(transfer_passed, n)
  \/ \E said \in Sayings, grade \in Grades, flagged \in BOOLEAN : Analyze(said, grade, flagged)

DiagnosedSpec == DiagnosedInit /\ [][DiagnosedNext]_diagnosedVars

\* All the detector may report of what it hears.
DetectorReports ==
  { KernelReport(analyze(grade, said, flagged, st)) :
      grade \in Grades, said \in Sayings, flagged \in BOOLEAN, st \in {"Detect", "Simplify"} }

-----------------------------------------------------------------------------
(* Properties *)

\* Where a report says "closed" the kernel refuses for one reason alone, were
\* the transfer passed: a score under its threshold, which the verdict of gaps.py
\* does not look at.  An open gap and a wrong claim both see.
VerdictsPartOnScores ==
  detection # None /\ detection.verdict = "closed" =>
    ( closure_verdict(KernelReport(detection), TRUE) <=>
        /\ detection.scores.completeness >= MinCompleteness
        /\ detection.scores.own_words >= MinOwnWords )

\* What the grader said of a statement with a text.
Heard(status) ==
  { i \in DOMAIN heard.grade.items :
      Usable(heard.grade.items[i]) /\ heard.grade.items[i].status = status }

\* A concept is closed only on an explanation with a counterexample, in which
\* the grader found nothing wrong and no shield, and which explains as many of
\* the verified atoms as the threshold asks.
ClosedWasExplained ==
  state.state = "Closed" =>
    /\ heard.grade.counterexample
    /\ Heard("wrong") = {} /\ Heard("jargon_shield") = {}
    /\ LET explained == { heard.grade.items[i].atom_ref : i \in Heard("supported") } IN
         Verified # {} =>
           FullScore * Cardinality(Verified \cap explained)
             >= MinCompleteness * Cardinality(Verified)

\* What a gap supplies leads to what the learner said: the atom of a claim with
\* its id, after at most one prerequisite that nothing said has explained; a
\* missing edge is the one that is supplied, or its one atom if it depends on
\* itself.
SupplyLeadsOn ==
  detection # None =>
    \A k \in DOMAIN detection.gaps :
      LET gap == detection.gaps[k] IN
      /\ gap.supply # None =>
           /\ \E i \in DOMAIN detection.claims :
                detection.claims[i].id = gap.claim_id
                  /\ detection.claims[i].atom_ref = Last(gap.supply)
           /\ Len(gap.supply) = 2 =>
                /\ gap.supply[1] \in ToSet(DependsOn[gap.supply[2]])
                /\ \A i \in Heard("supported") :
                     heard.grade.items[i].atom_ref # gap.supply[1]
      /\ gap.missing_edge # None =>
           gap.supply = IF gap.missing_edge.from = gap.missing_edge.to
                        THEN <<gap.missing_edge.to>>
                        ELSE <<gap.missing_edge.from, gap.missing_edge.to>>

=============================================================================
