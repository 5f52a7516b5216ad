--------------------------- MODULE MCFeynmanLoop ---------------------------
(***************************************************************************)
(* FeynmanLoop on a small instance: three laps, two probes, a supply       *)
(* budget of four, up to three gaps in a report.                           *)
(***************************************************************************)
EXTENDS FeynmanLoop

Gap(shield, severity, supply) ==
  [shield |-> shield, severity |-> severity, supply |-> supply]

\* Gaps that differ in severity and in what they ask of the supply budget:
\* nothing, half of it, all of it.
MCGaps == { Gap(FALSE, 1, None), Gap(FALSE, 1, 2), Gap(FALSE, 3, 4), Gap(TRUE, 3, 2) }

Report(gaps, completeness, own_words, verdict, wrong) ==
  [ gaps |-> gaps, verdict |-> verdict, wrong |-> wrong,
    scores |-> [completeness |-> completeness, own_words |-> own_words] ]

\* Diagnoses, and judgements at and just under each threshold.
MCReports ==
  { Report(gaps, 1, 1, "not_closed", FALSE) :
      gaps \in UNION { [1..n -> MCGaps] : n \in 0..3 } }
  \cup
  { Report(gaps, completeness, own_words, verdict, wrong) :
      gaps \in { << >>, <<Gap(TRUE, 2, None)>>, <<Gap(FALSE, 1, 2)>> },
      completeness \in {MinCompleteness - 1, MinCompleteness},
      own_words \in {MinOwnWords - 1, MinOwnWords},
      verdict \in Verdict, wrong \in BOOLEAN }

MCExplainSizes == {MinExplainChars - 1, MinExplainChars}
MCSystemSizes  == {0, 1}

=============================================================================
