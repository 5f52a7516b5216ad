--------------------------- MODULE MCPedagogyChat ---------------------------
(***************************************************************************)
(* PedagogyChat on two small instances: two requests that overlap, with    *)
(* one lap and the few texts and messages that tell their loops apart; and *)
(* one request, with two laps, two probes and one text or message for each *)
(* thing the code tells apart.                                             *)
(***************************************************************************)
EXTENDS PedagogyChat, TLC

Said(chars) ==
  [ empty |-> FALSE, deny |-> FALSE, confirm |-> FALSE, escape |-> FALSE,
    concept |-> None, chars |-> chars ]

MCUtterances ==
  { [Said(0) EXCEPT !.empty = TRUE],
    Said(1),                              \* small talk, a short explanation
    Said(2),                              \* an explanation
    [Said(2) EXCEPT !.confirm = TRUE],    \* one that holds a "yes"
    [Said(1) EXCEPT !.confirm = TRUE],
    [Said(1) EXCEPT !.deny = TRUE],
    [Said(1) EXCEPT !.escape = TRUE],
    [Said(1) EXCEPT !.escape = TRUE, !.deny = TRUE] }  \* "stop asking"
  \cup { [Said(2) EXCEPT !.concept = c] : c \in Concepts }
  \cup { [Said(1) EXCEPT !.concept = c, !.escape = TRUE] : c \in Concepts }

Gap(severity, supply) ==
  [shield |-> FALSE, severity |-> severity, supply |-> supply]

Report(gaps, score, verdict) ==
  [ gaps |-> gaps, verdict |-> verdict, wrong |-> FALSE,
    scores |-> [completeness |-> score, own_words |-> score] ]

Diagnosis(gaps) == [kind |-> "gap_reported", system_chars |-> 1,
                    report |-> Report(gaps, 0, "not_closed")]

Judgement(score, verdict) ==
  [kind |-> "simplify_judged", transfer_passed |-> TRUE, system_chars |-> 1,
   report |-> Report(<< >>, score, verdict)]

Supplied == [kind |-> "supply_completed", system_chars |-> 1]

\* Each list of events the model may report is said in a few words, as a worked
\* solution, and on the way to a tool.
MCEvents ==
  { << >>,
    <<Diagnosis(<< >>)>>,
    <<Diagnosis(<<Gap(1, 1)>>)>>,
    <<Diagnosis(<<Gap(1, 2), Gap(3, 2)>>)>>,
    <<Supplied>>,
    <<Diagnosis(<<Gap(2, 1)>>), Supplied>>,
    <<Judgement(0, "not_closed")>>,
    <<Judgement(1, "closed")>>,
    <<Judgement(1, "closed"), Judgement(1, "closed")>>,
    <<Escape(TRUE)>> }

Answer(events, tools, chars, solution) ==
  [ events |-> events, tools |-> tools, chars |-> chars, preface |-> 0,
    solution |-> solution ]

MCMessages ==
  UNION { { Answer(events, TRUE, 0, FALSE), Answer(events, FALSE, 1, FALSE),
            Answer(events, FALSE, 3, TRUE) } : events \in MCEvents }

\* What two requests open together need: a text that names the concept, explains
\* it or answers yes, one that asks to escape, and messages that call a tool, find
\* no gap, find one and supply it, close the loop twice over and report an escape.
\* None of them is long: the talk counts of two loops would multiply the states.
PairUtterances ==
  { [Said(2) EXCEPT !.concept = c, !.confirm = TRUE] : c \in Concepts }
  \cup { [Said(1) EXCEPT !.escape = TRUE] }

PairMessages ==
  { Answer(<< >>, TRUE, 0, FALSE),
    Answer(<<Diagnosis(<< >>)>>, FALSE, 0, FALSE),
    Answer(<<Diagnosis(<<Gap(2, 1)>>), Supplied>>, FALSE, 0, FALSE),
    Answer(<<Judgement(1, "closed"), Judgement(1, "closed")>>, FALSE, 0, FALSE),
    Answer(<<Escape(TRUE)>>, FALSE, 0, FALSE) }

\* The slots are alike.
PairSymmetry == Permutations(Requests)

=============================================================================
