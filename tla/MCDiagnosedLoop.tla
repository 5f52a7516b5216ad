--------------------------- MODULE MCDiagnosedLoop ---------------------------
(***************************************************************************)
(* DiagnosedLoop over three atoms: x, then y that needs x and one that is  *)
(* not given, then z that is not verified and needs both.  Up to two       *)
(* statements, numbered by the grader or not.                              *)
(***************************************************************************)
EXTENDS DiagnosedLoop

MCAtomIds == <<"x", "y", "z">>
MCDependsOn == [x |-> << >>, y |-> <<"ghost", "x", "y">>, z |-> <<"x", "y">>]
MCStates == [x |-> {}, y |-> {"term"}, z |-> {}]
MCVerified == {"x", "y"}
MCRefs == {"x", "y", "z", None}

Text(terms, connective, long) == [terms |-> terms, connective |-> connective, long |-> long]
Plain == Text({}, FALSE, FALSE)

Item(id, text, atom_ref, status, gap_type) ==
  [id |-> id, text |-> text, atom_ref |-> atom_ref, status |-> status, gap_type |-> gap_type]

\* Steps with and without their prerequisite, terms explained and hidden behind,
\* statements two ids of which may meet, and what is no statement.
MCItems ==
  { Item(None, Plain, "x", "supported", None),
    Item(None, Text({}, TRUE, FALSE), "y", "supported", None),
    Item(None, Text({"term"}, FALSE, TRUE), "z", "supported", None),
    Item(None, Text({}, TRUE, FALSE), "y", "unsupported", None),
    Item(None, Text({"term"}, FALSE, FALSE), "z", "jargon_shield", None),
    Item(2, Plain, "y", "jargon_shield", "no_boundary"),
    Item(2, Plain, None, "vague", "no_boundary"),
    Item(None, Plain, "y", "unsupported", "broken_analogy"),
    Item(None, Plain, "y", "wrong", None),
    Item(None, Plain, "x", "odd", None),
    Item(None, None, "x", "wrong", None),
    None }

Grade(items, jargon_terms, analogy, counterexample, own_words) ==
  [ items |-> items, jargon_terms |-> jargon_terms, analogy |-> analogy,
    counterexample |-> counterexample, own_words |-> own_words ]

\* An analogy without terms, and a low score for up to one statement: neither
\* meets the others in the code.
MCGrades ==
  LET upTo(n) == UNION { [1..k -> MCItems] : k \in 0..n } IN
  { Grade(items, jargon, FALSE, counterexample, MinOwnWords) :
      items \in upTo(2), jargon \in {<< >>, <<"term", "term">>}, counterexample \in BOOLEAN }
  \cup { Grade(items, << >>, TRUE, counterexample, MinOwnWords) :
           items \in upTo(2), counterexample \in BOOLEAN }
  \cup { Grade(items, << >>, FALSE, TRUE, MinOwnWords - 1) : items \in upTo(1) }

MCSayings == { [terms |-> {"term"}, connective |-> FALSE], [terms |-> {}, connective |-> TRUE] }

=============================================================================
