------------------------- MODULE MCLearningLedger ---------------------------
(***************************************************************************)
(* LearningLedger with two requests at a time: one account and two keys    *)
(* whose atoms may be created, verified, joined, deleted and created again *)
(* while evidence about them is on its way.                                *)
(***************************************************************************)
EXTENDS LearningLedger, TLC

Bind(c, named, replace) == [concept |-> c, atoms |-> named, replace_atoms |-> replace]

Atom(verified, depends_on) == [verified |-> verified, depends_on |-> depends_on]

\* Both atoms with an edge, and without it and the other one verified; one of
\* them with an edge that may lead nowhere; nothing in place of all; one key in
\* another concept.
MCPayloads ==
  LET k == CHOOSE k \in Keys : TRUE
      l == CHOOSE l \in Keys \ {k} : TRUE
      c == CHOOSE c \in Concepts : TRUE
  IN  { Bind(c, k :> Atom(TRUE, {}) @@ l :> Atom(TRUE, {k}), FALSE),
        Bind(c, << >>, TRUE),
        Bind(c, l :> Atom(FALSE, {k}), FALSE),
        Bind(c, k :> Atom(FALSE, {}) @@ l :> Atom(TRUE, {}), FALSE) }
      \cup { Bind(d, k :> Atom(FALSE, {}), FALSE) : d \in Concepts \ {c} }

\* A closed explanation, and an answer that was read.
MCEvidence ==
  { [kind |-> "closed_explanation", atom_keys |-> Keys, depth |-> 1],
    [kind |-> "direct_answer_read", atom_keys |-> Keys, depth |-> 0] }

\* Requests are interchangeable; no property checked here is a liveness property.
MCSymmetry == Permutations(Requests)

=============================================================================
