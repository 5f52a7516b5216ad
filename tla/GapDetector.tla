----------------------------- MODULE GapDetector -----------------------------
(***************************************************************************)
(* The gap detector (pedagogy/gaps.py) as constant-level operators: what   *)
(* the grader hands in becomes claims, and rules, not the grader, find the *)
(* gaps in them and give the verdict.                                      *)
(*                                                                         *)
(* Abstractions.  A text is the terms it uses, whether it has a connective *)
(* that skips a reason, and whether it is long enough to explain the terms *)
(* in it.  Ids of claims are the numbers n of "cn", which sort as strings  *)
(* do below ten.  Scores are on the kernel's scale.  Probes, notes and     *)
(* reasons are left out: each has a default, and nothing branches on them. *)
(***************************************************************************)
EXTENDS FeynmanKernel, SequencesExt

CONSTANTS
  Terms,          \* technical terms
  AtomIds,        \* atoms the detector is given for the concept, in order
  DependsOn,      \* atom -> its prerequisites, in order; some may not be given
  States,         \* atom -> the terms its statement is about
  Verified,       \* atoms that are verified
  Refs,           \* what a claim may refer to: atoms, given or not, or None
  BundleMaxChars  \* AtomBundle.max_chars

ASSUME AtomAssumption ==
  /\ AtomIds \in Seq(ToSet(AtomIds)) /\ IsInjective(AtomIds) /\ None \notin ToSet(AtomIds)
  /\ DOMAIN DependsOn = ToSet(AtomIds) /\ DOMAIN States = ToSet(AtomIds)
  /\ \A atom \in ToSet(AtomIds) : DependsOn[atom] \in Seq(ToSet(DependsOn[atom]))
  /\ Verified \subseteq ToSet(AtomIds)
  /\ BundleMaxChars \in Nat \ {0}

ClaimStatus == {"supported", "unsupported", "wrong", "jargon_shield", "vague"}
GapType == {"jargon_shield", "causal_gap", "broken_analogy", "no_boundary"}

ClaimText == [terms : SUBSET Terms, connective : BOOLEAN, long : BOOLEAN]

Claim == [ id : Nat, text : ClaimText, atom_ref : Refs, status : ClaimStatus,
           gap_type : GapType \cup {None} ]

ASSUME ClaimAssumption == None \notin Claim

atom_index == ToSet(AtomIds)

\* Numbers in ascending order.
Ascending(S) ==
  CHOOSE s \in [1..Cardinality(S) -> S] :
    Range(s) = S /\ \A j, k \in DOMAIN s : j < k => s[j] < s[k]

\* What a sequence holds at the indices I, in its order.
Only(s, I) == LET at == Ascending(I) IN [k \in DOMAIN at |-> s[at[k]]]

-----------------------------------------------------------------------------
(* Claims *)

\* What is no object, or has no text, is dropped.
Usable(item) == item # None /\ item.text # None

Status(item) == IF item.status \in ClaimStatus THEN item.status ELSE "vague"

\* What is kept is numbered in its order, unless the grader has numbered it.
to_claims(items) ==
  LET kept == Only(items, { i \in DOMAIN items : Usable(items[i]) }) IN
  [ i \in DOMAIN kept |->
      [ id       |-> IF kept[i].id = None THEN i ELSE kept[i].id,
        text     |-> kept[i].text,
        atom_ref |-> kept[i].atom_ref,
        status   |-> Status(kept[i]),
        gap_type |-> IF kept[i].gap_type \in GapType /\ Status(kept[i]) # "supported"
                     THEN kept[i].gap_type ELSE None ] ]

Supported(claims) == { i \in DOMAIN claims : claims[i].status = "supported" }
Covered(claims) == { claims[i].atom_ref : i \in Supported(claims) } \ {None}

\* The share of the verified atoms that is covered, or of the claims that are
\* supported, if no atom is verified.
completeness_of(claims) ==
  CASE Verified # {} ->
         (FullScore * Cardinality(Verified \cap Covered(claims))) \div Cardinality(Verified)
    [] Verified = {} /\ claims = << >> -> 0
    [] OTHER -> (FullScore * Cardinality(Supported(claims))) \div Len(claims)

-----------------------------------------------------------------------------
(* What a gap points at *)

\* Prerequisites of an atom that are known, in their order.
Known(atom) ==
  Only(DependsOn[atom], { i \in DOMAIN DependsOn[atom] : DependsOn[atom][i] \in atom_index })

\* mutant: what was explained is missing all the same
UncoveredOrNot(atom, covered) == Known(atom)

Uncovered(atom, covered) ==
  Only(Known(atom), { i \in DOMAIN Known(atom) : Known(atom)[i] \notin covered })

missing_edge(claim, covered) ==
  IF claim.atom_ref \notin atom_index \/ Uncovered(claim.atom_ref, covered) = << >>
  THEN None
  ELSE [from |-> Head(Uncovered(claim.atom_ref, covered)), to |-> claim.atom_ref]

\* The first uncovered prerequisite, then the atom itself, each once.
supply_for(claim, covered) ==
  IF claim = None THEN None
  ELSE IF claim.atom_ref \notin atom_index THEN None
  ELSE LET atom == claim.atom_ref
           edge == missing_edge(claim, covered)
       IN  IF edge = None \/ edge = [from |-> atom, to |-> atom]
           THEN <<atom>> ELSE <<edge.from, atom>>

\* A term is expanded by a claim that explains it or refers to an atom about it.
term_expanded(term, claims) ==
  \E i \in Supported(claims) :
    \/ term \in claims[i].text.terms /\ claims[i].text.long
    \/ claims[i].atom_ref \in atom_index /\ term \in States[claims[i].atom_ref]

first_claim_mentioning(claims, term) ==
  LET i == SelectInSeq(claims, LAMBDA c : term \in c.text.terms)
  IN  IF i = 0 THEN None ELSE claims[i].id

\* Of claims with one id the last one counts.
ClaimById(claims, id) ==
  LET i == SelectLastInSeq(claims, LAMBDA c : c.id = id)
  IN  IF i = 0 THEN None ELSE claims[i]

Gap(type, id, severity, edge, supply) ==
  [type |-> type, claim_id |-> id, severity |-> severity, missing_edge |-> edge, supply |-> supply]

-----------------------------------------------------------------------------
(* derive_gaps *)

\* Terms the grader names, each once, that are in what was said and nowhere
\* expanded.
ShieldTerms(grade, said, claims) ==
  LET terms == grade.jargon_terms IN
  Only(terms, { k \in DOMAIN terms :
                  /\ \A j \in 1..(k - 1) : terms[j] # terms[k]
                  /\ terms[k] \in said.terms /\ ~ term_expanded(terms[k], claims) })

\* mutant: only the terms count
PendingByTerm(terms, claims) == {}

\* Claims the grader calls a shield that no such term stands for.
PendingShields(terms, claims) ==
  { claims[i].id : i \in { j \in DOMAIN claims : claims[j].status = "jargon_shield" } }
    \ { first_claim_mentioning(claims, terms[k]) : k \in DOMAIN terms }

ShieldGaps(grade, said, claims) ==
  LET terms == ShieldTerms(grade, said, claims)
      ids   == [k \in DOMAIN terms |-> first_claim_mentioning(claims, terms[k])]
                 \o Ascending(PendingShields(terms, claims))
  IN  [k \in DOMAIN ids |->
        Gap("jargon_shield", ids[k], 3, None,
            supply_for(ClaimById(claims, ids[k]), Covered(claims)))]

\* A step without its reason: unsupported, or recited while a prerequisite of
\* its atom was never explained; both behind a connective.
IsCausal(claim, said, covered) ==
  /\ claim.gap_type \in {None, "causal_gap"}
  /\ claim.text.connective \/ said.connective
  /\ \/ claim.status = "unsupported"
     \/ claim.status = "supported" /\ missing_edge(claim, covered) # None

CausalGaps(said, claims) ==
  LET covered == Covered(claims)
      causal  == Only(claims, { i \in DOMAIN claims : IsCausal(claims[i], said, covered) })
  IN  [k \in DOMAIN causal |->
        Gap("causal_gap", causal[k].id, IF causal[k].status = "unsupported" THEN 2 ELSE 1,
            missing_edge(causal[k], covered), supply_for(causal[k], covered))]

OfType(claims, type) == Only(claims, { i \in DOMAIN claims : claims[i].gap_type = type })

AnalogyGaps(grade, flagged, claims) ==
  LET broken == OfType(claims, "broken_analogy")
      anchor == IF broken = << >> THEN None ELSE Head(broken)
  IN  IF grade.analogy /\ (flagged \/ broken # << >>)
      THEN << Gap("broken_analogy", IF anchor = None THEN None ELSE anchor.id, 2, None,
                  supply_for(anchor, Covered(claims))) >>
      ELSE << >>

\* Without a counterexample there is one gap, with one a gap per claim.
BoundaryGaps(grade, claims) ==
  LET open == OfType(claims, "no_boundary")
      at   == IF ~ grade.counterexample
              THEN <<IF open = << >> THEN None ELSE Head(open).id>>
              ELSE [k \in DOMAIN open |-> open[k].id]
  IN  [k \in DOMAIN at |-> Gap("no_boundary", at[k], 2, None, None)]

BoundaryAsked(st) == st = "Simplify"

derive_gaps(grade, said, flagged, claims, st) ==
  ShieldGaps(grade, said, claims) \o CausalGaps(said, claims)
    \o AnalogyGaps(grade, flagged, claims)
    \o (IF BoundaryAsked(st) THEN BoundaryGaps(grade, claims) ELSE << >>)

-----------------------------------------------------------------------------
(* GapDetector.analyze *)

\* mutant: wrong claims are left to the list
VerdictOfGaps(gaps, wrong) == IF gaps = << >> THEN "closed" ELSE "not_closed"

VerdictOf(gaps, wrong) == IF gaps = << >> /\ wrong = {} THEN "closed" ELSE "not_closed"

analyze(grade, said, flagged, st) ==
  LET claims == to_claims(grade.items)
      gaps   == derive_gaps(grade, said, flagged, claims, st)
      wrong  == { claims[i].id : i \in { j \in DOMAIN claims : claims[j].status = "wrong" } }
  IN  [ claims  |-> claims,
        gaps    |-> gaps,
        wrong   |-> wrong,
        scores  |-> [completeness |-> completeness_of(claims), own_words |-> grade.own_words],
        verdict |-> VerdictOf(gaps, wrong) ]

\* The report as the kernel reads it.
KernelReport(detection) ==
  LET chars == IF BundleMaxChars < ReturnMaxChars THEN BundleMaxChars ELSE ReturnMaxChars
  IN  [ gaps    |-> [ k \in DOMAIN detection.gaps |->
                        [ shield   |-> detection.gaps[k].type = "jargon_shield",
                          severity |-> detection.gaps[k].severity,
                          supply   |-> IF detection.gaps[k].supply = None THEN None ELSE chars ] ],
        scores  |-> detection.scores,
        verdict |-> detection.verdict,
        wrong   |-> detection.wrong # {} ]

=============================================================================
