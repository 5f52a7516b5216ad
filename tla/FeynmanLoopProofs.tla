------------------------- MODULE FeynmanLoopProofs -------------------------
(***************************************************************************)
(* The invariants of FeynmanLoop and its refinement of FeynmanPromise, for *)
(* every threshold, every report and every order of events; and those of   *)
(* DiagnosedLoop, whose reports are the gap detector's, with its           *)
(* refinement of FeynmanLoop, for all atoms, statements and grades.        *)
(***************************************************************************)
EXTENDS DiagnosedLoop, FeynmanKernelProofs

\* The inductive invariant: the snapshot is legal and the ledger agrees with it.
IInv ==
  /\ LegalSnapshot(state)
  /\ credits = IF state.state = "Closed" THEN 1 ELSE 0

\* The six actions call tick() with an event and follow its LoopStep.
LEMMA NextTicks ==
  ASSUME Next
  PROVE  \E e \in LoopEvent : Tick(e)
<1>1. CASE ConceptNamed
  BY <1>1 DEF ConceptNamed, LoopEvent
<1>2. CASE ExplanationSubmitted
  BY <1>2, InputAssumption DEF InputAssumption, ExplanationSubmitted, LoopEvent
<1>3. CASE GapReported
  BY <1>3, InputAssumption DEF InputAssumption, GapReported, LoopEvent
<1>4. CASE SupplyCompleted
  BY <1>4, InputAssumption DEF InputAssumption, SupplyCompleted, LoopEvent
<1>5. CASE SimplifyJudged
  BY <1>5, InputAssumption DEF InputAssumption, SimplifyJudged, LoopEvent
<1>6. CASE EscapeRequested
  BY <1>6, InputAssumption DEF InputAssumption, EscapeRequested, LoopEvent
<1> QED
  BY <1>1, <1>2, <1>3, <1>4, <1>5, <1>6 DEF Next

\* One call of tick() keeps the snapshot legal and the ledger in step with it.
LEMMA TickKeepsIInv ==
  ASSUME IInv, NEW e \in LoopEvent, Tick(e)
  PROVE  IInv'
<1>1. LegalSnapshot(state') /\ Moves(state, tick(state, e))
  BY TickIsLegal DEF IInv, Tick
<1>2. credits' = IF state'.state = "Closed" THEN 1 ELSE 0
  <2>1. state' = tick(state, e).state
    BY DEF Tick
  <2>2. CASE "record_mastery" \in tick(state, e).actions
    BY <1>1, <2>1, <2>2 DEF Moves, Tick, IInv
  <2>3. CASE "record_mastery" \notin tick(state, e).actions
    BY <1>1, <2>1, <2>3 DEF Moves, Tick, IInv, ACTIVE_STATES
  <2> QED
    BY <2>2, <2>3
<1> QED
  BY <1>1, <1>2 DEF IInv

\* Along every behaviour the snapshot is legal and the ledger agrees with it.
THEOREM Inductive == Spec => []IInv
<1>1. Init => IInv
  BY NewIsLegal DEF Init, IInv, NewSnapshot
<1>2. IInv /\ [Next]_vars => IInv'
  <2>1. ASSUME IInv, Next PROVE IInv'
    BY <2>1, NextTicks, TickKeepsIInv
  <2>2. ASSUME IInv, UNCHANGED vars PROVE IInv'
    BY <2>2 DEF IInv, vars
  <2> QED
    BY <2>1, <2>2
<1> QED
  BY <1>1, <1>2, PTL DEF Spec

-----------------------------------------------------------------------------
(* What the runs check on a small instance *)

\* Every field keeps its type, through every handler.
THEOREM TypeCorrect == Spec => []TypeOK
<1>1. IInv => TypeOK
  BY DEF IInv, LegalSnapshot, TypeOK
<1> QED
  BY <1>1, Inductive, PTL

\* A loop has at most MaxLoops laps and a capped loop never teaches again.
THEOREM LoopsInBudget == Spec => []LoopBudget
<1>1. IInv => LoopBudget
  BY DEF IInv, LegalSnapshot, LoopBudget
<1> QED
  BY <1>1, Inductive, PTL

\* Gaps are open only while supplied or where the learner gave up, one per
\* probe used, at most MaxProbes.
THEOREM GapsBookkept == Spec => []GapBookkeeping
<1>1. IInv => GapBookkeeping
  BY DEF IInv, LegalSnapshot, GapBookkeeping
<1> QED
  BY <1>1, Inductive, PTL

\* What Return supplies never exceeds return_max_chars in total, and the gaps it
\* keeps are the most severe ones in order.
THEOREM SuppliesAlwaysInBudget == Spec => []SupplyWithinBudget
<1>1. Init => SupplyWithinBudget
  BY NothingSupplied DEF Init, SupplyWithinBudget, NewSnapshot
<1>2. IInv /\ SupplyWithinBudget /\ [Next]_vars => SupplyWithinBudget'
  <2>1. ASSUME IInv, SupplyWithinBudget, Next PROVE SupplyWithinBudget'
    <3>1. PICK e \in LoopEvent : Tick(e)
      BY <2>1, NextTicks
    <3>2. SuppliesInBudget(tick(state, e).state.open_gaps)
      BY <2>1, TickKeepsSupplies DEF IInv, SupplyWithinBudget
    <3> QED
      BY <3>1, <3>2 DEF Tick, SupplyWithinBudget
  <2>2. ASSUME SupplyWithinBudget, UNCHANGED vars PROVE SupplyWithinBudget'
    BY <2>2 DEF vars, SupplyWithinBudget
  <2> QED
    BY <2>1, <2>2
<1> QED
  BY <1>1, <1>2, Inductive, PTL DEF Spec

\* Mastery is credited once, for a loop closed on evidence, and never after an
\* escape.
THEOREM ClosureIsEvidenced == Spec => []ClosedOnEvidence
<1>1. IInv => ClosedOnEvidence
  BY DEF IInv, LegalSnapshot, ClosedOnEvidence, GapsAccounted, ConceptKnown
<1> QED
  BY <1>1, Inductive, PTL

\* The loop implements what the pedagogy document promises of it.
THEOREM Refines == Spec => KeepsPromise
<1>1. Init => Promise!Init
  BY DEF Init, Promise!Init, NewSnapshot
<1>2. IInv /\ [Next]_vars => [Promise!Next]_Promise!vars
  <2>1. ASSUME IInv, Next PROVE [Promise!Next]_Promise!vars
    <3>1. PICK e \in LoopEvent : Tick(e)
      BY <2>1, NextTicks
    <3>2. Moves(state, tick(state, e))
      BY <2>1, TickIsLegal DEF IInv
    <3>3. /\ state' = tick(state, e).state
          /\ credits' = IF "record_mastery" \in tick(state, e).actions
                        THEN credits + 1 ELSE credits
      BY <3>1 DEF Tick
    <3> QED
      BY <3>2, <3>3
      DEF Moves, ACTIVE_STATES, Promise!Next, Promise!vars, Promise!StartLap,
          Promise!Explain, Promise!Diagnose, Promise!Close, Promise!Escape
  <2>2. ASSUME UNCHANGED vars PROVE [Promise!Next]_Promise!vars
    BY <2>2 DEF vars, Promise!vars
  <2> QED
    BY <2>1, <2>2
<1> QED
  BY <1>1, <1>2, Inductive, PTL DEF Spec, KeepsPromise, Promise!Spec

-----------------------------------------------------------------------------
(* Sequences of what stands at some indices *)

\* A set of numbers that is not empty has a least one.
LEMMA LeastOf ==
  ASSUME NEW S \in SUBSET Nat, S # {}
  PROVE  \E m \in S : \A n \in S : m <= n
<1> DEFINE P == { n \in Nat : n \notin S /\ \A k \in 0..n : k \notin S }
<1>1. SUFFICES ASSUME ~ \E m \in S : \A n \in S : m <= n
               PROVE  FALSE
  OBVIOUS
<1>2. 0 \in P
  BY <1>1
<1>3. ASSUME NEW n \in Nat, n \in P PROVE n + 1 \in P
  <2>1. \A k \in 0..n : k \notin S
    BY <1>3
  <2>2. n + 1 \notin S
    <3>1. SUFFICES ASSUME n + 1 \in S PROVE FALSE
      OBVIOUS
    <3>2. \A k \in S : n + 1 <= k
      BY <2>1
    <3> QED
      BY <1>1, <3>1, <3>2
  <2> QED
    BY <2>1, <2>2
<1>4. Nat \subseteq P
  <2> HIDE DEF P
  <2> QED
    BY <1>2, <1>3, NatSetInduction
<1> QED
  BY <1>4

\* A set of numbers up to n that is not empty has a greatest one.
LEMMA GreatestOf ==
  ASSUME NEW n \in Nat, NEW S \in SUBSET (1..n), S # {}
  PROVE  \E m \in S : \A k \in S : m >= k
<1> DEFINE T == { i \in Nat : n - i \in S }
<1>1. T \in SUBSET Nat /\ T # {}
  <2>1. PICK k \in S : TRUE
    OBVIOUS
  <2>2. n - k \in Nat /\ n - (n - k) = k
    OBVIOUS
  <2>3. n - k \in T
    BY <2>1, <2>2
  <2> QED
    BY <2>3
<1>2. PICK i \in T : \A j \in T : i <= j
  <2> HIDE DEF T
  <2> QED
    BY <1>1, LeastOf
<1>3. ASSUME NEW k \in S PROVE n - i >= k
  <2>1. n - k \in Nat /\ n - (n - k) = k
    OBVIOUS
  <2>2. n - k \in T
    BY <2>1
  <2> QED
    BY <1>2, <2>1, <2>2
<1> QED
  BY <1>2, <1>3

\* s holds the members of S in ascending order.
InOrder(s, S) ==
  /\ s \in [1..Cardinality(S) -> S]
  /\ Range(s) = S
  /\ \A j, k \in DOMAIN s : j < k => s[j] < s[k]

LEMMA OrderExists ==
  ASSUME NEW S \in SUBSET Nat, IsFiniteSet(S)
  PROVE  \E s : InOrder(s, S)
<1> DEFINE P == { n \in Nat : \A T \in SUBSET Nat :
                    IsFiniteSet(T) /\ Cardinality(T) = n => \E s : InOrder(s, T) }
<1>1. 0 \in P
  <2> SUFFICES ASSUME NEW T \in SUBSET Nat, IsFiniteSet(T), Cardinality(T) = 0
               PROVE  \E s : InOrder(s, T)
    OBVIOUS
  <2>1. T = {}
    BY FS_EmptySet
  <2>2. InOrder(<< >>, T)
    BY <2>1, NoGaps DEF InOrder, Range
  <2> QED
    BY <2>2
<1>2. ASSUME NEW n \in Nat, n \in P PROVE n + 1 \in P
  <2> SUFFICES ASSUME NEW T \in SUBSET Nat, IsFiniteSet(T), Cardinality(T) = n + 1
               PROVE  \E s : InOrder(s, T)
    OBVIOUS
  <2>1. T # {}
    BY FS_EmptySet
  <2>2. PICK m \in T : \A k \in T : m <= k
    BY <2>1, LeastOf
  <2> DEFINE U == T \ {m}
  <2>3. IsFiniteSet(U) /\ Cardinality(U) = n
    <3>1. IsFiniteSet(U) /\ Cardinality(U) = Cardinality(T) - 1
      BY Zenon, FS_RemoveElement
    <3> QED
      BY <3>1
  <2>4. PICK s : InOrder(s, U)
    <3>1. U \in SUBSET Nat
      OBVIOUS
    <3> HIDE DEF U
    <3> QED
      BY <1>2, <2>3, <3>1
  <2> DEFINE t == [k \in 1..(n + 1) |-> IF k = 1 THEN m ELSE s[k - 1]]
  <2>5. s \in [1..n -> U] /\ Range(s) = U
        /\ \A j, k \in 1..n : j < k => s[j] < s[k]
    BY <2>3, <2>4 DEF InOrder
  <2>6. t[1] = m /\ \A k \in 2..(n + 1) : k - 1 \in 1..n /\ t[k] = s[k - 1]
    OBVIOUS
  <2>7. t \in [1..(n + 1) -> T]
    BY <2>5
  <2>8. Range(t) = T
    <3>1. ASSUME NEW x \in T PROVE \E k \in 1..(n + 1) : t[k] = x
      <4>1. CASE x = m
        BY <2>6, <4>1
      <4>2. CASE x # m
        <5>1. PICK k \in 1..n : s[k] = x
          BY <2>5, <4>2 DEF Range
        <5>2. k + 1 \in 2..(n + 1) /\ k + 1 \in 1..(n + 1) /\ (k + 1) - 1 = k
          OBVIOUS
        <5>3. t[k + 1] = x
          BY <2>6, <5>1, <5>2
        <5> HIDE DEF t
        <5> QED
          BY <5>2, <5>3
      <4> QED
        BY <4>1, <4>2
    <3> HIDE DEF t
    <3> QED
      BY <2>7, <3>1 DEF Range
  <2>9. ASSUME NEW j \in 1..(n + 1), NEW k \in 1..(n + 1), j < k
        PROVE  t[j] < t[k]
    <3>1. k \in 2..(n + 1)
      BY <2>9
    <3>2. t[k] = s[k - 1] /\ k - 1 \in 1..n /\ s[k - 1] \in U
      BY <2>5, <2>6, <3>1
    <3>3. CASE j = 1
      <4>1. t[k] # m /\ m <= t[k] /\ t[k] \in Nat /\ m \in Nat
        BY <2>2, <3>2
      <4> QED
        BY <2>6, <3>3, <4>1
    <3>4. CASE j # 1
      <4>1. j \in 2..(n + 1)
        BY <3>4
      <4>2. t[j] = s[j - 1] /\ j - 1 \in 1..n /\ j - 1 < k - 1
        BY <2>6, <2>9, <4>1
      <4> HIDE DEF t
      <4> QED
        BY <2>5, <3>2, <4>2
    <3> QED
      BY <3>3, <3>4
  <2>10. InOrder(t, T)
    <3> HIDE DEF t
    <3> QED
      BY <2>7, <2>8, <2>9 DEF InOrder
  <2> QED
    BY <2>10
<1>3. Nat \subseteq P
  <2> HIDE DEF P
  <2> QED
    BY <1>1, <1>2, NatSetInduction
<1>4. Cardinality(S) \in Nat
  BY FS_CardinalityType
<1> QED
  BY <1>3, <1>4

\* What Ascending chooses.
LEMMA AscendingOrders ==
  ASSUME NEW S \in SUBSET Nat, IsFiniteSet(S)
  PROVE  InOrder(Ascending(S), S)
<1>1. \E s \in [1..Cardinality(S) -> S] :
        Range(s) = S /\ \A j, k \in DOMAIN s : j < k => s[j] < s[k]
  BY OrderExists DEF InOrder
<1> QED
  BY Zenon, <1>1 DEF Ascending, InOrder

\* Only keeps what stands at the indices, and nothing else.
LEMMA OnlyKeeps ==
  ASSUME NEW X, NEW s \in Seq(X), NEW I \in SUBSET (DOMAIN s)
  PROVE  /\ Only(s, I) \in Seq(X)
         /\ ToSet(Only(s, I)) = { s[i] : i \in I }
         /\ (Only(s, I) = << >>) <=> (I = {})
<1> DEFINE at == Ascending(I)
           n  == Cardinality(I)
<1>1. IsFiniteSet(I) /\ I \in SUBSET Nat /\ I \in SUBSET (1..Len(s))
  <2>1. Len(s) \in Nat /\ DOMAIN s = 1..Len(s)
    OBVIOUS
  <2>2. IsFiniteSet(1..Len(s))
    BY <2>1, UpTo
  <2> QED
    BY <2>1, <2>2, FS_Subset
<1>2. n \in Nat
  BY <1>1, FS_CardinalityType
<1>3. at \in [1..n -> I] /\ Range(at) = I
  BY <1>1, AscendingOrders DEF InOrder
<1>4. Only(s, I) = [k \in 1..n |-> s[at[k]]]
  BY <1>3 DEF Only
<1> HIDE DEF at, n
<1>5. \A i \in I : s[i] \in X
  BY <1>1
<1>6. Only(s, I) \in [1..n -> X]
  BY <1>3, <1>4, <1>5
<1>7. ToSet(Only(s, I)) = { s[i] : i \in I }
  BY <1>3, <1>4 DEF ToSet, Range
<1>8. (Only(s, I) = << >>) <=> (I = {})
  <2>1. ASSUME I = {} PROVE Only(s, I) = << >>
    <3>1. n = 0
      BY <2>1, FS_EmptySet DEF n
    <3> QED
      BY <1>4, <3>1
  <2>2. ASSUME Only(s, I) = << >> PROVE I = {}
    <3>1. ToSet(<< >>) = {}
      BY NoGaps DEF ToSet
    <3>2. { s[i] : i \in I } = {}
      BY <1>7, <2>2, <3>1
    <3> QED
      BY <3>2
  <2> QED
    BY <2>1, <2>2
<1> QED
  BY <1>2, <1>6, <1>7, <1>8

-----------------------------------------------------------------------------
(* What the detector makes of a grade *)

\* The claim that _to_claims makes of a statement.
Makes(item, claim) ==
  /\ Usable(item)
  /\ claim.text = item.text /\ claim.atom_ref = item.atom_ref
  /\ claim.status = Status(item)

\* Every usable statement becomes a claim and every claim was one.
LEMMA ClaimsOfStatements ==
  ASSUME NEW items \in Seq(Statements)
  PROVE  /\ to_claims(items) \in Seq(Claim)
         /\ \A i \in DOMAIN to_claims(items) : \E j \in DOMAIN items :
              Makes(items[j], to_claims(items)[i])
         /\ \A j \in DOMAIN items : Usable(items[j]) =>
              \E i \in DOMAIN to_claims(items) : Makes(items[j], to_claims(items)[i])
<1> DEFINE I      == { i \in DOMAIN items : Usable(items[i]) }
           kept   == Only(items, I)
           claims == to_claims(items)
<1>1. kept \in Seq(Statements) /\ ToSet(kept) = { items[i] : i \in I }
  <2>1. I \in SUBSET (DOMAIN items)
    OBVIOUS
  <2> HIDE DEF I
  <2> QED
    BY <2>1, OnlyKeeps
<1>2. claims =
        [ i \in DOMAIN kept |->
            [ id       |-> IF kept[i].id = None THEN i ELSE kept[i].id,
              text     |-> kept[i].text,
              atom_ref |-> kept[i].atom_ref,
              status   |-> Status(kept[i]),
              gap_type |-> IF kept[i].gap_type \in GapType /\ Status(kept[i]) # "supported"
                           THEN kept[i].gap_type ELSE None ] ]
  BY DEF to_claims
<1>3. Len(kept) \in Nat /\ DOMAIN kept = 1..Len(kept)
  BY <1>1
<1>4. \A i \in DOMAIN kept : kept[i] \in Statements /\ Usable(kept[i])
      /\ \E j \in DOMAIN items : items[j] = kept[i]
  <2> SUFFICES ASSUME NEW i \in DOMAIN kept
               PROVE  /\ kept[i] \in Statements /\ Usable(kept[i])
                      /\ \E j \in DOMAIN items : items[j] = kept[i]
    OBVIOUS
  <2>1. kept[i] \in { items[j] : j \in I }
    <3> HIDE DEF kept, I
    <3> QED
      BY <1>1 DEF ToSet
  <2>2. PICK j \in I : kept[i] = items[j]
    BY <2>1
  <2>3. j \in DOMAIN items /\ Usable(items[j]) /\ items[j] \in Statements
    OBVIOUS
  <2> QED
    BY <2>2, <2>3
<1>5. \A j \in DOMAIN items : Usable(items[j]) => \E i \in DOMAIN kept : kept[i] = items[j]
  BY <1>1 DEF ToSet
<1> HIDE DEF kept, claims
<1>6. ASSUME NEW i \in DOMAIN kept PROVE claims[i] \in Claim /\ Makes(kept[i], claims[i])
  <2> DEFINE id       == IF kept[i].id = None THEN i ELSE kept[i].id
             gap_type == IF kept[i].gap_type \in GapType /\ Status(kept[i]) # "supported"
                         THEN kept[i].gap_type ELSE None
  <2>1. claims[i] = [ id |-> id, text |-> kept[i].text, atom_ref |-> kept[i].atom_ref,
                      status |-> Status(kept[i]), gap_type |-> gap_type ]
    BY <1>2
  <2>2. id \in Nat /\ kept[i].text \in ClaimText /\ kept[i].atom_ref \in Refs
    BY <1>3, <1>4, GradeAssumption DEF GradeAssumption
  <2>3. gap_type \in GapType \cup {None} /\ Status(kept[i]) \in ClaimStatus
    BY DEF Status, ClaimStatus
  <2> HIDE DEF id, gap_type
  <2> QED
    BY <1>4, <2>1, <2>2, <2>3 DEF Claim, Makes
<1>7. claims \in Seq(Claim) /\ DOMAIN claims = DOMAIN kept
  <2>1. claims \in [1..Len(kept) -> Claim]
    BY <1>2, <1>3, <1>6
  <2> QED
    BY <1>3, <2>1
<1> QED
  BY <1>4, <1>5, <1>6, <1>7 DEF claims

\* What a grade's supported statements refer to.
Explained(items) ==
  { items[j].atom_ref : j \in { i \in DOMAIN items :
                                  Usable(items[i]) /\ items[i].status = "supported" } }

\* What is covered is what was said and found supported.
LEMMA CoveredIsExplained ==
  ASSUME NEW items \in Seq(Statements)
  PROVE  Covered(to_claims(items)) = Explained(items) \ {None}
<1> DEFINE claims == to_claims(items)
<1>1. /\ \A i \in DOMAIN claims : \E j \in DOMAIN items : Makes(items[j], claims[i])
      /\ \A j \in DOMAIN items : Usable(items[j]) => \E i \in DOMAIN claims : Makes(items[j], claims[i])
  BY ClaimsOfStatements
<1> HIDE DEF claims
<1>2. \A item : Status(item) = "supported" <=> item.status = "supported"
  BY DEF Status, ClaimStatus
<1>3. { claims[i].atom_ref : i \in Supported(claims) } = Explained(items)
  BY <1>1, <1>2 DEF Supported, Makes, Explained
<1> QED
  BY <1>3 DEF Covered, claims

Edge == [from : atom_index, to : atom_index]

\* A missing edge leads to the claim's atom from a prerequisite that is known and
\* not covered.
LEMMA EdgeIsMissing ==
  ASSUME NEW claim, NEW covered, missing_edge(claim, covered) # None
  PROVE  /\ claim.atom_ref \in atom_index
         /\ \E dep \in atom_index :
              /\ missing_edge(claim, covered) = [from |-> dep, to |-> claim.atom_ref]
              /\ dep \in ToSet(DependsOn[claim.atom_ref]) /\ dep \notin covered
<1> DEFINE atom  == claim.atom_ref
           deps  == DependsOn[atom]
           known == Known(atom)
           open  == Uncovered(atom, covered)
<1>1. atom \in atom_index /\ open # << >>
      /\ missing_edge(claim, covered) = [from |-> Head(open), to |-> atom]
  BY DEF missing_edge
<1>2. deps \in Seq(ToSet(deps))
  BY <1>1, AtomAssumption DEF AtomAssumption, atom_index
<1>3. known \in Seq(ToSet(deps)) /\ ToSet(known) \subseteq ToSet(deps) \cap atom_index
  <2> DEFINE I == { i \in DOMAIN deps : deps[i] \in atom_index }
  <2>1. known = Only(deps, I)
    BY DEF Known
  <2>2. I \in SUBSET (DOMAIN deps)
    OBVIOUS
  <2>3. Only(deps, I) \in Seq(ToSet(deps)) /\ ToSet(Only(deps, I)) = { deps[i] : i \in I }
    <3> HIDE DEF I, deps
    <3> QED
      BY <1>2, <2>2, OnlyKeeps
  <2>4. { deps[i] : i \in I } \subseteq ToSet(deps) \cap atom_index
    BY DEF ToSet
  <2> QED
    BY <2>1, <2>3, <2>4
<1>4. open \in Seq(ToSet(deps)) /\ \A dep \in ToSet(open) : dep \in ToSet(known) /\ dep \notin covered
  <2> DEFINE I == { i \in DOMAIN known : known[i] \notin covered }
  <2>1. open = Only(known, I)
    BY DEF Uncovered
  <2>2. I \in SUBSET (DOMAIN known)
    OBVIOUS
  <2>3. Only(known, I) \in Seq(ToSet(deps)) /\ ToSet(Only(known, I)) = { known[i] : i \in I }
    <3> HIDE DEF I, deps, known
    <3> QED
      BY <1>3, <2>2, OnlyKeeps
  <2>4. \A dep \in { known[i] : i \in I } : dep \in ToSet(known) /\ dep \notin covered
    BY DEF ToSet
  <2> HIDE DEF I, known, open, deps
  <2> QED
    BY <2>1, <2>3, <2>4
<1> HIDE DEF deps, known, open
<1>5. Head(open) \in ToSet(open)
  <2>1. Len(open) \in Nat \ {0} /\ DOMAIN open = 1..Len(open) /\ Head(open) = open[1]
    BY <1>1, <1>4
  <2> QED
    BY <2>1 DEF ToSet
<1> QED
  BY <1>1, <1>3, <1>4, <1>5 DEF deps

\* What is supplied for a claim ends with its atom.
LEMMA SupplyEnds ==
  ASSUME NEW claim \in Claim, NEW covered
  PROVE  LET supply == supply_for(claim, covered)
             edge   == missing_edge(claim, covered)
         IN  IF claim.atom_ref \notin atom_index THEN supply = None /\ edge = None
             ELSE /\ supply \in Seq(atom_index)
                  /\ supply # << >> /\ Last(supply) = claim.atom_ref
                  /\ Len(supply) = 2 => edge # None /\ supply = <<edge.from, edge.to>>
                  /\ edge # None => supply = IF edge.from = edge.to THEN <<edge.to>>
                                             ELSE <<edge.from, edge.to>>
<1> DEFINE supply == supply_for(claim, covered)
           edge   == missing_edge(claim, covered)
           atom   == claim.atom_ref
<1>1. claim # None
  BY ClaimAssumption DEF ClaimAssumption
<1>2. CASE atom \notin atom_index
  BY <1>1, <1>2 DEF supply_for, missing_edge
<1>3. CASE atom \in atom_index
  <2>1. supply = IF edge = None \/ edge = [from |-> atom, to |-> atom]
                 THEN <<atom>> ELSE <<edge.from, atom>>
    BY <1>1, <1>3 DEF supply_for
  <2>2. CASE edge = None
    BY <1>3, <2>1, <2>2 DEF Last
  <2>3. CASE edge # None
    <3>1. PICK dep \in atom_index : edge = [from |-> dep, to |-> atom]
      BY <2>3, EdgeIsMissing
    <3>2. edge.from = dep /\ edge.to = atom
      BY <3>1
    <3>3. CASE dep = atom
      <4>1. supply = <<atom>>
        BY <2>1, <3>1, <3>3
      <4> QED
        BY <1>3, <2>3, <3>2, <3>3, <4>1 DEF Last
    <3>4. CASE dep # atom
      <4>1. supply = <<dep, atom>>
        BY <2>1, <2>3, <3>1, <3>2, <3>4
      <4> QED
        BY <1>3, <2>3, <3>1, <3>2, <3>4, <4>1 DEF Last
    <3> QED
      BY <3>3, <3>4
  <2> QED
    BY <2>2, <2>3
<1> QED
  BY <1>2, <1>3

DetectedGap ==
  [ type : GapType, claim_id : Nat \cup {None}, severity : 1..3,
    missing_edge : Edge \cup {None}, supply : Seq(atom_index) \cup {None} ]

\* What a gap supplies leads from what nothing explains to a claim with its id.
LeadsOn(gap, claims) ==
  /\ gap.supply # None =>
       /\ \E i \in DOMAIN claims :
            claims[i].id = gap.claim_id /\ claims[i].atom_ref = Last(gap.supply)
       /\ Len(gap.supply) = 2 =>
            /\ gap.supply[1] \in ToSet(DependsOn[gap.supply[2]])
            /\ gap.supply[1] \in atom_index /\ gap.supply[1] \notin Covered(claims)
  /\ gap.missing_edge # None =>
       gap.supply = IF gap.missing_edge.from = gap.missing_edge.to
                    THEN <<gap.missing_edge.to>>
                    ELSE <<gap.missing_edge.from, gap.missing_edge.to>>

LeadingGaps(claims) == { gap \in DetectedGap : LeadsOn(gap, claims) }

\* A gap of a claim, with the edge that is missing or without one.
LEMMA GapOfClaim ==
  ASSUME NEW claims \in Seq(Claim), NEW i \in DOMAIN claims,
         NEW type \in GapType, NEW severity \in 1..3,
         NEW edge \in {None, missing_edge(claims[i], Covered(claims))}
  PROVE  Gap(type, claims[i].id, severity, edge, supply_for(claims[i], Covered(claims)))
           \in LeadingGaps(claims)
<1> DEFINE claim   == claims[i]
           covered == Covered(claims)
           supply  == supply_for(claim, covered)
           missing == missing_edge(claim, covered)
           gap     == Gap(type, claim.id, severity, edge, supply)
<1>1. claim \in Claim
  OBVIOUS
<1>2. claim.id \in Nat
  BY <1>1 DEF Claim
<1>3. IF claim.atom_ref \notin atom_index THEN supply = None /\ missing = None
      ELSE /\ supply \in Seq(atom_index)
           /\ supply # << >> /\ Last(supply) = claim.atom_ref
           /\ Len(supply) = 2 => missing # None /\ supply = <<missing.from, missing.to>>
           /\ missing # None => supply = IF missing.from = missing.to THEN <<missing.to>>
                                         ELSE <<missing.from, missing.to>>
  BY <1>1, SupplyEnds
<1>4. missing # None =>
        \E dep \in atom_index :
          /\ claim.atom_ref \in atom_index
          /\ missing = [from |-> dep, to |-> claim.atom_ref]
          /\ dep \in ToSet(DependsOn[claim.atom_ref]) /\ dep \notin covered
  BY EdgeIsMissing
<1>5. gap = [ type |-> type, claim_id |-> claim.id, severity |-> severity,
              missing_edge |-> edge, supply |-> supply ]
  BY DEF Gap
<1>6. missing = None \/ missing \in Edge
  BY <1>4 DEF Edge
<1>7. edge = None \/ edge = missing
  OBVIOUS
<1> HIDE DEF claim, supply, missing, covered
<1>8. gap \in DetectedGap
  <2>1. supply \in Seq(atom_index) \cup {None}
    BY <1>3
  <2> QED
    BY <1>2, <1>5, <1>6, <1>7, <2>1 DEF DetectedGap
<1>9. gap.supply # None => \E j \in DOMAIN claims :
        claims[j].id = gap.claim_id /\ claims[j].atom_ref = Last(gap.supply)
  BY <1>3, <1>5 DEF claim
<1>10. ASSUME gap.supply # None, Len(gap.supply) = 2
       PROVE  /\ gap.supply[1] \in ToSet(DependsOn[gap.supply[2]])
              /\ gap.supply[1] \in atom_index /\ gap.supply[1] \notin covered
  <2>1. missing # None /\ gap.supply = <<missing.from, missing.to>>
    BY <1>3, <1>5, <1>10
  <2>2. gap.supply[1] = missing.from /\ gap.supply[2] = missing.to
    BY <2>1
  <2> QED
    BY <1>4, <2>1, <2>2
<1>11. gap.missing_edge # None =>
         gap.supply = IF gap.missing_edge.from = gap.missing_edge.to
                      THEN <<gap.missing_edge.to>>
                      ELSE <<gap.missing_edge.from, gap.missing_edge.to>>
  BY <1>3, <1>5, <1>7
<1>12. gap \in LeadingGaps(claims)
  <2> HIDE DEF gap
  <2> QED
    BY <1>8, <1>9, <1>10, <1>11 DEF LeadingGaps, LeadsOn, covered
<1> QED
  BY <1>12 DEF gap, claim, supply, covered

\* A gap that supplies nothing.
LEMMA GapOfNothing ==
  ASSUME NEW claims, NEW type \in GapType, NEW id \in Nat \cup {None},
         NEW severity \in 1..3
  PROVE  Gap(type, id, severity, None, None) \in LeadingGaps(claims)
<1> DEFINE gap == Gap(type, id, severity, None, None)
<1>1. gap = [ type |-> type, claim_id |-> id, severity |-> severity,
              missing_edge |-> None, supply |-> None ]
  BY DEF Gap
<1>2. gap \in DetectedGap /\ gap.missing_edge = None /\ gap.supply = None
  BY <1>1 DEF DetectedGap
<1> HIDE DEF gap
<1>3. gap \in LeadingGaps(claims)
  BY <1>2 DEF LeadingGaps, LeadsOn
<1> QED
  BY <1>3 DEF gap

\* The claim that is found by an id has it.
LEMMA FoundById ==
  ASSUME NEW claims \in Seq(Claim), NEW id, ClaimById(claims, id) # None
  PROVE  \E i \in DOMAIN claims : ClaimById(claims, id) = claims[i] /\ claims[i].id = id
<1> DEFINE I    == { i \in 1..Len(claims) : claims[i].id = id }
           last == SelectLastInSeq(claims, LAMBDA c : c.id = id)
<1>1. last = IF I # {} THEN CHOOSE m \in I : \A k \in I : m >= k ELSE 0
  BY DEF SelectLastInSeq, Max
<1>2. ClaimById(claims, id) = IF last = 0 THEN None ELSE claims[last]
  BY DEF ClaimById
<1>3. Len(claims) \in Nat /\ DOMAIN claims = 1..Len(claims)
  OBVIOUS
<1>4. I # {} => \E m \in I : \A k \in I : m >= k
  <2>1. I \in SUBSET (1..Len(claims))
    OBVIOUS
  <2> HIDE DEF I
  <2> QED
    BY <1>3, <2>1, GreatestOf
<1> HIDE DEF last
<1>5. last # 0 /\ I # {}
  BY <1>1, <1>2
<1>6. last \in I
  <2> HIDE DEF I
  <2> QED
    BY <1>1, <1>4, <1>5
<1> QED
  BY <1>2, <1>3, <1>5, <1>6

LEMMA MentionIsId ==
  ASSUME NEW claims \in Seq(Claim), NEW term
  PROVE  first_claim_mentioning(claims, term) \in Nat \cup {None}
<1> DEFINE I     == { i \in 1..Len(claims) : term \in claims[i].text.terms }
           first == SelectInSeq(claims, LAMBDA c : term \in c.text.terms)
<1>1. first = IF I # {} THEN CHOOSE m \in I : \A k \in I : m <= k ELSE 0
  BY DEF SelectInSeq, Min
<1>2. first_claim_mentioning(claims, term) = IF first = 0 THEN None ELSE claims[first].id
  BY DEF first_claim_mentioning
<1>3. Len(claims) \in Nat /\ DOMAIN claims = 1..Len(claims)
  OBVIOUS
<1>4. I # {} => \E m \in I : \A k \in I : m <= k
  <2>1. I \in SUBSET Nat
    OBVIOUS
  <2> HIDE DEF I
  <2> QED
    BY <2>1, LeastOf
<1> HIDE DEF first
<1>5. first = 0 \/ first \in I
  <2> HIDE DEF I
  <2> QED
    BY <1>1, <1>4
<1>6. \A i \in DOMAIN claims : claims[i].id \in Nat
  <2>1. \A i \in DOMAIN claims : claims[i] \in Claim
    OBVIOUS
  <2> QED
    BY <2>1 DEF Claim
<1> QED
  BY <1>2, <1>3, <1>5, <1>6

\* The gap of an id: of its claim, or of nothing.
LEMMA GapOfId ==
  ASSUME NEW claims \in Seq(Claim), NEW type \in GapType, NEW id \in Nat \cup {None},
         NEW severity \in 1..3
  PROVE  Gap(type, id, severity, None, supply_for(ClaimById(claims, id), Covered(claims)))
           \in LeadingGaps(claims)
<1>1. CASE ClaimById(claims, id) = None
  <2>1. supply_for(None, Covered(claims)) = None
    BY DEF supply_for
  <2> QED
    BY <1>1, <2>1, GapOfNothing
<1>2. CASE ClaimById(claims, id) # None
  <2>1. PICK i \in DOMAIN claims : ClaimById(claims, id) = claims[i] /\ claims[i].id = id
    BY <1>2, FoundById
  <2>2. Gap(type, claims[i].id, severity, None, supply_for(claims[i], Covered(claims)))
          \in LeadingGaps(claims)
    BY GapOfClaim
  <2> QED
    BY <2>1, <2>2
<1> QED
  BY <1>1, <1>2

\* Ids of claims as they are put in order: finitely many numbers.
LEMMA PendingInOrder ==
  ASSUME NEW claims \in Seq(Claim), NEW terms
  PROVE  /\ Ascending(PendingShields(terms, claims)) \in Seq(Nat)
         /\ (Ascending(PendingShields(terms, claims)) = << >>) => PendingShields(terms, claims) = {}
<1> DEFINE J       == { j \in DOMAIN claims : claims[j].status = "jargon_shield" }
           ids     == { claims[i].id : i \in J }
           pending == PendingShields(terms, claims)
<1>1. pending \in SUBSET ids
  BY DEF PendingShields
<1>2. IsFiniteSet(J)
  <2>1. Len(claims) \in Nat /\ J \in SUBSET (1..Len(claims))
    OBVIOUS
  <2>2. IsFiniteSet(1..Len(claims))
    BY <2>1, UpTo
  <2> HIDE DEF J
  <2> QED
    BY <2>1, <2>2, FS_Subset
<1>3. IsFiniteSet(ids)
  <2> DEFINE f == [i \in J |-> claims[i].id]
  <2>1. f \in Surjection(J, ids)
    BY DEF Surjection
  <2> HIDE DEF J, f
  <2> QED
    BY <1>2, <2>1, FS_Surjection
<1>4. ids \in SUBSET Nat
  <2>1. \A i \in DOMAIN claims : claims[i] \in Claim
    OBVIOUS
  <2> QED
    BY <2>1 DEF Claim
<1> HIDE DEF pending, ids
<1>5. IsFiniteSet(pending) /\ pending \in SUBSET Nat
  BY <1>1, <1>3, <1>4, FS_Subset
<1>6. InOrder(Ascending(pending), pending) /\ Cardinality(pending) \in Nat
  BY <1>5, AscendingOrders, FS_CardinalityType
<1>7. Ascending(pending) \in Seq(Nat)
  <2> DEFINE n == Cardinality(pending)
             s == Ascending(pending)
  <2>1. n \in Nat /\ s \in [1..n -> pending]
    BY <1>6 DEF InOrder
  <2> HIDE DEF n, s
  <2>2. s \in [1..n -> Nat]
    BY <1>5, <2>1
  <2>3. s \in Seq(Nat)
    BY <2>1, <2>2
  <2> QED
    BY <2>3 DEF s
<1>8. Ascending(pending) = << >> => pending = {}
  BY <1>6, NoGaps DEF InOrder, Range
<1> QED
  BY <1>7, <1>8 DEF pending

LEMMA TermsAreKept ==
  ASSUME NEW grade \in Grades, NEW said, NEW claims
  PROVE  ShieldTerms(grade, said, claims) \in Seq(Terms)
<1> DEFINE terms == grade.jargon_terms
           I     == { k \in DOMAIN terms :
                        /\ \A j \in 1..(k - 1) : terms[j] # terms[k]
                        /\ terms[k] \in said.terms /\ ~ term_expanded(terms[k], claims) }
<1>1. ShieldTerms(grade, said, claims) = Only(terms, I)
  BY DEF ShieldTerms
<1>2. I \in SUBSET (DOMAIN terms)
  OBVIOUS
<1>3. terms \in Seq(Terms)
  BY GradeAssumption DEF GradeAssumption
<1> HIDE DEF I, terms
<1> QED
  BY <1>1, <1>2, <1>3, OnlyKeeps

\* Shields: their gaps lead on, and where there is none no claim is a shield.
LEMMA ShieldsLeadOn ==
  ASSUME NEW grade \in Grades, NEW said, NEW claims \in Seq(Claim)
  PROVE  /\ ShieldGaps(grade, said, claims) \in Seq(LeadingGaps(claims))
         /\ ShieldGaps(grade, said, claims) = << >> =>
              \A i \in DOMAIN claims : claims[i].status # "jargon_shield"
<1> DEFINE terms   == ShieldTerms(grade, said, claims)
           named   == [k \in DOMAIN terms |-> first_claim_mentioning(claims, terms[k])]
           pending == PendingShields(terms, claims)
           rest    == Ascending(pending)
           ids     == named \o rest
           gaps    == ShieldGaps(grade, said, claims)
<1>1. gaps = [k \in DOMAIN ids |->
                Gap("jargon_shield", ids[k], 3, None,
                    supply_for(ClaimById(claims, ids[k]), Covered(claims)))]
  BY DEF ShieldGaps
<1>2. Len(terms) \in Nat /\ DOMAIN terms = 1..Len(terms)
  BY TermsAreKept
<1>3. rest \in Seq(Nat) /\ (rest = << >> => pending = {})
  BY PendingInOrder
<1>4. pending = { claims[i].id : i \in { j \in DOMAIN claims : claims[j].status = "jargon_shield" } }
                  \ { first_claim_mentioning(claims, terms[k]) : k \in DOMAIN terms }
  BY DEF PendingShields
<1> HIDE DEF terms, pending, rest, gaps
<1>5. named \in Seq(Nat \cup {None}) /\ Len(named) = Len(terms)
  <2>1. \A k \in DOMAIN terms : first_claim_mentioning(claims, terms[k]) \in Nat \cup {None}
    BY MentionIsId
  <2> QED
    BY <1>2, <2>1
<1> HIDE DEF named
<1>6. ids \in Seq(Nat \cup {None}) /\ Len(ids) = Len(named) + Len(rest)
  <2>1. rest \in Seq(Nat \cup {None})
    <3>1. Len(rest) \in Nat /\ rest \in [1..Len(rest) -> Nat]
      BY <1>3
    <3>2. rest \in [1..Len(rest) -> Nat \cup {None}]
      BY <3>1
    <3> QED
      BY <3>1, <3>2
  <2> QED
    BY <1>5, <2>1
<1> HIDE DEF ids
<1>7. gaps \in Seq(LeadingGaps(claims)) /\ Len(gaps) = Len(ids)
  <2>1. Len(ids) \in Nat /\ DOMAIN ids = 1..Len(ids) /\ \A k \in DOMAIN ids : ids[k] \in Nat \cup {None}
    BY <1>6
  <2>2. \A k \in DOMAIN ids :
          Gap("jargon_shield", ids[k], 3, None,
              supply_for(ClaimById(claims, ids[k]), Covered(claims))) \in LeadingGaps(claims)
    <3>1. "jargon_shield" \in GapType /\ 3 \in 1..3
      BY DEF GapType
    <3> QED
      BY <2>1, <3>1, GapOfId
  <2> QED
    BY <1>1, <2>1, <2>2
<1>8. ASSUME gaps = << >>
      PROVE  \A i \in DOMAIN claims : claims[i].status # "jargon_shield"
  <2>1. Len(gaps) = 0
    BY <1>8
  <2>2. Len(named) = 0 /\ Len(rest) = 0
    <3>1. Len(named) \in Nat /\ Len(rest) \in Nat
      BY <1>3, <1>5
    <3>2. Len(named) + Len(rest) = 0
      BY <1>6, <1>7, <2>1
    <3> QED
      BY <3>1, <3>2
  <2>3. rest = << >> /\ DOMAIN terms = {}
    BY <1>2, <1>3, <1>5, <2>2
  <2>4. { claims[i].id : i \in { j \in DOMAIN claims : claims[j].status = "jargon_shield" } } = {}
    BY <1>3, <1>4, <2>3
  <2> QED
    BY <2>4
<1> QED
  BY <1>7, <1>8 DEF gaps

LEMMA CausalsLeadOn ==
  ASSUME NEW said, NEW claims \in Seq(Claim)
  PROVE  CausalGaps(said, claims) \in Seq(LeadingGaps(claims))
<1> DEFINE covered == Covered(claims)
           I       == { i \in DOMAIN claims : IsCausal(claims[i], said, covered) }
           causal  == Only(claims, I)
<1>1. CausalGaps(said, claims) =
        [k \in DOMAIN causal |->
          Gap("causal_gap", causal[k].id, IF causal[k].status = "unsupported" THEN 2 ELSE 1,
              missing_edge(causal[k], covered), supply_for(causal[k], covered))]
  BY DEF CausalGaps
<1>2. causal \in Seq(Claim) /\ ToSet(causal) \subseteq ToSet(claims)
  <2>1. I \in SUBSET (DOMAIN claims)
    OBVIOUS
  <2> HIDE DEF I
  <2>2. causal \in Seq(Claim) /\ ToSet(causal) = { claims[i] : i \in I }
    BY <2>1, OnlyKeeps
  <2> QED
    BY <2>1, <2>2 DEF ToSet
<1> HIDE DEF causal
<1>3. ASSUME NEW k \in DOMAIN causal
      PROVE  Gap("causal_gap", causal[k].id, IF causal[k].status = "unsupported" THEN 2 ELSE 1,
                 missing_edge(causal[k], covered), supply_for(causal[k], covered))
               \in LeadingGaps(claims)
  <2>1. PICK i \in DOMAIN claims : causal[k] = claims[i]
    BY <1>2 DEF ToSet
  <2> DEFINE severity == IF causal[k].status = "unsupported" THEN 2 ELSE 1
             edge     == missing_edge(claims[i], covered)
  <2>2. severity \in 1..3
    OBVIOUS
  <2>3. "causal_gap" \in GapType /\ edge \in {None, missing_edge(claims[i], covered)}
    BY DEF GapType
  <2> HIDE DEF severity, edge
  <2>4. Gap("causal_gap", claims[i].id, severity, edge, supply_for(claims[i], covered))
          \in LeadingGaps(claims)
    BY <2>2, <2>3, GapOfClaim
  <2> QED
    BY <2>1, <2>4 DEF severity, edge
<1>4. Len(causal) \in Nat /\ DOMAIN causal = 1..Len(causal)
  BY <1>2
<1> HIDE DEF covered
<1> QED
  BY <1>1, <1>3, <1>4

LEMMA OfTypeKeeps ==
  ASSUME NEW claims \in Seq(Claim), NEW type
  PROVE  /\ OfType(claims, type) \in Seq(Claim)
         /\ \A k \in DOMAIN OfType(claims, type) :
              \E i \in DOMAIN claims : OfType(claims, type)[k] = claims[i]
<1> DEFINE I == { i \in DOMAIN claims : claims[i].gap_type = type }
           kept == OfType(claims, type)
<1>1. kept = Only(claims, I) /\ I \in SUBSET (DOMAIN claims)
  BY DEF OfType
<1> HIDE DEF I, kept
<1>2. kept \in Seq(Claim) /\ ToSet(kept) = { claims[i] : i \in I }
  BY <1>1, OnlyKeeps
<1>3. \A k \in DOMAIN kept : kept[k] \in { claims[i] : i \in I }
  BY <1>2 DEF ToSet
<1> QED
  BY <1>1, <1>2, <1>3 DEF kept

LEMMA AnalogiesLeadOn ==
  ASSUME NEW grade, NEW flagged, NEW claims \in Seq(Claim)
  PROVE  AnalogyGaps(grade, flagged, claims) \in Seq(LeadingGaps(claims))
<1> DEFINE broken == OfType(claims, "broken_analogy")
           anchor == IF broken = << >> THEN None ELSE Head(broken)
           gap    == Gap("broken_analogy", IF anchor = None THEN None ELSE anchor.id, 2, None,
                         supply_for(anchor, Covered(claims)))
<1>1. AnalogyGaps(grade, flagged, claims) =
        IF grade.analogy /\ (flagged \/ broken # << >>) THEN << gap >> ELSE << >>
  BY DEF AnalogyGaps
<1>2. "broken_analogy" \in GapType /\ 2 \in 1..3
  BY DEF GapType
<1>3. gap \in LeadingGaps(claims)
  <2>1. CASE broken = << >>
    <3>1. anchor = None /\ supply_for(anchor, Covered(claims)) = None
      BY <2>1 DEF supply_for
    <3>2. gap = Gap("broken_analogy", None, 2, None, None)
      BY <3>1
    <3> QED
      BY <1>2, <3>2, GapOfNothing
  <2>2. CASE broken # << >>
    <3>1. broken \in Seq(Claim)
          /\ \A k \in DOMAIN broken : \E i \in DOMAIN claims : broken[k] = claims[i]
      BY OfTypeKeeps
    <3> HIDE DEF broken
    <3>2. 1 \in DOMAIN broken /\ Head(broken) = broken[1]
      BY <2>2, <3>1
    <3>3. PICK i \in DOMAIN claims : anchor = claims[i]
      BY <2>2, <3>1, <3>2
    <3>4. claims[i] # None
      <4>1. claims[i] \in Claim
        OBVIOUS
      <4> QED
        BY <4>1, ClaimAssumption DEF ClaimAssumption
    <3>5. gap = Gap("broken_analogy", claims[i].id, 2, None, supply_for(claims[i], Covered(claims)))
      BY <3>3, <3>4
    <3> QED
      BY <1>2, <3>5, GapOfClaim
  <2> QED
    BY <2>1, <2>2
<1> HIDE DEF gap
<1> QED
  BY <1>1, <1>3

\* Boundaries: their gaps supply nothing, and where there is none a counterexample
\* was given.
LEMMA BoundariesLeadOn ==
  ASSUME NEW grade, NEW claims \in Seq(Claim)
  PROVE  /\ BoundaryGaps(grade, claims) \in Seq(LeadingGaps(claims))
         /\ BoundaryGaps(grade, claims) = << >> => grade.counterexample
<1> DEFINE open == OfType(claims, "no_boundary")
           at   == IF ~ grade.counterexample
                   THEN <<IF open = << >> THEN None ELSE Head(open).id>>
                   ELSE [k \in DOMAIN open |-> open[k].id]
           gaps == BoundaryGaps(grade, claims)
<1>1. gaps = [k \in DOMAIN at |-> Gap("no_boundary", at[k], 2, None, None)]
  BY DEF BoundaryGaps
<1>2. open \in Seq(Claim)
  BY OfTypeKeeps
<1> HIDE DEF open, gaps
<1>3. Len(open) \in Nat /\ DOMAIN open = 1..Len(open) /\ \A k \in DOMAIN open : open[k].id \in Nat
  <2>1. \A k \in DOMAIN open : open[k] \in Claim
    BY <1>2
  <2> QED
    BY <1>2, <2>1 DEF Claim
<1>4. at \in Seq(Nat \cup {None})
  <2>1. CASE ~ grade.counterexample
    <3>1. (IF open = << >> THEN None ELSE Head(open).id) \in Nat \cup {None}
      <4>1. open # << >> => 1 \in DOMAIN open /\ Head(open) = open[1]
        BY <1>2
      <4> QED
        BY <1>3, <4>1
    <3> QED
      BY <2>1, <3>1
  <2>2. CASE grade.counterexample
    BY <1>3, <2>2
  <2> QED
    BY <2>1, <2>2
<1>5. ~ grade.counterexample => Len(at) = 1
  OBVIOUS
<1> HIDE DEF at
<1>6. gaps \in Seq(LeadingGaps(claims)) /\ Len(gaps) = Len(at)
  <2>1. Len(at) \in Nat /\ DOMAIN at = 1..Len(at) /\ \A k \in DOMAIN at : at[k] \in Nat \cup {None}
    BY <1>4
  <2>2. \A k \in DOMAIN at : Gap("no_boundary", at[k], 2, None, None) \in LeadingGaps(claims)
    <3>1. "no_boundary" \in GapType /\ 2 \in 1..3
      BY DEF GapType
    <3> QED
      BY <2>1, <3>1, GapOfNothing
  <2> QED
    BY <1>1, <2>1, <2>2
<1>7. gaps = << >> => grade.counterexample
  <2>1. gaps = << >> => Len(gaps) = 0
    OBVIOUS
  <2> QED
    BY <1>5, <1>6, <2>1
<1> QED
  BY <1>6, <1>7 DEF gaps

\* All gaps lead on; without one no claim is a shield and, where a boundary is
\* asked for, a counterexample was given.
LEMMA GapsLeadOn ==
  ASSUME NEW grade \in Grades, NEW said, NEW flagged, NEW claims \in Seq(Claim), NEW st
  PROVE  /\ derive_gaps(grade, said, flagged, claims, st) \in Seq(LeadingGaps(claims))
         /\ derive_gaps(grade, said, flagged, claims, st) = << >> =>
              /\ \A i \in DOMAIN claims : claims[i].status # "jargon_shield"
              /\ BoundaryAsked(st) => grade.counterexample
<1> DEFINE X          == LeadingGaps(claims)
           shields    == ShieldGaps(grade, said, claims)
           causals    == CausalGaps(said, claims)
           analogies  == AnalogyGaps(grade, flagged, claims)
           boundaries == IF BoundaryAsked(st) THEN BoundaryGaps(grade, claims) ELSE << >>
           gaps       == derive_gaps(grade, said, flagged, claims, st)
<1>1. gaps = shields \o causals \o analogies \o boundaries
  BY DEF derive_gaps
<1>2. shields \in Seq(X) /\ causals \in Seq(X) /\ analogies \in Seq(X)
  BY ShieldsLeadOn, CausalsLeadOn, AnalogiesLeadOn
<1>3. boundaries \in Seq(X)
  BY BoundariesLeadOn
<1>4. shields = << >> => \A i \in DOMAIN claims : claims[i].status # "jargon_shield"
  BY ShieldsLeadOn
<1>5. boundaries = << >> => (BoundaryAsked(st) => grade.counterexample)
  BY BoundariesLeadOn
<1> HIDE DEF X, shields, causals, analogies, boundaries, gaps
<1>6. gaps \in Seq(X)
  BY <1>1, <1>2, <1>3
<1>7. Len(gaps) = Len(shields) + Len(causals) + Len(analogies) + Len(boundaries)
  BY <1>1, <1>2, <1>3
<1>8. gaps = << >> => shields = << >> /\ boundaries = << >>
  <2>1. /\ Len(shields) \in Nat /\ Len(causals) \in Nat
        /\ Len(analogies) \in Nat /\ Len(boundaries) \in Nat
    BY <1>2, <1>3
  <2>2. gaps = << >> => Len(gaps) = 0
    OBVIOUS
  <2>3. gaps = << >> => Len(shields) = 0 /\ Len(boundaries) = 0
    BY <1>7, <2>1, <2>2
  <2> QED
    BY <1>2, <1>3, <2>3
<1> QED
  BY <1>4, <1>5, <1>6, <1>8 DEF gaps, X

-----------------------------------------------------------------------------
(* Scores and verdict *)

LEMMA ShareOfWhole ==
  ASSUME NEW x \in Nat, NEW n \in Nat \ {0}
  PROVE  x \div n \in Nat /\ (x \div n) * n <= x
OBVIOUS

LEMMA ProductsKeepOrder ==
  ASSUME NEW j \in Nat, NEW k \in Nat, NEW n \in Nat, j <= k
  PROVE  j * n <= k * n
<1>1. PICK d \in Nat : k = j + d
  <2>1. k - j \in Nat /\ k = j + (k - j)
    OBVIOUS
  <2> QED
    BY <2>1
<1>2. k * n = j * n + d * n /\ d * n \in Nat /\ j * n \in Nat
  BY <1>1
<1> QED
  BY <1>2

\* The share of a part is a score, and what it reaches the part reaches.
LEMMA ShareIsScore ==
  ASSUME NEW part \in Nat, NEW n \in Nat \ {0}, part <= n
  PROVE  /\ (FullScore * part) \div n \in 0..FullScore
         /\ \A m \in Nat : (FullScore * part) \div n >= m => FullScore * part >= m * n
<1> DEFINE x == FullScore * part
           q == x \div n
<1>1. FullScore \in Nat
  BY KernelAssumption DEF KernelAssumption
<1>2. x \in Nat /\ FullScore * n \in Nat /\ x <= FullScore * n
  <2>1. part * FullScore <= n * FullScore
    BY <1>1, ProductsKeepOrder
  <2>2. part * FullScore = FullScore * part /\ n * FullScore = FullScore * n
    BY <1>1
  <2>3. FullScore * part \in Nat /\ FullScore * n \in Nat
    BY <1>1
  <2> QED
    BY <2>1, <2>2, <2>3
<1> HIDE DEF x
<1>3. q \in Nat /\ q * n <= x /\ q * n \in Nat
  BY <1>2, ShareOfWhole
<1> HIDE DEF q
<1>4. q <= FullScore
  <2> SUFFICES ASSUME q >= FullScore + 1 PROVE FALSE
    BY <1>1, <1>3
  <2>1. (FullScore + 1) * n <= q * n
    BY <1>1, <1>3, ProductsKeepOrder
  <2>2. (FullScore + 1) * n = FullScore * n + n
    BY <1>1
  <2> QED
    BY <1>2, <1>3, <2>1, <2>2
<1>5. ASSUME NEW m \in Nat, q >= m PROVE x >= m * n
  <2>1. m * n <= q * n /\ m * n \in Nat
    BY <1>3, <1>5, ProductsKeepOrder
  <2> QED
    BY <1>2, <1>3, <2>1
<1> QED
  BY <1>1, <1>3, <1>4, <1>5 DEF q, x

\* Completeness is a score: the share of the verified atoms that is covered.
LEMMA CompletenessIsShare ==
  ASSUME NEW claims \in Seq(Claim)
  PROVE  /\ completeness_of(claims) \in 0..FullScore
         /\ Verified # {} => \A m \in Nat : completeness_of(claims) >= m =>
              FullScore * Cardinality(Verified \cap Covered(claims))
                >= m * Cardinality(Verified)
<1> DEFINE hit  == Verified \cap Covered(claims)
           part == Cardinality(hit)
           all  == Cardinality(Verified)
<1>1. IsFiniteSet(Verified)
  <2> DEFINE n == Len(AtomIds)
  <2>1. n \in Nat /\ DOMAIN AtomIds = 1..n
    BY AtomAssumption DEF AtomAssumption
  <2>2. AtomIds \in Surjection(1..n, ToSet(AtomIds))
    <3>1. AtomIds \in [1..n -> ToSet(AtomIds)]
      BY AtomAssumption DEF AtomAssumption
    <3> QED
      BY <2>1, <3>1 DEF Surjection, ToSet
  <2>3. IsFiniteSet(1..n)
    BY <2>1, UpTo
  <2> HIDE DEF n
  <2>4. IsFiniteSet(ToSet(AtomIds))
    BY <2>2, <2>3, FS_Surjection
  <2> QED
    BY <2>4, AtomAssumption, FS_Subset DEF AtomAssumption
<1>2. part \in Nat /\ all \in Nat /\ part <= all /\ (Verified # {} => all # 0)
  <2>1. IsFiniteSet(hit) /\ part <= all
    BY <1>1, FS_Subset
  <2> QED
    BY <1>1, <2>1, FS_CardinalityType, FS_EmptySet
<1>3. CASE Verified # {}
  <2>1. completeness_of(claims) = (FullScore * part) \div all
    BY <1>3 DEF completeness_of
  <2> HIDE DEF part, all
  <2>2. all \in Nat \ {0}
    BY <1>2, <1>3
  <2>3. /\ (FullScore * part) \div all \in 0..FullScore
        /\ \A m \in Nat : (FullScore * part) \div all >= m => FullScore * part >= m * all
    BY <1>2, <2>2, ShareIsScore
  <2> QED
    BY <2>1, <2>3 DEF part, all
<1>4. CASE Verified = {} /\ claims = << >>
  <2>1. completeness_of(claims) = 0
    BY <1>4 DEF completeness_of
  <2> QED
    BY <1>4, <2>1, KernelAssumption DEF KernelAssumption
<1>5. CASE Verified = {} /\ claims # << >>
  <2> DEFINE good == Cardinality(Supported(claims))
             n    == Len(claims)
  <2>1. completeness_of(claims) = (FullScore * good) \div n
    BY <1>5 DEF completeness_of
  <2>2. n \in Nat \ {0} /\ DOMAIN claims = 1..n
    BY <1>5
  <2>3. good \in Nat /\ good <= n
    <3>1. IsFiniteSet(1..n) /\ Cardinality(1..n) = n
      BY <2>2, UpTo
    <3>2. Supported(claims) \in SUBSET (1..n)
      BY <2>2 DEF Supported
    <3>3. IsFiniteSet(Supported(claims)) /\ good <= n
      BY <3>1, <3>2, FS_Subset
    <3> QED
      BY <3>3, FS_CardinalityType
  <2> HIDE DEF good, n
  <2>4. (FullScore * good) \div n \in 0..FullScore
    BY <2>2, <2>3, ShareIsScore
  <2> QED
    BY <1>5, <2>1, <2>4
<1> QED
  BY <1>3, <1>4, <1>5

\* What is analyzed: its claims, its gaps and what its verdict rests on.
LEMMA AnalysisSays ==
  ASSUME NEW grade \in Grades, NEW said, NEW flagged, NEW st
  PROVE  LET found == analyze(grade, said, flagged, st)
         IN  /\ found.claims = to_claims(grade.items) /\ found.claims \in Seq(Claim)
             /\ found.gaps \in Seq(LeadingGaps(found.claims))
             /\ found.scores.completeness = completeness_of(found.claims)
             /\ found.scores \in Scores /\ found.verdict \in Verdict
             /\ found.verdict = "closed" =>
                  /\ found.gaps = << >> /\ found.wrong = {}
                  /\ \A i \in DOMAIN found.claims :
                       found.claims[i].status \notin {"wrong", "jargon_shield"}
                  /\ BoundaryAsked(st) => grade.counterexample
<1> DEFINE claims == to_claims(grade.items)
           gaps   == derive_gaps(grade, said, flagged, claims, st)
           wrong  == { claims[i].id : i \in { j \in DOMAIN claims : claims[j].status = "wrong" } }
           found  == analyze(grade, said, flagged, st)
<1>1. found = [ claims  |-> claims,
                gaps    |-> gaps,
                wrong   |-> wrong,
                scores  |-> [completeness |-> completeness_of(claims), own_words |-> grade.own_words],
                verdict |-> VerdictOf(gaps, wrong) ]
  BY DEF analyze
<1>2. grade.items \in Seq(Statements) /\ grade.own_words \in 0..FullScore
  BY GradeAssumption DEF GradeAssumption
<1>3. claims \in Seq(Claim)
  BY <1>2, ClaimsOfStatements
<1> HIDE DEF claims
<1>4. /\ gaps \in Seq(LeadingGaps(claims))
      /\ gaps = << >> =>
           /\ \A i \in DOMAIN claims : claims[i].status # "jargon_shield"
           /\ BoundaryAsked(st) => grade.counterexample
  BY <1>3, GapsLeadOn
<1>5. [completeness |-> completeness_of(claims), own_words |-> grade.own_words] \in Scores
  BY <1>2, <1>3, CompletenessIsShare DEF Scores
<1>6. wrong = {} => \A i \in DOMAIN claims : claims[i].status # "wrong"
  OBVIOUS
<1>7. /\ VerdictOf(gaps, wrong) \in Verdict
      /\ VerdictOf(gaps, wrong) = "closed" => gaps = << >> /\ wrong = {}
  BY DEF VerdictOf, Verdict
<1> HIDE DEF gaps, wrong, found
<1>8. /\ found.claims = claims /\ found.gaps = gaps /\ found.wrong = wrong
      /\ found.scores = [completeness |-> completeness_of(claims), own_words |-> grade.own_words]
      /\ found.verdict = VerdictOf(gaps, wrong)
  BY <1>1
<1> QED
  BY <1>3, <1>4, <1>5, <1>6, <1>7, <1>8 DEF found, claims

\* What the kernel is handed is a report, whatever was said and graded.
LEMMA ReportIsTyped ==
  ASSUME NEW grade \in Grades, NEW said, NEW flagged, NEW st
  PROVE  KernelReport(analyze(grade, said, flagged, st)) \in GapReport
<1> DEFINE found  == analyze(grade, said, flagged, st)
           chars  == IF BundleMaxChars < ReturnMaxChars THEN BundleMaxChars ELSE ReturnMaxChars
           Item(k) == [ shield   |-> found.gaps[k].type = "jargon_shield",
                        severity |-> found.gaps[k].severity,
                        supply   |-> IF found.gaps[k].supply = None THEN None ELSE chars ]
           items  == [k \in DOMAIN found.gaps |-> Item(k)]
<1>1. KernelReport(found) = [ gaps |-> items, scores |-> found.scores, verdict |-> found.verdict,
                              wrong |-> found.wrong # {} ]
  BY DEF KernelReport
<1>2. /\ found.gaps \in Seq(LeadingGaps(found.claims))
      /\ found.scores \in Scores /\ found.verdict \in Verdict
  BY AnalysisSays
<1>3. chars \in Nat \ {0}
  BY AtomAssumption, KernelAssumption DEF AtomAssumption, KernelAssumption
<1> HIDE DEF found, chars
<1>4. Len(found.gaps) \in Nat /\ DOMAIN found.gaps = 1..Len(found.gaps)
      /\ \A k \in DOMAIN found.gaps : found.gaps[k].severity \in 1..3
  <2>1. \A k \in DOMAIN found.gaps : found.gaps[k] \in DetectedGap
    BY <1>2 DEF LeadingGaps
  <2> QED
    BY <1>2, <2>1 DEF DetectedGap
<1>5. \A k \in DOMAIN found.gaps : Item(k) \in GapItem
  BY <1>3, <1>4 DEF GapItem
<1> HIDE DEF Item
<1>6. items \in Seq(GapItem)
  BY <1>4, <1>5
<1> HIDE DEF items
<1>7. (found.wrong # {}) \in BOOLEAN
  OBVIOUS
<1> QED
  BY <1>1, <1>2, <1>6, <1>7 DEF GapReport, found

-----------------------------------------------------------------------------
(* The diagnosed loop: the inductive invariant *)

Hearing == [said : Sayings, grade : Grades, flagged : BOOLEAN]

\* What is found is what analyze makes of what was heard, in the phase it was
\* heard in, and a loop is closed by the kernel's verdict on it.
DiagnosedInv ==
  /\ IInv
  /\ detection # None =>
       /\ heard \in Hearing
       /\ state.state \in {"Detect", "Simplify", "Closed"}
       /\ detection = analyze(heard.grade, heard.said, heard.flagged,
                              IF state.state = "Detect" THEN "Detect" ELSE "Simplify")
  /\ state.state = "Closed" => detection # None /\ closure_verdict(KernelReport(detection), TRUE)

\* The kernel closes a loop only by its verdict.
LEMMA ClosedByVerdict ==
  ASSUME NEW s, LegalSnapshot(s), s.state = "Simplify",
         NEW e, e.kind = "simplify_judged", tick(s, e).state.state = "Closed"
  PROVE  closure_verdict(e.report, e.transfer_passed)
<1>1. SUFFICES ASSUME ~ closure_verdict(e.report, e.transfer_passed) PROVE FALSE
  OBVIOUS
<1>2. tick(s, e) = LoopStep(s, {}, {}) \/ tick(s, e) = OnSimplifyJudged(s, e)
  BY DEF tick
<1>3. \A t, does, violations : LoopStep(t, does, violations).state = t
  BY DEF LoopStep
<1> DEFINE judged == [s EXCEPT !.last_scores = e.report.scores,
                               !.system_chars = Add(s.system_chars, e.system_chars)]
           capped == [judged EXCEPT !.loop_capped = TRUE]
<1>4. OnSimplifyJudged(s, e) =
        IF AtLoopCap(s) THEN LoopStep(capped, {"escalate"}, {})
        ELSE LoopStep(NextLap(judged), {"ask_explain"}, {})
  BY <1>1 DEF OnSimplifyJudged
<1>5. "state" \in DOMAIN s
  BY DEF LegalSnapshot, IsSnapshot, NewSnapshot
<1>6. judged.state = "Simplify" /\ "state" \in DOMAIN judged
  BY <1>5
<1> HIDE DEF judged
<1>7. capped.state = "Simplify"
  BY <1>6
<1>8. NextLap(judged).state = "Teach"
  BY <1>6 DEF NextLap
<1> HIDE DEF capped
<1>9. tick(s, e).state \in {s, capped, NextLap(judged)}
  BY <1>2, <1>3, <1>4
<1> QED
  BY <1>7, <1>8, <1>9

\* A call of tick() keeps the snapshot legal, and only a judgement closes it.
LEMMA TickOfLoop ==
  ASSUME IInv, NEW e \in LoopEvent, Tick(e)
  PROVE  /\ IInv'
         /\ state'.state = "Closed" => state.state \in {"Simplify", "Closed"}
<1>1. Moves(state, tick(state, e)) /\ state' = tick(state, e).state
  BY TickIsLegal DEF IInv, Tick
<1> QED
  BY <1>1, TickKeepsIInv DEF Moves

\* The report of what was found is one the kernel may be handed.
LEMMA FoundIsReport ==
  ASSUME DiagnosedInv, detection # None
  PROVE  KernelReport(detection) \in GapReport
<1>1. heard.grade \in Grades
  BY DEF DiagnosedInv, Hearing
<1> QED
  BY <1>1, ReportIsTyped DEF DiagnosedInv

LEMMA DiagnosedNextKeeps ==
  ASSUME DiagnosedInv, [DiagnosedNext]_diagnosedVars
  PROVE  DiagnosedInv'
<1>1. CASE UNCHANGED diagnosedVars
  BY <1>1 DEF DiagnosedInv, IInv, diagnosedVars, vars
<1>2. CASE Name
  <2>1. state.state = "Pick" /\ Next /\ UNCHANGED <<heard, detection>>
    BY <1>2 DEF Name, Next
  <2>2. PICK e \in LoopEvent : Tick(e)
    BY <2>1, NextTicks
  <2>3. IInv' /\ state'.state # "Closed"
    BY <2>1, <2>2, TickOfLoop DEF DiagnosedInv
  <2>4. detection' = None
    BY <2>1 DEF DiagnosedInv
  <2> QED
    BY <2>3, <2>4 DEF DiagnosedInv
<1>3. CASE Explain
  <2>1. state.state = "Teach" /\ Next /\ detection' = None
    BY <1>3 DEF Explain, Next
  <2>2. PICK e \in LoopEvent : Tick(e)
    BY <2>1, NextTicks
  <2>3. IInv' /\ state'.state # "Closed"
    BY <2>1, <2>2, TickOfLoop DEF DiagnosedInv
  <2> QED
    BY <2>1, <2>3 DEF DiagnosedInv
<1>4. CASE Supply
  <2>1. state.state = "Return" /\ Next /\ UNCHANGED <<heard, detection>>
    BY <1>4 DEF Supply, Next
  <2>2. PICK e \in LoopEvent : Tick(e)
    BY <2>1, NextTicks
  <2>3. IInv' /\ state'.state # "Closed"
    BY <2>1, <2>2, TickOfLoop DEF DiagnosedInv
  <2>4. detection' = None
    BY <2>1 DEF DiagnosedInv
  <2> QED
    BY <2>3, <2>4 DEF DiagnosedInv
<1>5. ASSUME NEW n \in SystemSizes, Report(n) PROVE DiagnosedInv'
  <2> DEFINE e == [kind |-> "gap_reported", report |-> KernelReport(detection), system_chars |-> n]
  <2>1. state.state = "Detect" /\ detection # None /\ Tick(e) /\ detection' = None
    BY <1>5 DEF Report
  <2>2. e \in LoopEvent
    BY <2>1, FoundIsReport, InputAssumption DEF LoopEvent, InputAssumption
  <2> HIDE DEF e
  <2>3. IInv' /\ state'.state # "Closed"
    BY <2>1, <2>2, TickOfLoop DEF DiagnosedInv
  <2> QED
    BY <2>1, <2>3 DEF DiagnosedInv
<1>6. ASSUME NEW passed \in BOOLEAN, NEW n \in SystemSizes, Judge(passed, n)
      PROVE  DiagnosedInv'
  <2> DEFINE e == [kind |-> "simplify_judged", report |-> KernelReport(detection),
                   transfer_passed |-> passed, system_chars |-> n]
  <2>1. /\ state.state = "Simplify" /\ detection # None /\ Tick(e)
        /\ IF state'.state = "Closed" THEN UNCHANGED <<heard, detection>>
           ELSE heard' = None /\ detection' = None
    BY <1>6 DEF Judge
  <2>2. e \in LoopEvent
    BY <2>1, FoundIsReport, InputAssumption DEF LoopEvent, InputAssumption
  <2>3. e.kind = "simplify_judged" /\ e.report = KernelReport(detection)
        /\ e.transfer_passed = passed
    OBVIOUS
  <2> HIDE DEF e
  <2>4. IInv'
    BY <2>1, <2>2, TickOfLoop DEF DiagnosedInv
  <2>5. CASE state'.state = "Closed"
    <3>1. closure_verdict(KernelReport(detection), passed)
      <4>1. tick(state, e).state.state = "Closed"
        BY <2>1, <2>5 DEF Tick
      <4>2. LegalSnapshot(state)
        BY DEF DiagnosedInv, IInv
      <4> QED
        BY <2>1, <2>3, <4>1, <4>2, ClosedByVerdict
    <3>2. closure_verdict(KernelReport(detection), TRUE)
      BY <3>1 DEF closure_verdict
    <3>3. UNCHANGED <<heard, detection>>
      BY <2>1, <2>5
    <3>4. heard \in Hearing
          /\ detection = analyze(heard.grade, heard.said, heard.flagged, "Simplify")
      BY <2>1 DEF DiagnosedInv
    <3> QED
      BY <2>1, <2>4, <2>5, <3>2, <3>3, <3>4 DEF DiagnosedInv
  <2>6. CASE state'.state # "Closed"
    BY <2>1, <2>4, <2>6 DEF DiagnosedInv
  <2> QED
    BY <2>5, <2>6
<1>7. ASSUME NEW said \in Sayings, NEW grade \in Grades, NEW flagged \in BOOLEAN,
             Analyze(said, grade, flagged)
      PROVE  DiagnosedInv'
  <2>1. /\ state.state \in {"Detect", "Simplify"} /\ UNCHANGED vars
        /\ heard' = [said |-> said, grade |-> grade, flagged |-> flagged]
        /\ detection' = analyze(grade, said, flagged, state.state)
    BY <1>7 DEF Analyze
  <2>2. IInv' /\ state' = state
    BY <2>1 DEF vars, DiagnosedInv, IInv
  <2>3. heard' \in Hearing /\ heard'.grade = grade /\ heard'.said = said
        /\ heard'.flagged = flagged
    BY <2>1 DEF Hearing
  <2> QED
    BY <2>1, <2>2, <2>3 DEF DiagnosedInv
<1> QED
  BY <1>1, <1>2, <1>3, <1>4, <1>5, <1>6, <1>7 DEF DiagnosedNext

\* Along every behaviour what is found is what was heard, and a loop is closed on
\* it (GapDetector.analyze, _on_simplify_judged).
THEOREM DiagnosedInductive == DiagnosedSpec => []DiagnosedInv
<1>1. DiagnosedInit => DiagnosedInv
  <2>1. Init => IInv
    BY NewIsLegal DEF Init, IInv, NewSnapshot
  <2> QED
    BY <2>1 DEF DiagnosedInit, DiagnosedInv, Init, NewSnapshot
<1>2. DiagnosedInv /\ [DiagnosedNext]_diagnosedVars => DiagnosedInv'
  BY DiagnosedNextKeeps
<1> QED
  BY <1>1, <1>2, PTL DEF DiagnosedSpec

\* A loop that is diagnosed is one of the loops tick() was checked with, whose
\* reports may be any: what holds of every FeynmanLoop holds of it.
THEOREM DiagnosedIsLoop ==
  ASSUME DetectorReports \subseteq Reports
  PROVE  DiagnosedSpec => Spec
<1>1. DiagnosedInit => Init
  BY DEF DiagnosedInit
<1>2. DiagnosedInv /\ [DiagnosedNext]_diagnosedVars => [Next]_vars
  <2> SUFFICES ASSUME DiagnosedInv, [DiagnosedNext]_diagnosedVars PROVE [Next]_vars
    OBVIOUS
  <2>1. detection # None /\ state.state \in {"Detect", "Simplify"} =>
          KernelReport(detection) \in Reports
    <3> SUFFICES ASSUME detection # None PROVE KernelReport(detection) \in DetectorReports
      OBVIOUS
    <3>1. heard.grade \in Grades /\ heard.said \in Sayings /\ heard.flagged \in BOOLEAN
      BY DEF DiagnosedInv, Hearing
    <3>2. PICK st \in {"Detect", "Simplify"} :
            detection = analyze(heard.grade, heard.said, heard.flagged, st)
      BY DEF DiagnosedInv
    <3> QED
      BY <3>1, <3>2 DEF DetectorReports
  <2>2. CASE UNCHANGED diagnosedVars
    BY <2>2 DEF diagnosedVars
  <2>3. CASE Name \/ Explain \/ Supply
    BY <2>3 DEF Name, Explain, Supply, Next
  <2>4. ASSUME NEW n \in SystemSizes, Report(n) PROVE Next
    BY <2>1, <2>4 DEF Report, Next, GapReported
  <2>5. ASSUME NEW passed \in BOOLEAN, NEW n \in SystemSizes, Judge(passed, n) PROVE Next
    BY <2>1, <2>5 DEF Judge, Next, SimplifyJudged
  <2>6. ASSUME NEW said \in Sayings, NEW grade \in Grades, NEW flagged \in BOOLEAN,
               Analyze(said, grade, flagged)
        PROVE  UNCHANGED vars
    BY <2>6 DEF Analyze
  <2> QED
    BY <2>2, <2>3, <2>4, <2>5, <2>6 DEF DiagnosedNext
<1> QED
  BY <1>1, <1>2, DiagnosedInductive, PTL DEF DiagnosedSpec, Spec

-----------------------------------------------------------------------------
(* What the run of the diagnosed loop checks on a small instance *)

\* Where the verdict of a report is "closed" and the kernel's is not, a score is
\* under its threshold, and where one is the two part, whatever was said and
\* graded (GapDetector.analyze, closure_verdict).
THEOREM VerdictsAlwaysPartOnScores == DiagnosedSpec => []VerdictsPartOnScores
<1>1. DiagnosedInv => VerdictsPartOnScores
  <2> SUFFICES ASSUME DiagnosedInv, detection # None, detection.verdict = "closed"
               PROVE  closure_verdict(KernelReport(detection), TRUE) <=>
                        /\ detection.scores.completeness >= MinCompleteness
                        /\ detection.scores.own_words >= MinOwnWords
    BY DEF VerdictsPartOnScores
  <2>1. heard.grade \in Grades
    BY DEF DiagnosedInv, Hearing
  <2>2. detection.gaps = << >> /\ detection.wrong = {}
    BY <2>1, AnalysisSays DEF DiagnosedInv
  <2> DEFINE report == KernelReport(detection)
  <2>3. /\ DOMAIN report.gaps = DOMAIN detection.gaps
        /\ report.scores = detection.scores /\ report.verdict = detection.verdict
        /\ report.wrong = (detection.wrong # {})
    BY DEF KernelReport
  <2>4. DOMAIN report.gaps = {}
    BY <2>2, <2>3, NoGaps
  <2> HIDE DEF report
  <2>5. closure_verdict(report, TRUE) <=>
          /\ detection.scores.completeness >= MinCompleteness
          /\ detection.scores.own_words >= MinOwnWords
    BY <2>2, <2>3, <2>4 DEF closure_verdict
  <2> QED
    BY <2>5 DEF report
<1> QED
  BY <1>1, DiagnosedInductive, PTL

\* A closed loop was explained: with a counterexample, nothing wrong, no shield,
\* and as many of the verified atoms as the threshold asks, for any number of
\* statements, atoms and terms (derive_gaps, completeness_of, closure_verdict).
THEOREM ClosureWasExplained == DiagnosedSpec => []ClosedWasExplained
<1>1. DiagnosedInv => ClosedWasExplained
  <2> SUFFICES ASSUME DiagnosedInv, state.state = "Closed" PROVE ClosedWasExplained
    BY DEF ClosedWasExplained
  <2> DEFINE grade  == heard.grade
             items  == grade.items
             claims == detection.claims
  <2>1. /\ grade \in Grades /\ closure_verdict(KernelReport(detection), TRUE)
        /\ detection = analyze(grade, heard.said, heard.flagged, "Simplify")
    BY DEF DiagnosedInv, Hearing
  <2>2. detection.verdict = "closed" /\ detection.scores.completeness >= MinCompleteness
    BY <2>1 DEF closure_verdict, KernelReport
  <2>3. /\ claims = to_claims(items) /\ claims \in Seq(Claim)
        /\ detection.scores.completeness = completeness_of(claims)
        /\ \A i \in DOMAIN claims : claims[i].status \notin {"wrong", "jargon_shield"}
        /\ grade.counterexample
    BY <2>1, <2>2, AnalysisSays DEF BoundaryAsked
  <2>4. items \in Seq(Statements)
    BY <2>1, GradeAssumption DEF GradeAssumption
  <2>5. MinCompleteness \in Nat
    BY KernelAssumption DEF KernelAssumption
  <2> HIDE DEF grade, items, claims
  <2>6. ASSUME NEW status \in {"wrong", "jargon_shield"} PROVE Heard(status) = {}
    <3> SUFFICES ASSUME NEW j \in DOMAIN items, Usable(items[j]), items[j].status = status
                 PROVE  FALSE
      BY DEF Heard, items, grade
    <3>1. PICK i \in DOMAIN claims : Makes(items[j], claims[i])
      BY <2>3, <2>4, ClaimsOfStatements
    <3>2. claims[i].status = status
      BY <3>1 DEF Makes, Status, ClaimStatus
    <3> QED
      BY <2>3, <3>2
  <2> DEFINE explained == { heard.grade.items[i].atom_ref : i \in Heard("supported") }
  <2>7. explained = Explained(items)
    BY DEF Heard, Explained, items, grade
  <2>8. Covered(claims) = explained \ {None}
    BY <2>3, <2>4, <2>7, CoveredIsExplained
  <2> HIDE DEF explained
  <2>9. Verified \cap Covered(claims) = Verified \cap explained
    <3>1. None \notin Verified
      BY AtomAssumption DEF AtomAssumption
    <3> QED
      BY <2>8, <3>1
  <2>10. Verified # {} =>
           FullScore * Cardinality(Verified \cap explained)
             >= MinCompleteness * Cardinality(Verified)
    <3>1. completeness_of(claims) >= MinCompleteness
      BY <2>2, <2>3
    <3>2. Verified # {} =>
            FullScore * Cardinality(Verified \cap Covered(claims))
              >= MinCompleteness * Cardinality(Verified)
      BY <2>3, <2>5, <3>1, CompletenessIsShare
    <3> QED
      BY <2>9, <3>2
  <2> QED
    BY <2>3, <2>6, <2>10 DEF ClosedWasExplained, explained, grade
<1> QED
  BY <1>1, DiagnosedInductive, PTL

\* What a gap supplies leads to a claim of what the learner said, after at most
\* one prerequisite that nothing said has explained (_supply_for, _missing_edge).
THEOREM SupplyAlwaysLeadsOn == DiagnosedSpec => []SupplyLeadsOn
<1>1. DiagnosedInv => SupplyLeadsOn
  <2> SUFFICES ASSUME DiagnosedInv, detection # None, NEW k \in DOMAIN detection.gaps
               PROVE  LET gap == detection.gaps[k] IN
                      /\ gap.supply # None =>
                           /\ \E i \in DOMAIN detection.claims :
                                detection.claims[i].id = gap.claim_id
                                  /\ detection.claims[i].atom_ref = Last(gap.supply)
                           /\ Len(gap.supply) = 2 =>
                                /\ gap.supply[1] \in ToSet(DependsOn[gap.supply[2]])
                                /\ \A i \in Heard("supported") :
                                     heard.grade.items[i].atom_ref # gap.supply[1]
                      /\ gap.missing_edge # None =>
                           gap.supply = IF gap.missing_edge.from = gap.missing_edge.to
                                        THEN <<gap.missing_edge.to>>
                                        ELSE <<gap.missing_edge.from, gap.missing_edge.to>>
    BY DEF SupplyLeadsOn
  <2> DEFINE gap    == detection.gaps[k]
             claims == detection.claims
             items  == heard.grade.items
  <2>1. PICK st : /\ heard.grade \in Grades
                  /\ detection = analyze(heard.grade, heard.said, heard.flagged, st)
    BY DEF DiagnosedInv, Hearing
  <2>2. claims = to_claims(items) /\ detection.gaps \in Seq(LeadingGaps(claims))
    BY <2>1, AnalysisSays
  <2>3. LeadsOn(gap, claims)
    <3>1. gap \in LeadingGaps(claims)
      BY <2>2
    <3> QED
      BY <3>1 DEF LeadingGaps
  <2>4. items \in Seq(Statements)
    BY <2>1, GradeAssumption DEF GradeAssumption
  <2>5. Covered(claims) = { items[i].atom_ref : i \in Heard("supported") } \ {None}
    BY <2>2, <2>4, CoveredIsExplained DEF Explained, Heard
  <2>6. None \notin atom_index
    BY AtomAssumption DEF AtomAssumption, atom_index
  <2> HIDE DEF gap, claims, items
  <2>7. ASSUME gap.supply # None, Len(gap.supply) = 2
        PROVE  \A i \in Heard("supported") : items[i].atom_ref # gap.supply[1]
    <3>1. gap.supply[1] \in atom_index /\ gap.supply[1] \notin Covered(claims)
      BY <2>3, <2>7 DEF LeadsOn
    <3> QED
      BY <2>5, <2>6, <3>1
  <2> QED
    BY <2>3, <2>7 DEF LeadsOn, gap, claims, items
<1> QED
  BY <1>1, DiagnosedInductive, PTL

=============================================================================
