------------------------ MODULE LearningLedgerProofs ------------------------
(***************************************************************************)
(* What LearningLedger keeps for any number of accounts, requests, keys    *)
(* and days: a graph that is whole, account lines that are earned, on      *)
(* their scale and never ahead of their evidence, and, where no two        *)
(* requests of an account overlapped, exactly what replaying it gives.     *)
(***************************************************************************)
EXTENDS LearningLedger, FiniteSetTheorems, TLAPS

-----------------------------------------------------------------------------
(* Recursion *)

\* Induction over the numbers, for a set of them.
LEMMA NatSetInduction ==
  ASSUME NEW P, 0 \in P, \A n \in Nat : n \in P => n + 1 \in P
  PROVE  Nat \subseteq P
<1> DEFINE T == Nat \ P
           R == {ss \in Nat \X Nat : ss[1] < ss[2]}
<1> SUFFICES ASSUME T # {} PROVE FALSE
  OBVIOUS
<1>1. PICK x \in T : \A y \in T : ~ (<<y, x>> \in R)
  <2>1. IsWellFoundedOn(R, Nat)
    BY NatLessThanWellFounded DEF OpToRel
  <2> HIDE DEF R
  <2> QED
    BY <2>1, WFMin
<1>2. \A y \in T : ~ (y < x)
  BY <1>1
<1>3. x # 0 /\ x - 1 \in Nat
  OBVIOUS
<1> QED
  BY <1>2, <1>3

\* g starts at base and follows next up to n, within S.
Follows(g, n, base, next, S) ==
  /\ g \in [0..n -> S]
  /\ g[0] = base
  /\ \A i \in 1..n : g[i] = next[<<i, g[i - 1]>>]

\* There is such a function for every n.
LEMMA RecursionExists ==
  ASSUME NEW S, NEW base \in S, NEW next \in [Nat \X S -> S], NEW n \in Nat
  PROVE  \E g : Follows(g, n, base, next, S)
<1> DEFINE P == { m \in Nat : \E g : Follows(g, m, base, next, S) }
<1>1. 0 \in P
  <2> DEFINE g == [i \in 0..0 |-> base]
  <2>1. Follows(g, 0, base, next, S)
    BY DEF Follows
  <2> QED
    BY <2>1
<1>2. ASSUME NEW m \in Nat, m \in P PROVE m + 1 \in P
  <2>1. PICK g : Follows(g, m, base, next, S)
    BY <1>2
  <2> DEFINE h == [i \in 0..(m + 1) |-> IF i <= m THEN g[i]
                                        ELSE next[<<m + 1, g[m]>>]]
  <2>2. \A i \in 0..m : h[i] = g[i]
    OBVIOUS
  <2>3. h \in [0..(m + 1) -> S] /\ h[0] = base
    BY <2>1 DEF Follows
  <2>4. ASSUME NEW i \in 1..(m + 1) PROVE h[i] = next[<<i, h[i - 1]>>]
    <3>1. CASE i \in 1..m
      <4>1. h[i] = g[i] /\ h[i - 1] = g[i - 1]
        BY <2>2, <3>1
      <4> QED
        BY <2>1, <3>1, <4>1 DEF Follows
    <3>2. CASE i = m + 1
      <4>1. h[i - 1] = g[m] /\ h[i] = next[<<m + 1, g[m]>>]
        BY <2>2, <3>2
      <4> QED
        BY <3>2, <4>1
    <3> QED
      BY <3>1, <3>2
  <2>5. Follows(h, m + 1, base, next, S)
    <3> HIDE DEF h
    <3> QED
      BY <2>3, <2>4 DEF Follows
  <2> HIDE DEF h
  <2> QED
    BY <2>5
<1>3. Nat \subseteq P
  <2> HIDE DEF P
  <2> QED
    BY <1>1, <1>2, NatSetInduction
<1> QED
  BY <1>3
-----------------------------------------------------------------------------
(* The arithmetic of mastery.py *)

\* A quotient is no more than what is divided.
LEMMA DivWithin ==
  ASSUME NEW a \in Nat, NEW d \in Nat \ {0}
  PROVE  a \div d \in 0..a
OBVIOUS

LEMMA DivBelow ==
  ASSUME NEW a \in Nat, NEW d \in Nat \ {0}, NEW k \in Nat, a <= k * d
  PROVE  a \div d \in 0..k
OBVIOUS

LEMMA ProductBelow ==
  ASSUME NEW x \in Nat, NEW y \in Nat, NEW u \in Nat, NEW v \in Nat, x <= u, y <= v
  PROVE  x * y \in Nat /\ x * y <= u * v
OBVIOUS

\* Evidence weighs between nothing and one unit, at any depth.
LEMMA WeightOnScale ==
  ASSUME NEW kind \in EvidenceKind, NEW depth \in Nat
  PROVE  evidence_weight(kind, depth) \in 0..Unit
<1> USE MasteryAssumption DEF MasteryAssumption
<1> DEFINE reached == Min({depth, WhyDepth})
           bonus   == (3 * Unit * reached) \div WhyDepth
           base    == EVIDENCE_WEIGHTS(kind)
           factor  == depth_factor(depth)
<1>1. reached \in 0..WhyDepth
  <2>1. \E x \in {depth, WhyDepth} : \A y \in {depth, WhyDepth} : x <= y
    OBVIOUS
  <2>2. reached \in {depth, WhyDepth} /\ reached <= WhyDepth
    BY <2>1 DEF Min
  <2> QED
    BY <2>2
<1> HIDE DEF reached
<1>2. bonus \in 0..(3 * Unit)
  <2>1. 3 * Unit * reached \in Nat /\ 3 * Unit * reached <= (3 * Unit) * WhyDepth
    BY <1>1, ProductBelow
  <2> QED
    BY <2>1, DivBelow
<1>3. factor \in 0..Unit
  <2>1. factor = (7 * Unit + bonus) \div 10
    BY DEF depth_factor, reached
  <2> HIDE DEF bonus, factor
  <2> QED
    BY <1>2, <2>1
<1>4. base \in 0..Unit
  BY DEF EVIDENCE_WEIGHTS, EvidenceKind
<1> HIDE DEF factor, base
<1>5. base * factor \in Nat /\ base * factor <= Unit * Unit
  BY <1>3, <1>4, ProductBelow
<1>6. (base * factor) \div Unit \in 0..Unit
  BY <1>5, DivBelow
<1> QED
  BY <1>6 DEF evidence_weight, base, factor

\* Forgetting keeps mastery on its scale, however long it lasts.
LEMMA DecayOnScale ==
  ASSUME NEW m \in 0..Scale, NEW days \in Nat
  PROVE  decay(m, days) \in 0..m
<1> DEFINE S    == 0..m
           next == [p \in Nat \X S |-> p[2] \div Fade]
           F(g) == [d \in 0..days |-> IF d = 0 THEN m ELSE g[d - 1] \div Fade]
           faded == CHOOSE g : g = F(g)
<1>0. m \in Nat /\ m \in S
  BY MasteryAssumption DEF MasteryAssumption
<1>1. next \in [Nat \X S -> S]
  <2>1. ASSUME NEW x \in S PROVE x \div Fade \in S
    <3>1. x \div Fade \in 0..x
      BY <1>0, DivWithin, MasteryAssumption DEF MasteryAssumption
    <3> QED
      BY <1>0, <3>1
  <2> QED
    BY <2>1
<1>2. PICK g : Follows(g, days, m, next, S)
  <2> HIDE DEF S, next
  <2> QED
    BY <1>0, <1>1, RecursionExists
<1>3. g = F(g)
  <2>1. \A d \in 0..days : g[d] \in S
    BY <1>2 DEF Follows
  <2>2. ASSUME NEW d \in 1..days PROVE g[d] = g[d - 1] \div Fade
    <3>1. d - 1 \in 0..days
      OBVIOUS
    <3>2. <<d, g[d - 1]>> \in Nat \X S
      BY <2>1, <3>1
    <3>3. next[<<d, g[d - 1]>>] = g[d - 1] \div Fade
      BY <3>2
    <3> QED
      BY <1>2, <3>3 DEF Follows
  <2> HIDE DEF next, S
  <2> QED
    BY <1>2, <2>2 DEF Follows
<1>4. faded = F(faded)
  <2> HIDE DEF F
  <2> QED
    BY <1>3
<1>5. \A d \in 0..days : faded[d] \in 0..m
  <2> DEFINE P == {d \in Nat : d \in 0..days => faded[d] \in 0..m}
  <2> HIDE DEF faded
  <2>1. 0 \in P
    BY <1>0, <1>4
  <2>2. ASSUME NEW d \in Nat, d \in P PROVE d + 1 \in P
    <3> SUFFICES ASSUME d + 1 \in 0..days PROVE faded[d + 1] \in 0..m
      OBVIOUS
    <3>1. faded[d] \in 0..m
      BY <2>2
    <3>2. faded[d + 1] = faded[d] \div Fade
      BY <1>4
    <3>3. faded[d] \div Fade \in 0..faded[d]
      BY <1>0, <3>1, DivWithin, MasteryAssumption DEF MasteryAssumption
    <3> QED
      BY <1>0, <3>1, <3>2, <3>3
  <2>3. Nat \subseteq P
    <3> HIDE DEF P
    <3> QED
      BY <2>1, <2>2, NatSetInduction
  <2> QED
    BY <2>3
<1>6. decay(m, days) = faded[days]
  BY DEF decay
<1> QED
  BY <1>5, <1>6

\* A gain never takes mastery past its scale, and never lowers it.
LEMMA GainOnScale ==
  ASSUME NEW m \in 0..Scale, NEW weight \in 0..Unit
  PROVE  update_mastery(m, weight) \in m..Scale
<1> USE MasteryAssumption DEF MasteryAssumption
<1> DEFINE left == Scale - m
           rate == Alpha * weight
           all  == Unit * Unit
<1>1. left \in Nat /\ rate \in Nat /\ rate <= all
  BY ProductBelow
<1>2. all \in Nat \ {0}
  OBVIOUS
<1> HIDE DEF left, rate, all
<1>3. rate * left \in Nat /\ rate * left <= all * left
  BY <1>1, <1>2, ProductBelow
<1>4. all * left = left * all
  BY <1>1, <1>2
<1>5. (rate * left) \div all \in 0..left
  BY <1>1, <1>2, <1>3, <1>4, DivBelow
<1> QED
  BY <1>1, <1>5 DEF update_mastery, left, rate, all

\* A line of the ledger, and what a request may load in place of one.
Line == [mastery : 0..Scale, evidence_count : Nat \ {0}, updated_at : 0..MaxDay]

Loadable == Line \cup {new_entry}

\* One piece of evidence as the trail keeps it.
Credit == [weight : 0..Unit, now : 0..MaxDay]

\* Evidence turns whatever was loaded into a line.
LEMMA RecordIsLine ==
  ASSUME NEW entry \in Loadable, NEW weight \in 0..Unit, NEW now \in 0..MaxDay
  PROVE  /\ record(entry, weight, now) \in Line
         /\ record(entry, weight, now).evidence_count = entry.evidence_count + 1
         /\ record(entry, weight, now).updated_at = now
<1> USE MasteryAssumption, LedgerAssumption DEF MasteryAssumption
<1>0. MaxDay \in Nat
  BY DEF LedgerAssumption
<1> DEFINE days == elapsed_days_since(entry.updated_at, now)
           kept == decay(entry.mastery, days)
           new  == update_mastery(kept, weight)
<1>1. /\ entry.mastery \in 0..Scale
      /\ entry.evidence_count \in Nat
      /\ entry.updated_at \in (0..MaxDay) \cup {None}
  BY DEF Loadable, Line, new_entry
<1>2. days \in Nat
  <2>1. CASE entry.updated_at = None
    BY <2>1 DEF elapsed_days_since
  <2>2. CASE entry.updated_at # None
    <3> DEFINE gap == now - entry.updated_at
    <3>1. gap \in Int
      BY <1>0, <1>1, <2>2
    <3> HIDE DEF gap
    <3>2. \E x \in {gap, 0} : \A y \in {gap, 0} : x >= y
      BY <3>1
    <3>3. Max({gap, 0}) \in {gap, 0} /\ Max({gap, 0}) >= 0
      BY <3>2 DEF Max
    <3> QED
      BY <2>2, <3>1, <3>3 DEF elapsed_days_since, gap
  <2> QED
    BY <2>1, <2>2
<1> HIDE DEF days
<1>3. kept \in 0..Scale
  <2>1. decay(entry.mastery, days) \in 0..entry.mastery
    BY <1>1, <1>2, DecayOnScale
  <2> QED
    BY <1>1, <2>1
<1> HIDE DEF kept
<1>4. new \in 0..Scale
  BY <1>3, GainOnScale
<1> HIDE DEF new
<1>5. record(entry, weight, now) =
        [mastery |-> new, evidence_count |-> entry.evidence_count + 1, updated_at |-> now]
  BY DEF record, new, kept, days
<1> QED
  BY <1>1, <1>4, <1>5 DEF Line

-----------------------------------------------------------------------------
(* The inductive invariant *)

\* The graph: ids are handed out once, and what was ever verified is on record.
GraphFits ==
  /\ nextId \in 1..(MaxId + 1) /\ today \in 0..MaxDay
  /\ DOMAIN atoms \subseteq 1..(nextId - 1)
  /\ \A i \in DOMAIN atoms :
       /\ atoms[i] \in [key : Keys, concept : concepts, verified : BOOLEAN]
       /\ atoms[i].verified => i \in everVerified
  /\ GraphIsWhole

\* The lines: each belongs to an atom, and its evidence is on the trail.
LineFits(e) ==
  /\ e \in Entries /\ e[2] \in DOMAIN atoms /\ e[2] \in everVerified
  /\ ledger[e] \in Line
  /\ Len(trail[e]) > 0
  /\ ledger[e].evidence_count <= Len(trail[e])
  /\ ledger[e].updated_at = trail[e][Len(trail[e])].now

\* Where there is evidence about an atom that is there, there is a line: only an
\* atom that goes takes lines with it, and its id does not come back.
TrailFits(e) ==
  trail[e] # << >> => e[2] < nextId /\ (e[2] \in DOMAIN atoms => e \in DOMAIN ledger)

LedgerFits ==
  /\ \A e \in DOMAIN ledger : LineFits(e)
  /\ trail \in [Entries -> Seq(Credit)]
  /\ \A e \in Entries : TrailFits(e)

\* A snapshot holds the atoms there were: those that are still there have kept
\* their key and their concept.
SnapshotFits(table) ==
  /\ DOMAIN table \subseteq 1..(nextId - 1)
  /\ \A i \in DOMAIN table \cap DOMAIN atoms :
       table[i].key = atoms[i].key /\ table[i].concept = atoms[i].concept

BindFits(t) ==
  /\ t.op = "bind" /\ t.payload \in Payloads /\ t.concept = t.payload.concept
  /\ SnapshotFits(t.atoms)

\* What a request has loaded of an entry is the present line, unless evidence was
\* committed since.
LoadFits(t, e) ==
  /\ t.seen[e[2]] \in 0..Len(trail[e])
  /\ e \in DOMAIN t.ledger =>
       /\ t.ledger[e] \in Line
       /\ t.ledger[e].evidence_count <= Len(trail[e])
       /\ e \in DOMAIN ledger /\ Len(trail[e]) = t.seen[e[2]] => t.ledger[e] = ledger[e]

ExplainFits(t) ==
  /\ t.op = "explain" /\ t.account \in Accounts /\ t.evidence \in Evidence
  /\ t.now \in 0..MaxDay
  /\ SnapshotFits(t.atoms)
  /\ \A i \in DOMAIN t.atoms : t.atoms[i].verified => i \in everVerified
  /\ \A i \in Ids : LoadFits(t, <<t.account, i>>)

TxFits(t) == t = Idle \/ BindFits(t) \/ ExplainFits(t)

LedgerInv ==
  /\ GraphFits
  /\ LedgerFits
  /\ tx = [r \in Requests |-> tx[r]]
  /\ \A r \in Requests : TxFits(tx[r])

-----------------------------------------------------------------------------
(* Replaying the evidence *)

\* g holds what replaying each prefix of the evidence gives.
Replayed(evidence, g) ==
  g = [n \in 0..Len(evidence) |->
         IF n = 0 THEN new_entry
         ELSE record(g[n - 1], evidence[n].weight, evidence[n].now)]

\* The function Replay recurses with exists, and every value of it can be loaded.
LEMMA ReplayFollows ==
  ASSUME NEW s \in Seq(Credit)
  PROVE  \E g : /\ Replayed(s, g)
                /\ \A n \in 0..Len(s) : g[n] \in Loadable
                /\ Replay(s) = g[Len(s)]
<1> DEFINE n    == Len(s)
           at(i) == IF i \in 1..n THEN s[i] ELSE [weight |-> 0, now |-> 0]
           next == [p \in Nat \X Loadable |-> record(p[2], at(p[1]).weight, at(p[1]).now)]
           F(g) == [k \in 0..Len(s) |->
                      IF k = 0 THEN new_entry ELSE record(g[k - 1], s[k].weight, s[k].now)]
           after == CHOOSE g : g = F(g)
<1>0. n \in Nat /\ new_entry \in Loadable
  BY DEF Loadable
<1>1. ASSUME NEW i \in Nat PROVE at(i).weight \in 0..Unit /\ at(i).now \in 0..MaxDay
  <2>1. CASE i \in 1..n
    <3>1. s[i] \in Credit
      BY <2>1
    <3> QED
      BY <2>1, <3>1 DEF Credit
  <2>2. CASE i \notin 1..n
    BY <2>2, MasteryAssumption, LedgerAssumption DEF MasteryAssumption, LedgerAssumption
  <2> QED
    BY <2>1, <2>2
<1>2. next \in [Nat \X Loadable -> Loadable]
  <2>1. ASSUME NEW i \in Nat, NEW l \in Loadable
        PROVE  record(l, at(i).weight, at(i).now) \in Loadable
    <3> HIDE DEF at
    <3>1. record(l, at(i).weight, at(i).now) \in Line
      BY <1>1, RecordIsLine
    <3> QED
      BY <3>1 DEF Loadable
  <2> HIDE DEF at
  <2> QED
    BY <2>1
<1>3. PICK g : Follows(g, n, new_entry, next, Loadable)
  <2> HIDE DEF next, n
  <2> QED
    BY <1>0, <1>2, RecursionExists
<1>4. \A k \in 0..n : g[k] \in Loadable
  BY <1>3 DEF Follows
<1>5. g = F(g)
  <2>1. ASSUME NEW k \in 1..n PROVE g[k] = record(g[k - 1], s[k].weight, s[k].now)
    <3>1. k - 1 \in 0..n /\ k \in Nat
      BY <1>0
    <3>2. <<k, g[k - 1]>> \in Nat \X Loadable
      BY <1>4, <3>1
    <3>3. at(k) = s[k]
      OBVIOUS
    <3>4. next[<<k, g[k - 1]>>] = record(g[k - 1], s[k].weight, s[k].now)
      <4> HIDE DEF at
      <4> QED
        BY <3>2, <3>3
    <3> HIDE DEF next
    <3> QED
      BY <1>3, <3>4 DEF Follows
  <2>2. g = [k \in 0..n |-> g[k]] /\ g[0] = new_entry
    BY <1>3 DEF Follows
  <2> QED
    BY <1>0, <2>1, <2>2
<1>6. after = F(after)
  <2> HIDE DEF F
  <2> QED
    BY <1>5
<1>7. \A k \in 0..n : after[k] \in Loadable
  <2> DEFINE P == {k \in Nat : k \in 0..n => after[k] \in Loadable}
  <2> HIDE DEF after
  <2>1. 0 \in P
    BY <1>0, <1>6
  <2>2. ASSUME NEW k \in Nat, k \in P PROVE k + 1 \in P
    <3> SUFFICES ASSUME k + 1 \in 0..n PROVE after[k + 1] \in Loadable
      OBVIOUS
    <3>1. after[k] \in Loadable
      BY <1>0, <2>2
    <3>2. after[k + 1] = record(after[k], s[k + 1].weight, s[k + 1].now)
      BY <1>0, <1>6
    <3>3. s[k + 1].weight \in 0..Unit /\ s[k + 1].now \in 0..MaxDay
      <4>1. s[k + 1] \in Credit
        BY <1>0
      <4> QED
        BY <4>1 DEF Credit
    <3>4. record(after[k], s[k + 1].weight, s[k + 1].now) \in Line
      BY <3>1, <3>3, RecordIsLine
    <3> QED
      BY <3>2, <3>4 DEF Loadable
  <2>3. Nat \subseteq P
    <3> HIDE DEF P
    <3> QED
      BY <2>1, <2>2, NatSetInduction
  <2> QED
    BY <1>0, <2>3
<1>8. Replay(s) = after[Len(s)]
  BY DEF Replay
<1>9. Replayed(s, after)
  <2> HIDE DEF after
  <2> QED
    BY <1>6 DEF Replayed
<1> HIDE DEF after
<1> QED
  BY <1>7, <1>8, <1>9

\* No evidence replays to an account without any.
LEMMA ReplayNothing == Replay(<< >>) = new_entry
<1>1. << >> \in Seq(Credit) /\ Len(<< >>) = 0
  OBVIOUS
<1>2. PICK g : Replayed(<< >>, g) /\ Replay(<< >>) = g[Len(<< >>)]
  BY <1>1, ReplayFollows
<1> QED
  BY <1>1, <1>2 DEF Replayed

\* One piece more replays to what recording it makes of the rest.
LEMMA ReplayOneMore ==
  ASSUME NEW s \in Seq(Credit), NEW c \in Credit
  PROVE  Replay(Append(s, c)) = record(Replay(s), c.weight, c.now)
<1> DEFINE n == Len(s)
           t == Append(s, c)
<1>1. /\ n \in Nat /\ t \in Seq(Credit) /\ Len(t) = n + 1
      /\ \A i \in 1..n : t[i] = s[i]
      /\ t[n + 1] = c
  OBVIOUS
<1>2. PICK g : Replayed(s, g) /\ Replay(s) = g[n]
  BY ReplayFollows
<1>3. PICK h : Replayed(t, h) /\ Replay(t) = h[n + 1]
  BY <1>1, ReplayFollows
<1> HIDE DEF n, t
<1>4. \A i \in 0..n : h[i] = g[i]
  <2> DEFINE P == {i \in Nat : i \in 0..n => h[i] = g[i]}
  <2>1. 0 \in P
    BY <1>1, <1>2, <1>3 DEF Replayed, n
  <2>2. ASSUME NEW i \in Nat, i \in P PROVE i + 1 \in P
    <3> SUFFICES ASSUME i + 1 \in 0..n PROVE h[i + 1] = g[i + 1]
      OBVIOUS
    <3>1. h[i] = g[i]
      BY <1>1, <2>2
    <3>2. h[i + 1] = record(h[i], t[i + 1].weight, t[i + 1].now)
      BY <1>1, <1>3 DEF Replayed
    <3>3. g[i + 1] = record(g[i], s[i + 1].weight, s[i + 1].now)
      BY <1>1, <1>2 DEF Replayed, n
    <3>4. t[i + 1] = s[i + 1]
      BY <1>1
    <3> QED
      BY <3>1, <3>2, <3>3, <3>4
  <2>3. Nat \subseteq P
    <3> HIDE DEF P
    <3> QED
      BY <2>1, <2>2, NatSetInduction
  <2> QED
    BY <1>1, <2>3
<1>5. h[n + 1] = record(h[n], t[n + 1].weight, t[n + 1].now)
  BY <1>1, <1>3 DEF Replayed
<1> QED
  BY <1>1, <1>2, <1>3, <1>4, <1>5 DEF t

-----------------------------------------------------------------------------
(* Ids *)

\* A finite set is put in an order that names each of its elements.
LEMMA OrderNamesAll ==
  ASSUME NEW S, IsFiniteSet(S)
  PROVE  /\ Cardinality(S) \in Nat
         /\ SetToSeq(S) \in [1..Cardinality(S) -> S]
         /\ \A x \in S : \E j \in 1..Cardinality(S) : SetToSeq(S)[j] = x
<1> DEFINE n == Cardinality(S)
           f == SetToSeq(S)
<1>1. n \in Nat /\ ExistsBijection(1..n, S)
  BY FS_CardinalityType
<1>2. PICK g : g \in [1..n -> S] /\ IsInjective(g)
  BY <1>1, Zenon DEF ExistsBijection, Bijection, Injection
<1>3. f \in [1..n -> S] /\ IsInjective(f)
  BY <1>2, Zenon DEF SetToSeq
<1>4. f \in Injection(1..n, S)
  BY <1>3, Zenon DEF Injection
<1> HIDE DEF f
<1>5. Cardinality(1..n) = n
  <2> HIDE DEF n
  <2>1. 1 \in Int /\ n \in Int
    BY <1>1
  <2> QED
    BY <1>1, <2>1, FS_Interval
<1>6. f \in Surjection(1..n, S)
  BY <1>4, <1>5, FS_Injection
<1>7. \A x \in S : \E j \in 1..n : f[j] = x
  BY <1>6, Zenon DEF Surjection
<1> QED
  BY <1>1, <1>3, <1>7 DEF f

\* The keys a bind creates are finitely many.
LEMMA CreatedFinite ==
  ASSUME NEW t, t.payload \in Payloads
  PROVE  IsFiniteSet(Created(t))
<1>1. IsFiniteSet(DOMAIN t.payload.atoms)
  BY LedgerAssumption DEF LedgerAssumption, IsPayload
<1>2. Created(t) \in SUBSET (DOMAIN t.payload.atoms)
  BY DEF Created
<1> QED
  BY <1>1, <1>2, FS_Subset

\* The ids of a bind are new, and no two keys get the same.
LEMMA FreshIdsAreNew ==
  ASSUME NEW t, t.payload \in Payloads, nextId \in Nat
  PROVE  /\ Cardinality(Created(t)) \in Nat
         /\ FreshIds(t) \in [Created(t) -> nextId..(nextId + Cardinality(Created(t)) - 1)]
         /\ \A k, l \in Created(t) : FreshIds(t)[k] = FreshIds(t)[l] => k = l
<1> DEFINE S == Created(t)
           n == Cardinality(S)
           order == SetToSeq(S)
           at(k) == CHOOSE j \in DOMAIN order : order[j] = k
<1>1. /\ n \in Nat
      /\ order \in [1..n -> S]
      /\ \A x \in S : \E j \in 1..n : order[j] = x
  BY CreatedFinite, OrderNamesAll
<1>2. FreshIds(t) = [k \in S |-> nextId + at(k) - 1]
  BY DEF FreshIds
<1> HIDE DEF n, order, S
<1>3. ASSUME NEW k \in S PROVE at(k) \in 1..n /\ order[at(k)] = k
  <2>1. DOMAIN order = 1..n
    BY <1>1
  <2>2. \E j \in DOMAIN order : order[j] = k
    BY <1>1, <2>1
  <2> QED
    BY <2>1, <2>2, Zenon
<1>4. FreshIds(t) \in [S -> nextId..(nextId + n - 1)]
  <2> HIDE DEF at
  <2> QED
    BY <1>1, <1>2, <1>3
<1>5. ASSUME NEW k \in S, NEW l \in S, FreshIds(t)[k] = FreshIds(t)[l]
      PROVE  k = l
  <2> HIDE DEF at
  <2>1. nextId + at(k) - 1 = nextId + at(l) - 1
    BY <1>2, <1>5
  <2>2. at(k) = at(l)
    BY <1>1, <1>3, <2>1
  <2> QED
    BY <1>3, <2>2
<1> QED
  BY <1>1, <1>4, <1>5 DEF n, S

\* What a bind sees of its concept: a key it did not find has its new id, one it
\* found has the id of an atom of the snapshot.
OneToOne(t, fresh, view) ==
  /\ DOMAIN view = Existing(t) \cup Created(t)
  /\ \A k \in Created(t) :
       k \notin Existing(t) /\ view[k] = fresh[k] /\ view[k] >= nextId
  /\ \A k \in Existing(t) :
       /\ view[k] \in AtomsOf(t.atoms, t.concept)
       /\ t.atoms[view[k]].key = k
       /\ view[k] < nextId
  /\ \A k, l \in DOMAIN view : view[k] = view[l] => k = l

LEMMA ViewIsOneToOne ==
  ASSUME NEW t, BindFits(t), GraphFits
  PROVE  OneToOne(t, FreshIds(t), View(t, FreshIds(t)))
<1> DEFINE fresh == FreshIds(t)
           view == View(t, fresh)
           n == Cardinality(Created(t))
           found(k) == CHOOSE i \in AtomsOf(t.atoms, t.concept) : t.atoms[i].key = k
<1>1. /\ n \in Nat /\ nextId \in Nat
      /\ fresh \in [Created(t) -> nextId..(nextId + n - 1)]
      /\ \A k, l \in Created(t) : fresh[k] = fresh[l] => k = l
  BY FreshIdsAreNew, LedgerAssumption DEF LedgerAssumption, BindFits, GraphFits
<1> HIDE DEF fresh, n
<1>2. \A k \in Created(t) : k \notin Existing(t)
  BY DEF Created
<1>3. view = [k \in Existing(t) \cup Created(t) |->
                IF k \in Created(t) THEN fresh[k] ELSE found(k)]
  BY DEF View
<1>4. ASSUME NEW k \in Existing(t)
      PROVE  found(k) \in AtomsOf(t.atoms, t.concept) /\ t.atoms[found(k)].key = k
  <2>1. \E i \in AtomsOf(t.atoms, t.concept) : t.atoms[i].key = k
    BY DEF Existing, KeysOf
  <2> QED
    BY <2>1, Zenon
<1>5. \A i \in AtomsOf(t.atoms, t.concept) : i \in Int /\ i < nextId
  BY <1>1 DEF BindFits, SnapshotFits, AtomsOf
<1> HIDE DEF view, found
<1>6. ASSUME NEW k \in Created(t) PROVE view[k] = fresh[k] /\ view[k] >= nextId /\ view[k] \in Int
  BY <1>1, <1>3
<1>7. ASSUME NEW k \in Existing(t)
      PROVE  /\ view[k] \in AtomsOf(t.atoms, t.concept)
             /\ t.atoms[view[k]].key = k
             /\ view[k] < nextId /\ view[k] \in Int
  BY <1>2, <1>3, <1>4, <1>5
<1>8. DOMAIN view = Existing(t) \cup Created(t)
  BY <1>3
<1>9. ASSUME NEW k \in DOMAIN view, NEW l \in DOMAIN view, view[k] = view[l] PROVE k = l
  <2>1. CASE k \in Existing(t) /\ l \in Existing(t)
    BY <1>7, <1>9, <2>1
  <2>2. CASE k \in Created(t) /\ l \in Created(t)
    BY <1>1, <1>6, <1>9, <2>2
  <2>3. CASE k \in Existing(t) /\ l \in Created(t)
    BY <1>1, <1>6, <1>7, <1>9, <2>3
  <2>4. CASE k \in Created(t) /\ l \in Existing(t)
    BY <1>1, <1>6, <1>7, <1>9, <2>4
  <2> QED
    BY <1>8, <2>1, <2>2, <2>3, <2>4
<1> QED
  <2>1. OneToOne(t, fresh, view)
    BY <1>2, <1>6, <1>7, <1>8, <1>9 DEF OneToOne
  <2> QED
    BY <2>1 DEF view, fresh

-----------------------------------------------------------------------------
(* bind_concept *)

\* Ids are not handed out again, and an atom that stays keeps key and concept.
AtomsPersist ==
  /\ nextId' \in Nat /\ nextId' >= nextId
  /\ everVerified \subseteq everVerified'
  /\ \A i \in DOMAIN atoms' :
       i < nextId => /\ i \in DOMAIN atoms
                     /\ atoms'[i].key = atoms[i].key /\ atoms'[i].concept = atoms[i].concept

\* No evidence is taken back, and without new evidence a line that is there has
\* not changed.
LinesPersist ==
  \A e \in Entries :
    /\ Len(trail'[e]) >= Len(trail[e])
    /\ e \in DOMAIN ledger' /\ Len(trail'[e]) = Len(trail[e]) =>
         e \in DOMAIN ledger /\ ledger'[e] = ledger[e]

\* What a commit of bind_concept leaves of the atoms.
Binds(t, fresh) ==
  /\ concepts' = concepts \cup {t.concept}
  /\ DOMAIN atoms' = (DOMAIN atoms \ Stale(t)) \cup Range(fresh)
  /\ \A k \in Created(t) :
       atoms'[fresh[k]] = [key |-> k, concept |-> t.concept,
                           verified |-> t.payload.atoms[k].verified]
  /\ \A i \in DOMAIN atoms \ Stale(t) :
       /\ i \notin Range(fresh)
       /\ atoms'[i].key = atoms[i].key /\ atoms'[i].concept = atoms[i].concept
       /\ atoms'[i] \in [key : Keys, concept : concepts', verified : BOOLEAN]

\* The commit writes the atoms it created and those it found changed, and these
\* keep the key and the concept they had.
LEMMA BindWrites ==
  ASSUME NEW t, NEW r \in Requests, t = tx[r], BindFits(t), GraphFits, BindCommit(r)
  PROVE  Binds(t, FreshIds(t))
<1> DEFINE fresh == FreshIds(t)
           view  == View(t, fresh)
           gone  == Stale(t)
           named == { view[k] : k \in DOMAIN t.payload.atoms }
           keyOf(i) == CHOOSE k \in DOMAIN view : view[k] = i
           new(i) == [key |-> keyOf(i), concept |-> t.concept,
                      verified |-> t.payload.atoms[keyOf(i)].verified]
           written == named \cap (Range(fresh) \cup Updated(t, view))
           table == [ i \in (DOMAIN atoms \ gone) \cup Range(fresh) |->
                        IF i \in written THEN new(i) ELSE atoms[i] ]
<1>1. atoms' = table /\ concepts' = concepts \cup {t.concept}
  BY Zenon DEF BindCommit
<1>2. /\ DOMAIN view = Existing(t) \cup Created(t)
      /\ \A k \in Created(t) :
           k \notin Existing(t) /\ view[k] = fresh[k] /\ view[k] >= nextId
      /\ \A k \in Existing(t) :
           /\ view[k] \in AtomsOf(t.atoms, t.concept)
           /\ t.atoms[view[k]].key = k
           /\ view[k] < nextId
      /\ \A k, l \in DOMAIN view : view[k] = view[l] => k = l
  <2>1. OneToOne(t, fresh, view)
    BY ViewIsOneToOne
  <2> HIDE DEF fresh, view
  <2> QED
    BY <2>1 DEF OneToOne
<1>3. /\ nextId \in Nat
      /\ fresh \in [Created(t) -> nextId..(nextId + Cardinality(Created(t)) - 1)]
      /\ Cardinality(Created(t)) \in Nat
  BY FreshIdsAreNew, LedgerAssumption DEF LedgerAssumption, BindFits, GraphFits
<1>p. IsPayload(t.payload)
  BY LedgerAssumption DEF LedgerAssumption, BindFits
<1> HIDE DEF fresh, view
<1>4. ASSUME NEW k \in DOMAIN view PROVE keyOf(view[k]) = k
  BY <1>2, <1>4, Zenon
<1> HIDE DEF keyOf
<1>5. ASSUME NEW i \in Range(fresh) PROVE i \notin DOMAIN atoms /\ i >= nextId
  BY <1>3, <1>5 DEF Range, GraphFits
<1>6. ASSUME NEW k \in Created(t)
      PROVE  atoms'[fresh[k]] = [key |-> k, concept |-> t.concept,
                                 verified |-> t.payload.atoms[k].verified]
  <2>1. fresh[k] \in Range(fresh)
    BY <1>3 DEF Range
  <2>2. k \in DOMAIN t.payload.atoms
    BY DEF Created
  <2>3. fresh[k] = view[k]
    BY <1>2
  <2>4. fresh[k] \in written
    BY <2>1, <2>2, <2>3
  <2>5. keyOf(fresh[k]) = k
    BY <1>2, <1>4, <2>3
  <2>6. atoms'[fresh[k]] = new(fresh[k])
    <3> HIDE DEF new, written
    <3> QED
      BY <1>1, <2>1, <2>4
  <2> QED
    BY <2>5, <2>6
<1>7. ASSUME NEW i \in DOMAIN atoms \ gone
      PROVE  /\ i \notin Range(fresh)
             /\ atoms'[i].key = atoms[i].key /\ atoms'[i].concept = atoms[i].concept
             /\ atoms'[i] \in [key : Keys, concept : concepts', verified : BOOLEAN]
  <2>1. i \notin Range(fresh)
    BY <1>5
  <2>2. atoms[i] \in [key : Keys, concept : concepts', verified : BOOLEAN]
    BY <1>1 DEF GraphFits
  <2>3. CASE i \notin written
    <3>1. atoms'[i] = atoms[i]
      <4> HIDE DEF new, written
      <4> QED
        BY <1>1, <2>3
    <3> QED
      BY <2>1, <2>2, <3>1
  <2>4. CASE i \in written
    <3>1. i \in Updated(t, view)
      BY <2>1, <2>4
    <3>2. PICK k \in DOMAIN t.payload.atoms \cap Existing(t) : i = view[k]
      BY <3>1 DEF Updated
    <3>3. keyOf(i) = k
      BY <1>2, <1>4, <3>2
    <3>4. atoms'[i] = new(i)
      <4> HIDE DEF new, written
      <4> QED
        BY <1>1, <2>4
    <3>5. atoms'[i] = [key |-> k, concept |-> t.concept,
                       verified |-> t.payload.atoms[k].verified]
      BY <3>3, <3>4
    <3>6. i \in DOMAIN t.atoms /\ t.atoms[i].key = k /\ t.atoms[i].concept = t.concept
      BY <1>2, <3>2 DEF AtomsOf
    <3>7. atoms[i].key = k /\ atoms[i].concept = t.concept
      BY <3>6 DEF BindFits, SnapshotFits
    <3>8. k \in Keys /\ t.payload.atoms[k].verified \in BOOLEAN
      BY <1>p, <3>2 DEF IsPayload, AtomIn
    <3>9. t.concept \in concepts'
      <4> HIDE DEF table
      <4> QED
        BY <1>1
    <3> HIDE DEF fresh, view, gone, named, keyOf, new, written, table
    <3>10. atoms'[i] \in [key : Keys, concept : concepts', verified : BOOLEAN]
      BY <3>5, <3>8, <3>9
    <3>11. atoms'[i].key = k /\ atoms'[i].concept = t.concept
      BY <3>5
    <3> QED
      BY <2>1, <3>7, <3>10, <3>11
  <2> QED
    BY <2>3, <2>4
<1>8. DOMAIN atoms' = (DOMAIN atoms \ gone) \cup Range(fresh)
  BY <1>1
<1> QED
  BY <1>1, <1>6, <1>7, <1>8 DEF Binds, fresh

\* A bind leaves a graph that is whole.
LEMMA BindKeepsGraph ==
  ASSUME NEW t, NEW r \in Requests, t = tx[r], BindFits(t), GraphFits, BindCommit(r)
  PROVE  GraphFits' /\ AtomsPersist
<1> DEFINE fresh == FreshIds(t)
           view  == View(t, fresh)
           gone  == Stale(t)
           n     == Cardinality(Created(t))
<1>1. /\ KnowsTargets(t) /\ UniqueHolds(t) /\ ReferencesHold(t, view, fresh)
      /\ nextId + n - 1 <= MaxId
      /\ edges' = { e \in SyncEdges(t, view) : e[1] \notin gone /\ e[2] \notin gone }
      /\ nextId' = nextId + n
      /\ everVerified' = everVerified \cup { i \in DOMAIN atoms' : atoms'[i].verified }
      /\ today' = today
  BY Zenon DEF BindCommit
<1>2. /\ DOMAIN view = Existing(t) \cup Created(t)
      /\ \A k \in Created(t) :
           k \notin Existing(t) /\ view[k] = fresh[k] /\ view[k] >= nextId
      /\ \A k \in Existing(t) :
           /\ view[k] \in AtomsOf(t.atoms, t.concept)
           /\ t.atoms[view[k]].key = k
           /\ view[k] < nextId
      /\ \A k, l \in DOMAIN view : view[k] = view[l] => k = l
  <2>1. OneToOne(t, fresh, view)
    BY ViewIsOneToOne
  <2> HIDE DEF fresh, view
  <2> QED
    BY <2>1 DEF OneToOne
<1>3. /\ nextId \in Nat /\ nextId >= 1 /\ n \in Nat
      /\ fresh \in [Created(t) -> nextId..(nextId + n - 1)]
  BY FreshIdsAreNew, LedgerAssumption DEF LedgerAssumption, BindFits, GraphFits
<1>4. Binds(t, fresh)
  BY BindWrites
<1>p. IsPayload(t.payload)
  BY LedgerAssumption DEF LedgerAssumption, BindFits
<1> HIDE DEF fresh, view, n, gone
<1>5. \A i \in Range(fresh) : \E k \in Created(t) : i = fresh[k]
  BY <1>3, Zenon DEF Range
<1>c. \A k \in Created(t) : atoms'[fresh[k]].key = k /\ atoms'[fresh[k]].concept = t.concept
  <2>1. ASSUME NEW k \in Created(t)
        PROVE  atoms'[fresh[k]].key = k /\ atoms'[fresh[k]].concept = t.concept
    <3>1. atoms'[fresh[k]] = [key |-> k, concept |-> t.concept,
                              verified |-> t.payload.atoms[k].verified]
      BY <1>4, Zenon DEF Binds
    <3> QED
      BY <3>1
  <2> QED
    BY <2>1
<1>6. DOMAIN atoms' \subseteq 1..(nextId' - 1) /\ nextId' \in 1..(MaxId + 1) /\ today' \in 0..MaxDay
  <2>1. \A i \in Range(fresh) : i \in 1..(nextId' - 1)
    BY <1>1, <1>3, <1>5
  <2>2. \A i \in DOMAIN atoms : i \in 1..(nextId' - 1)
    BY <1>1, <1>3 DEF GraphFits
  <2>3. DOMAIN atoms' \subseteq 1..(nextId' - 1)
    BY <1>4, <2>1, <2>2 DEF Binds
  <2> QED
    BY <1>1, <1>3, <2>3, LedgerAssumption DEF LedgerAssumption, GraphFits
<1>7. ASSUME NEW i \in DOMAIN atoms'
      PROVE  /\ atoms'[i] \in [key : Keys, concept : concepts', verified : BOOLEAN]
             /\ atoms'[i].verified => i \in everVerified'
  <2>1. atoms'[i] \in [key : Keys, concept : concepts', verified : BOOLEAN]
    <3>1. CASE i \in DOMAIN atoms \ gone
      BY <1>4, <3>1 DEF Binds, gone
    <3>2. CASE i \in Range(fresh)
      <4>1. PICK k \in Created(t) : i = fresh[k]
        BY <1>5, <3>2
      <4>2. k \in Keys /\ t.payload.atoms[k].verified \in BOOLEAN
        BY <1>p DEF IsPayload, AtomIn, Created
      <4>3. t.concept \in concepts'
        BY <1>4 DEF Binds
      <4>4. atoms'[i] = [key |-> k, concept |-> t.concept,
                         verified |-> t.payload.atoms[k].verified]
        BY <1>4, <4>1 DEF Binds
      <4> QED
        BY <4>2, <4>3, <4>4
    <3> QED
      BY <1>4, <3>1, <3>2 DEF Binds, gone
  <2> QED
    BY <1>1, <2>1
<1>8. ASSUME NEW i \in DOMAIN atoms', NEW j \in DOMAIN atoms', atoms'[i].key = atoms'[j].key
      PROVE  i = j
  <2>1. ASSUME NEW k \in Created(t), NEW m \in DOMAIN atoms \ gone
        PROVE  atoms'[fresh[k]].key # atoms'[m].key
    <3>1. atoms[m].key \in KeysOf(atoms, DOMAIN atoms)
      BY DEF KeysOf
    <3>2. atoms[m].key # k
      BY <1>1, <3>1 DEF UniqueHolds
    <3> QED
      BY <1>4, <1>c, <3>2 DEF Binds, gone
  <2>2. CASE i \in Range(fresh) /\ j \in Range(fresh)
    <3>1. PICK k \in Created(t), l \in Created(t) : i = fresh[k] /\ j = fresh[l]
      BY <1>5, <2>2
    <3> QED
      BY <1>8, <1>c, <3>1
  <2>3. CASE i \in DOMAIN atoms \ gone /\ j \in DOMAIN atoms \ gone
    <3>1. atoms[i].key = atoms[j].key
      BY <1>4, <1>8, <2>3 DEF Binds, gone
    <3> QED
      BY <2>3, <3>1 DEF GraphFits, GraphIsWhole
  <2>4. CASE i \in Range(fresh) /\ j \in DOMAIN atoms \ gone
    BY <1>5, <1>8, <2>1, <2>4
  <2>5. CASE i \in DOMAIN atoms \ gone /\ j \in Range(fresh)
    BY <1>5, <1>8, <2>1, <2>5
  <2> QED
    BY <1>4, <2>2, <2>3, <2>4, <2>5 DEF Binds, gone
<1>9. ASSUME NEW e \in edges'
      PROVE  /\ e[1] \in DOMAIN atoms' /\ e[2] \in DOMAIN atoms' /\ e[1] # e[2]
             /\ atoms'[e[1]].concept = atoms'[e[2]].concept
  <2>1. e[1] \notin gone /\ e[2] \notin gone /\ (e \in edges \/ e \in NewEdges(t, view))
    BY <1>1 DEF SyncEdges
  <2>2. CASE e \in edges
    <3>1. e[1] \in DOMAIN atoms \ gone /\ e[2] \in DOMAIN atoms \ gone
      BY <2>1, <2>2 DEF GraphFits, GraphIsWhole
    <3> QED
      BY <1>4, <2>2, <3>1 DEF Binds, gone, GraphFits, GraphIsWhole
  <2>3. CASE e \in NewEdges(t, view)
    <3>1. PICK w \in Wanted(t) : e = <<view[w[1]], view[w[2]]>>
      BY <2>3 DEF NewEdges
    <3>2. PICK k \in DOMAIN t.payload.atoms :
            \E d \in t.payload.atoms[k].depends_on : w = <<k, d>>
      BY <3>1 DEF Wanted
    <3>3. PICK d \in t.payload.atoms[k].depends_on : w = <<k, d>>
      BY <3>2
    <3>4. e[1] = view[k] /\ e[2] = view[d] /\ k # d
      BY <1>p, <3>1, <3>3 DEF IsPayload
    <3>5. k \in DOMAIN view /\ d \in DOMAIN view
      <4>1. d \in Existing(t) \cup DOMAIN t.payload.atoms
        BY <1>1, <3>1, <3>3 DEF KnowsTargets
      <4> QED
        BY <1>2, <4>1 DEF Created
    <3>6. e[1] # e[2]
      BY <1>2, <3>4, <3>5
    <3>7. e[1] \in DOMAIN atoms \cup Range(fresh) /\ e[2] \in DOMAIN atoms \cup Range(fresh)
      BY <1>1, <2>3, Zenon DEF ReferencesHold
    <3>8. e[1] \in DOMAIN atoms' /\ e[2] \in DOMAIN atoms'
      BY <1>4, <2>1, <3>7 DEF Binds, gone
    <3>9. ASSUME NEW x \in DOMAIN view, view[x] \in DOMAIN atoms'
          PROVE  atoms'[view[x]].concept = t.concept
      <4>1. CASE x \in Created(t)
        BY <1>2, <1>c, <4>1
      <4>2. CASE x \in Existing(t)
        <5>1. view[x] \in DOMAIN t.atoms /\ t.atoms[view[x]].concept = t.concept
          BY <1>2, <4>2 DEF AtomsOf
        <5>2. view[x] < nextId /\ view[x] \in Int
          BY <1>2, <1>3, <4>2, <5>1 DEF BindFits, SnapshotFits
        <5>3. view[x] \notin Range(fresh)
          BY <1>3, <1>5, <5>2
        <5>4. view[x] \in DOMAIN atoms \ gone
          BY <1>4, <3>9, <5>3 DEF Binds, gone
        <5>5. atoms[view[x]].concept = t.concept
          BY <5>1, <5>4 DEF BindFits, SnapshotFits
        <5> QED
          BY <1>4, <5>4, <5>5 DEF Binds, gone
      <4> QED
        BY <1>2, <4>1, <4>2
    <3> QED
      BY <3>4, <3>5, <3>6, <3>8, <3>9
  <2> QED
    BY <2>1, <2>2, <2>3
<1>10. GraphIsWhole'
  BY <1>8, <1>9, Zenon DEF GraphIsWhole
<1>11. GraphFits'
  BY <1>6, <1>7, <1>10 DEF GraphFits
<1>12. AtomsPersist
  <2>1. ASSUME NEW i \in DOMAIN atoms', i < nextId
        PROVE  /\ i \in DOMAIN atoms
               /\ atoms'[i].key = atoms[i].key /\ atoms'[i].concept = atoms[i].concept
    <3>1. i \notin Range(fresh)
      BY <1>3, <1>5, <2>1
    <3>2. i \in DOMAIN atoms \ gone
      BY <1>4, <3>1 DEF Binds, gone
    <3> QED
      BY <1>4, <3>2 DEF Binds, gone
  <2>2. nextId' \in Nat /\ nextId' >= nextId /\ everVerified \subseteq everVerified'
    BY <1>1, <1>3
  <2> QED
    BY <2>1, <2>2 DEF AtomsPersist
<1> QED
  BY <1>11, <1>12

\* A bind takes the lines of the atoms that go, and no others.
LEMMA BindKeepsLedger ==
  ASSUME NEW t, NEW r \in Requests, t = tx[r], BindFits(t), GraphFits, LedgerFits,
         BindCommit(r)
  PROVE  LedgerFits' /\ LinesPersist
<1>1. /\ ledger' = WithoutLines(Stale(t))
      /\ trail' = trail
      /\ nextId' = nextId + Cardinality(Created(t))
      /\ everVerified \subseteq everVerified'
  BY Zenon DEF BindCommit
<1>2. Binds(t, FreshIds(t))
  BY BindWrites
<1>3. AtomsPersist
  BY BindKeepsGraph
<1>4. /\ DOMAIN ledger' = { e \in DOMAIN ledger : e[2] \notin Stale(t) }
      /\ \A e \in DOMAIN ledger' : ledger'[e] = ledger[e]
  BY <1>1 DEF WithoutLines, Restrict
<1>5. ASSUME NEW e \in DOMAIN ledger' PROVE LineFits(e)'
  <2>1. e \in DOMAIN ledger /\ e[2] \notin Stale(t) /\ ledger'[e] = ledger[e] /\ LineFits(e)
    BY <1>4 DEF LedgerFits
  <2>2. e[2] \in DOMAIN atoms'
    BY <1>2, <2>1 DEF Binds, LineFits
  <2> QED
    BY <1>1, <2>1, <2>2 DEF LineFits
<1>6. ASSUME NEW e \in Entries PROVE TrailFits(e)'
  <2>1. SUFFICES ASSUME trail[e] # << >>
                 PROVE  e[2] < nextId' /\ (e[2] \in DOMAIN atoms' => e \in DOMAIN ledger')
    BY <1>1 DEF TrailFits
  <2>2. e[2] < nextId /\ (e[2] \in DOMAIN atoms => e \in DOMAIN ledger)
    BY <2>1 DEF LedgerFits, TrailFits
  <2>3. e[2] \in Int /\ nextId \in Nat /\ nextId' \in Nat /\ nextId' >= nextId
    BY <1>3, LedgerAssumption DEF LedgerAssumption, AtomsPersist, Entries, Ids, GraphFits
  <2>4. ASSUME e[2] \in DOMAIN atoms' PROVE e \in DOMAIN ledger'
    <3>1. e[2] \in DOMAIN atoms
      BY <1>3, <2>2, <2>4 DEF AtomsPersist
    <3>2. e[2] \notin Range(FreshIds(t))
      BY <1>2, <3>1, <2>3, <2>2, FreshIdsAreNew DEF BindFits, Range
    <3>3. e[2] \notin Stale(t)
      BY <1>2, <2>4, <3>2 DEF Binds
    <3> QED
      BY <1>4, <2>2, <3>1, <3>3
  <2> QED
    BY <2>2, <2>3, <2>4
<1>7. LedgerFits'
  BY <1>1, <1>5, <1>6 DEF LedgerFits, Entries, Ids
<1>8. LinesPersist
  <2>1. \A e \in Entries : Len(trail[e]) \in Nat
    BY DEF LedgerFits
  <2> QED
    BY <1>1, <1>4, <2>1 DEF LinesPersist
<1> QED
  BY <1>7, <1>8

-----------------------------------------------------------------------------
(* create_explanation *)

\* What a request is about to write: a line, of one piece of evidence more than it
\* loaded, for an entry whose atom was verified.
LEMMA PersistedIsLine ==
  ASSUME NEW t, ExplainFits(t), GraphFits, LedgerFits, NEW i \in Credited(t), RowFits(t, i)
  PROVE  LET e == <<t.account, i>>
         IN  /\ e \in Entries /\ i \in DOMAIN atoms /\ i \in everVerified
             /\ Loaded(t, i) \in Loadable
             /\ [weight |-> Weight(t), now |-> t.now] \in Credit
             /\ Persisted(t, i) \in Line
             /\ Persisted(t, i).evidence_count <= Len(trail[e]) + 1
             /\ Persisted(t, i).updated_at = t.now
<1> DEFINE e   == <<t.account, i>>
           new == record(Loaded(t, i), Weight(t), t.now)
<1>1. i \in DOMAIN t.atoms /\ t.atoms[i].verified /\ i \in DOMAIN atoms /\ i \in everVerified
  BY DEF Credited, Picked, AtomsOf, RowFits, ExplainFits
<1>2. i \in Ids /\ e \in Entries
  BY <1>1, LedgerAssumption DEF LedgerAssumption, ExplainFits, SnapshotFits, GraphFits, Ids, Entries
<1>3. LoadFits(t, e) /\ Len(trail[e]) \in Nat
  BY <1>2 DEF ExplainFits, LedgerFits
<1>4. Weight(t) \in 0..Unit /\ t.now \in 0..MaxDay
  <2>1. t.evidence.kind \in EvidenceKind /\ t.evidence.depth \in Nat
    BY LedgerAssumption DEF LedgerAssumption, ExplainFits, EvidenceIn
  <2> QED
    BY <2>1, WeightOnScale DEF Weight, ExplainFits
<1>5. /\ Loaded(t, i) \in Loadable
      /\ Loaded(t, i).evidence_count \in Nat
      /\ Loaded(t, i).evidence_count <= Len(trail[e])
  <2>1. CASE e \in DOMAIN t.ledger
    <3>1. Loaded(t, i) = t.ledger[e]
      BY <2>1 DEF Loaded
    <3>2. t.ledger[e] \in Line /\ t.ledger[e].evidence_count <= Len(trail[e])
      BY <1>3, <2>1 DEF LoadFits
    <3> QED
      BY <3>1, <3>2 DEF Loadable, Line
  <2>2. CASE e \notin DOMAIN t.ledger
    <3>1. Loaded(t, i) = new_entry
      BY <2>2 DEF Loaded
    <3> QED
      BY <1>3, <3>1 DEF Loadable, new_entry
  <2> QED
    BY <2>1, <2>2
<1>6. /\ new \in Line
      /\ new.evidence_count = Loaded(t, i).evidence_count + 1
      /\ new.updated_at = t.now
  BY <1>4, <1>5, RecordIsLine
<1> HIDE DEF new
<1>7. /\ Persisted(t, i) \in Line
      /\ Persisted(t, i).evidence_count = new.evidence_count
      /\ Persisted(t, i).updated_at = new.updated_at
  <2>1. CASE e \in DOMAIN t.ledger
    <3>1. e \in DOMAIN ledger
      BY <2>1 DEF RowFits
    <3>2. ledger[e] \in Line
      BY <3>1 DEF LedgerFits, LineFits
    <3>3. Persisted(t, i) = Merged(ledger[e], t.ledger[e], new)
      BY <2>1 DEF Persisted, new
    <3> QED
      BY <1>6, <3>2, <3>3 DEF Merged, Line
  <2>2. CASE e \notin DOMAIN t.ledger
    <3>1. Persisted(t, i) = new
      BY <2>2 DEF Persisted, new
    <3> QED
      BY <1>6, <3>1
  <2> QED
    BY <2>1, <2>2
<1>8. [weight |-> Weight(t), now |-> t.now] \in Credit
  BY <1>4 DEF Credit
<1>9. Persisted(t, i).evidence_count <= Len(trail[e]) + 1
  BY <1>3, <1>5, <1>6, <1>7
<1> QED
  BY <1>1, <1>2, <1>5, <1>6, <1>7, <1>8, <1>9

\* What a commit of create_explanation writes, entry by entry.
Explains(t) ==
  LET rows == { <<t.account, i>> : i \in Credited(t) }
  IN  /\ \A i \in Credited(t) : RowFits(t, i)
      /\ DOMAIN ledger' = DOMAIN ledger \cup rows
      /\ \A e \in rows : ledger'[e] = Persisted(t, e[2])
      /\ \A e \in DOMAIN ledger \ rows : ledger'[e] = ledger[e]
      /\ trail' = [ e \in Entries |->
                     IF e \in rows
                     THEN Append(trail[e], [weight |-> Weight(t), now |-> t.now])
                     ELSE trail[e] ]
      /\ overlapped' = overlapped \cup { e \in rows : Len(trail[e]) > t.seen[e[2]] }
      /\ UNCHANGED <<concepts, atoms, edges, nextId, today, everVerified>>

LEMMA ExplainWrites ==
  ASSUME NEW t, NEW r \in Requests, t = tx[r], ExplainCommit(r)
  PROVE  Explains(t)
<1> DEFINE rows == { <<t.account, i>> : i \in Credited(t) }
<1>1. /\ \A i \in Credited(t) : RowFits(t, i)
      /\ ledger' = [ e \in DOMAIN ledger \cup rows |->
                      IF e \in rows THEN Persisted(t, e[2]) ELSE ledger[e] ]
      /\ trail' = [ e \in Entries |->
                     IF e \in rows
                     THEN Append(trail[e], [weight |-> Weight(t), now |-> t.now])
                     ELSE trail[e] ]
      /\ overlapped' = overlapped \cup { e \in rows : Len(trail[e]) > t.seen[e[2]] }
      /\ UNCHANGED <<concepts, atoms, edges, nextId, today, everVerified>>
  BY Zenon DEF ExplainCommit
<1> HIDE DEF rows
<1>2. /\ DOMAIN ledger' = DOMAIN ledger \cup rows
      /\ \A e \in rows : ledger'[e] = Persisted(t, e[2])
      /\ \A e \in DOMAIN ledger \ rows : ledger'[e] = ledger[e]
  BY <1>1
<1> QED
  BY <1>1, <1>2, Zenon DEF Explains, rows

\* Evidence leaves lines that are earned, and takes nothing back.
LEMMA ExplainKeepsLedger ==
  ASSUME NEW t, ExplainFits(t), GraphFits, LedgerFits, Explains(t)
  PROVE  LedgerFits' /\ LinesPersist
<1> DEFINE rows == { <<t.account, i>> : i \in Credited(t) }
           c == [weight |-> Weight(t), now |-> t.now]
<1>1. /\ \A i \in Credited(t) : RowFits(t, i)
      /\ DOMAIN ledger' = DOMAIN ledger \cup rows
      /\ \A e \in rows : ledger'[e] = Persisted(t, e[2])
      /\ \A e \in DOMAIN ledger \ rows : ledger'[e] = ledger[e]
      /\ trail' = [ e \in Entries |-> IF e \in rows THEN Append(trail[e], c) ELSE trail[e] ]
      /\ UNCHANGED <<concepts, atoms, edges, nextId, today, everVerified>>
  BY DEF Explains
<1>2. ASSUME NEW e \in rows
      PROVE  /\ e \in Entries /\ e[2] \in DOMAIN atoms /\ e[2] \in everVerified
             /\ c \in Credit
             /\ ledger'[e] \in Line
             /\ ledger'[e].evidence_count <= Len(trail[e]) + 1
             /\ ledger'[e].updated_at = t.now
  <2>1. PICK i \in Credited(t) : e = <<t.account, i>>
    OBVIOUS
  <2>2. ledger'[e] = Persisted(t, i) /\ e[2] = i /\ RowFits(t, i)
    BY <1>1, <2>1
  <2> QED
    BY <2>1, <2>2, PersistedIsLine
<1>3. ASSUME NEW e \in Entries
      PROVE  /\ Len(trail[e]) \in Nat /\ trail[e] \in Seq(Credit)
             /\ e \notin rows => trail'[e] = trail[e]
             /\ e \in rows => /\ trail'[e] \in Seq(Credit) /\ trail'[e] # << >>
                              /\ Len(trail'[e]) = Len(trail[e]) + 1
                              /\ trail'[e][Len(trail'[e])].now = t.now
  <2>1. trail[e] \in Seq(Credit)
    BY DEF LedgerFits
  <2>2. CASE e \in rows
    <3>1. c \in Credit /\ c.now = t.now
      BY <1>2, <2>2
    <3>2. trail'[e] = Append(trail[e], c)
      <4> HIDE DEF rows, c
      <4> QED
        BY <1>1, <2>2
    <3> HIDE DEF c, rows
    <3> QED
      BY <2>1, <2>2, <3>1, <3>2
  <2>3. CASE e \notin rows
    <3> HIDE DEF c, rows
    <3> QED
      BY <1>1, <2>1, <2>3
  <2> QED
    BY <2>2, <2>3
<1> HIDE DEF rows, c
<1>4. ASSUME NEW e \in DOMAIN ledger' PROVE LineFits(e)'
  <2>1. CASE e \in rows
    BY <1>1, <1>2, <1>3, <2>1 DEF LineFits, Entries, Ids
  <2>2. CASE e \in DOMAIN ledger \ rows
    <3>1. LineFits(e)
      BY <2>2 DEF LedgerFits
    <3>2. e \in Entries /\ trail'[e] = trail[e] /\ ledger'[e] = ledger[e]
      BY <1>1, <1>3, <2>2, <3>1 DEF LineFits
    <3> QED
      BY <1>1, <3>1, <3>2 DEF LineFits, Entries, Ids
  <2> QED
    BY <1>1, <2>1, <2>2
<1>5. ASSUME NEW e \in Entries PROVE TrailFits(e)'
  <2>1. CASE e \in rows
    <3>1. e[2] < nextId
      BY <1>2, <2>1, LedgerAssumption DEF LedgerAssumption, GraphFits
    <3> QED
      BY <1>1, <2>1, <3>1 DEF TrailFits
  <2>2. CASE e \notin rows
    BY <1>1, <1>3, <2>2 DEF LedgerFits, TrailFits
  <2> QED
    BY <2>1, <2>2
<1>6. trail' \in [Entries -> Seq(Credit)]
  <2>1. \A e \in Entries : trail'[e] \in Seq(Credit)
    BY <1>3
  <2> QED
    BY <1>1, <2>1
<1>7. LedgerFits'
  BY <1>4, <1>5, <1>6 DEF LedgerFits, Entries, Ids
<1>8. LinesPersist
  BY <1>1, <1>3 DEF LinesPersist
<1> QED
  BY <1>7, <1>8

-----------------------------------------------------------------------------
(* The transactions *)

\* What a request carries stays fit while others write.
LEMMA TxStaysFit ==
  ASSUME NEW t, TxFits(t), GraphFits, LedgerFits, LedgerFits', AtomsPersist, LinesPersist
  PROVE  TxFits(t)'
<1>1. nextId \in Nat /\ nextId' \in Nat /\ nextId' >= nextId
  BY LedgerAssumption DEF LedgerAssumption, GraphFits, AtomsPersist
<1>2. ASSUME NEW table, SnapshotFits(table) PROVE SnapshotFits(table)'
  <2>1. DOMAIN table \subseteq 1..(nextId' - 1)
    BY <1>1, <1>2 DEF SnapshotFits
  <2>2. ASSUME NEW i \in DOMAIN table \cap DOMAIN atoms'
        PROVE  table[i].key = atoms'[i].key /\ table[i].concept = atoms'[i].concept
    <3>1. i < nextId
      BY <1>1, <1>2 DEF SnapshotFits
    <3> QED
      BY <1>2, <3>1 DEF SnapshotFits, AtomsPersist
  <2> QED
    BY <2>1, <2>2 DEF SnapshotFits
<1>3. CASE t = Idle
  BY <1>3 DEF TxFits
<1>4. CASE BindFits(t)
  BY <1>2, <1>4 DEF BindFits, TxFits
<1>5. CASE ExplainFits(t)
  <2>1. ASSUME NEW i \in Ids PROVE LoadFits(t, <<t.account, i>>)'
    <3> DEFINE e == <<t.account, i>>
    <3>1. e \in Entries /\ LoadFits(t, e) /\ e[2] = i
      BY <1>5 DEF ExplainFits, Entries
    <3>2. /\ Len(trail[e]) \in Nat /\ Len(trail'[e]) \in Nat
          /\ Len(trail'[e]) >= Len(trail[e])
          /\ e \in DOMAIN ledger' /\ Len(trail'[e]) = Len(trail[e]) =>
               e \in DOMAIN ledger /\ ledger'[e] = ledger[e]
      BY <3>1 DEF LinesPersist, LedgerFits, Entries, Ids
    <3> HIDE DEF e
    <3>3. t.seen[e[2]] \in 0..Len(trail'[e])
      BY <3>1, <3>2 DEF LoadFits
    <3>4. ASSUME e \in DOMAIN t.ledger
          PROVE  /\ t.ledger[e] \in Line
                 /\ t.ledger[e].evidence_count <= Len(trail'[e])
                 /\ e \in DOMAIN ledger' /\ Len(trail'[e]) = t.seen[e[2]] =>
                      t.ledger[e] = ledger'[e]
      <4>1. /\ t.ledger[e] \in Line /\ t.ledger[e].evidence_count <= Len(trail[e])
            /\ t.seen[e[2]] \in 0..Len(trail[e])
            /\ e \in DOMAIN ledger /\ Len(trail[e]) = t.seen[e[2]] => t.ledger[e] = ledger[e]
        BY <3>1, <3>4 DEF LoadFits
      <4>2. t.ledger[e].evidence_count \in Nat
        BY <4>1 DEF Line
      <4>3. t.ledger[e].evidence_count <= Len(trail'[e])
        BY <3>2, <4>1, <4>2
      <4>4. Len(trail'[e]) = t.seen[e[2]] => Len(trail[e]) = t.seen[e[2]]
        BY <3>2, <4>1
      <4> QED
        BY <3>2, <4>1, <4>3, <4>4
    <3> QED
      BY <3>3, <3>4 DEF LoadFits, e
  <2>2. \A i \in DOMAIN t.atoms : t.atoms[i].verified => i \in everVerified'
    BY <1>5 DEF ExplainFits, AtomsPersist
  <2>3. ExplainFits(t)'
    BY <1>2, <1>5, <2>1, <2>2 DEF ExplainFits
  <2> QED
    BY <2>3 DEF TxFits
<1> QED
  BY <1>3, <1>4, <1>5 DEF TxFits

\* A step that leaves the store as it is keeps everything about it.
LEMMA SameStore ==
  ASSUME LedgerInv, UNCHANGED <<store, history>>, today' \in 0..MaxDay
  PROVE  GraphFits' /\ LedgerFits' /\ AtomsPersist /\ LinesPersist
<1>1. GraphFits'
  BY DEF LedgerInv, store, history, GraphFits, GraphIsWhole
<1>2. LedgerFits'
  <2>1. UNCHANGED <<atoms, ledger, trail, everVerified, nextId>>
    BY DEF store, history
  <2>2. \A e \in DOMAIN ledger : LineFits(e)'
    BY <2>1 DEF LedgerInv, LedgerFits, LineFits, Entries, Ids
  <2>3. \A e \in Entries : TrailFits(e)'
    BY <2>1 DEF LedgerInv, LedgerFits, TrailFits
  <2> QED
    BY <2>1, <2>2, <2>3 DEF LedgerInv, LedgerFits, Entries, Ids
<1>3. AtomsPersist
  BY LedgerAssumption DEF LedgerInv, store, history, LedgerAssumption, AtomsPersist, GraphFits
<1>4. LinesPersist
  <2>1. \A e \in Entries : Len(trail[e]) \in Nat
    BY DEF LedgerInv, LedgerFits
  <2> QED
    BY <2>1 DEF store, history, LinesPersist
<1> QED
  BY <1>1, <1>2, <1>3, <1>4

\* One request starts or ends while the others go on.
LEMMA TxMoves ==
  ASSUME LedgerInv, NEW r \in Requests, NEW u, tx' = [tx EXCEPT ![r] = u], TxFits(u)',
         GraphFits', LedgerFits', AtomsPersist, LinesPersist
  PROVE  LedgerInv'
<1>1. tx = [q \in Requests |-> tx[q]]
  BY DEF LedgerInv
<1>2. tx'[r] = u /\ \A q \in Requests \ {r} : tx'[q] = tx[q]
  BY <1>1
<1>3. tx' = [q \in Requests |-> tx'[q]]
  BY <1>1
<1>4. ASSUME NEW q \in Requests PROVE TxFits(tx[q])'
  <2>1. CASE q = r
    <3>1. PICK v : v = u /\ TxFits(v)'
      OBVIOUS
    <3>2. tx'[q] = v
      BY <1>2, <2>1, <3>1
    <3> QED
      BY <3>1, <3>2
  <2>2. CASE q # r
    <3>1. PICK v : v = tx[q]
      OBVIOUS
    <3>2. TxFits(v)
      BY <3>1 DEF LedgerInv
    <3>3. TxFits(v)'
      BY <3>2, TxStaysFit DEF LedgerInv
    <3>4. tx'[q] = v
      BY <1>2, <2>2, <3>1
    <3> QED
      BY <3>3, <3>4
  <2> QED
    BY <2>1, <2>2
<1> QED
  BY <1>3, <1>4 DEF LedgerInv

\* What is read at the beginning of a bind fits.
LEMMA BindBeginFits ==
  ASSUME LedgerInv, NEW r \in Requests, NEW p \in Payloads, BindBegin(r, p)
  PROVE  LedgerInv'
<1>1. PICK u : u = [op |-> "bind", concept |-> p.concept, payload |-> p,
                    concepts |-> concepts, atoms |-> atoms, edges |-> edges]
  OBVIOUS
<1>2. tx' = [tx EXCEPT ![r] = u] /\ UNCHANGED <<store, today, history>>
  BY <1>1 DEF BindBegin
<1>3. GraphFits' /\ LedgerFits' /\ AtomsPersist /\ LinesPersist
  BY <1>2, SameStore DEF LedgerInv, GraphFits
<1>4. BindFits(u)
  BY <1>1 DEF LedgerInv, GraphFits, BindFits, SnapshotFits
<1>5. TxFits(u)
  BY <1>4 DEF TxFits
<1>6. TxFits(u)'
  BY <1>3, <1>5, TxStaysFit DEF LedgerInv
<1> QED
  BY <1>2, <1>3, <1>6, TxMoves

\* What is read at the beginning of an explanation fits.
LEMMA ExplainBeginFits ==
  ASSUME LedgerInv, NEW r \in Requests, NEW a \in Accounts, NEW c \in Concepts,
         NEW ev \in Evidence, ExplainBegin(r, a, c, ev)
  PROVE  LedgerInv'
<1>1. PICK u : u = [op |-> "explain", account |-> a, concept |-> c, evidence |-> ev,
                    now |-> today, atoms |-> atoms, ledger |-> ledger,
                    seen |-> [i \in Ids |-> Len(trail[<<a, i>>])]]
  OBVIOUS
<1>2. tx' = [tx EXCEPT ![r] = u] /\ UNCHANGED <<store, today, history>>
  BY <1>1 DEF ExplainBegin
<1>3. GraphFits' /\ LedgerFits' /\ AtomsPersist /\ LinesPersist
  BY <1>2, SameStore DEF LedgerInv, GraphFits
<1>4. ASSUME NEW i \in Ids PROVE LoadFits(u, <<a, i>>)
  <2> DEFINE e == <<a, i>>
  <2>1. e \in Entries /\ Len(trail[e]) \in Nat
    BY DEF LedgerInv, LedgerFits, Entries
  <2>2. u.ledger = ledger /\ u.seen[e[2]] = Len(trail[e])
    BY <1>1
  <2>3. e \in DOMAIN ledger =>
          ledger[e] \in Line /\ ledger[e].evidence_count <= Len(trail[e])
    BY DEF LedgerInv, LedgerFits, LineFits
  <2> HIDE DEF e
  <2>4. LoadFits(u, e)
    BY <2>1, <2>2, <2>3 DEF LoadFits
  <2> QED
    BY <2>4 DEF e
<1>5. SnapshotFits(u.atoms)
  BY <1>1 DEF LedgerInv, GraphFits, SnapshotFits
<1>6. /\ u.op = "explain" /\ u.account = a /\ u.evidence \in Evidence /\ u.now \in 0..MaxDay
      /\ \A i \in DOMAIN u.atoms : u.atoms[i].verified => i \in everVerified
  BY <1>1 DEF LedgerInv, GraphFits
<1>7. TxFits(u)
  BY <1>4, <1>5, <1>6 DEF TxFits, ExplainFits
<1>8. TxFits(u)'
  BY <1>3, <1>7, TxStaysFit DEF LedgerInv
<1> QED
  BY <1>2, <1>3, <1>8, TxMoves

\* A request that ends leaves nothing behind.
LEMMA TxEnds ==
  ASSUME LedgerInv, NEW r \in Requests, tx' = [tx EXCEPT ![r] = Idle],
         GraphFits', LedgerFits', AtomsPersist, LinesPersist
  PROVE  LedgerInv'
<1>1. PICK u : u = Idle
  OBVIOUS
<1>2. TxFits(u)'
  BY <1>1 DEF TxFits
<1>3. tx' = [tx EXCEPT ![r] = u]
  BY <1>1
<1> QED
  BY <1>2, <1>3, TxMoves

\* The record a request carries tells which operation it is in.
LEMMA OpsDiffer ==
  ASSUME NEW t, TxFits(t)
  PROVE  /\ t.op = "bind" => BindFits(t)
         /\ t.op = "explain" => ExplainFits(t)
BY LedgerAssumption DEF LedgerAssumption, TxFits, Idle, BindFits, ExplainFits

LEMMA BindCommitFits ==
  ASSUME LedgerInv, NEW r \in Requests, BindCommit(r)
  PROVE  LedgerInv'
<1>1. PICK t : t = tx[r]
  OBVIOUS
<1>2. t.op = "bind" /\ tx' = [tx EXCEPT ![r] = Idle]
  BY <1>1, Zenon DEF BindCommit
<1>3. BindFits(t)
  BY <1>1, <1>2, OpsDiffer DEF LedgerInv
<1>4. GraphFits' /\ AtomsPersist
  BY <1>1, <1>3, BindKeepsGraph DEF LedgerInv
<1>5. LedgerFits' /\ LinesPersist
  BY <1>1, <1>3, BindKeepsLedger DEF LedgerInv
<1> QED
  BY <1>2, <1>4, <1>5, TxEnds

LEMMA ExplainCommitFits ==
  ASSUME LedgerInv, NEW r \in Requests, ExplainCommit(r)
  PROVE  LedgerInv'
<1>1. PICK t : t = tx[r]
  OBVIOUS
<1>2. t.op = "explain" /\ tx' = [tx EXCEPT ![r] = Idle]
  BY <1>1, Zenon DEF ExplainCommit
<1>3. ExplainFits(t) /\ Explains(t)
  BY <1>1, <1>2, OpsDiffer, ExplainWrites DEF LedgerInv
<1>4. UNCHANGED <<concepts, atoms, edges, nextId, today, everVerified>>
  BY <1>3 DEF Explains
<1>5. GraphFits' /\ AtomsPersist
  BY <1>4, LedgerAssumption
  DEF LedgerInv, LedgerAssumption, GraphFits, GraphIsWhole, AtomsPersist
<1>6. LedgerFits' /\ LinesPersist
  BY <1>3, ExplainKeepsLedger DEF LedgerInv
<1> QED
  BY <1>2, <1>5, <1>6, TxEnds

LEMMA RollbackFits ==
  ASSUME LedgerInv, NEW r \in Requests, Rollback(r)
  PROVE  LedgerInv'
<1>1. tx' = [tx EXCEPT ![r] = Idle] /\ UNCHANGED <<store, today, history>>
  BY DEF Rollback
<1>2. GraphFits' /\ LedgerFits' /\ AtomsPersist /\ LinesPersist
  BY <1>1, SameStore DEF LedgerInv, GraphFits
<1> QED
  BY <1>1, <1>2, TxEnds

\* A step that changes no transaction and no row.
LEMMA OthersFit ==
  ASSUME LedgerInv, ClockMoves \/ UNCHANGED vars
  PROVE  LedgerInv'
<1>1. UNCHANGED <<store, tx, history>> /\ today' \in 0..MaxDay
  BY DEF ClockMoves, vars, LedgerInv, GraphFits
<1>2. GraphFits' /\ LedgerFits' /\ AtomsPersist /\ LinesPersist
  BY <1>1, SameStore
<1>3. ASSUME NEW q \in Requests PROVE TxFits(tx[q])'
  <2>1. PICK v : v = tx[q]
    OBVIOUS
  <2>2. TxFits(v)'
    BY <1>2, <2>1, TxStaysFit DEF LedgerInv
  <2>3. tx'[q] = v
    BY <1>1, <2>1
  <2> QED
    BY <2>2, <2>3
<1>4. tx' = [q \in Requests |-> tx'[q]]
  BY <1>1 DEF LedgerInv
<1> QED
  BY <1>2, <1>3, <1>4 DEF LedgerInv

LEMMA InitFits == Init => LedgerInv
<1> SUFFICES ASSUME Init PROVE LedgerInv
  OBVIOUS
<1>1. GraphFits
  BY LedgerAssumption DEF Init, LedgerAssumption, GraphFits, GraphIsWhole
<1>2. LedgerFits
  <2>1. << >> \in Seq(Credit) /\ DOMAIN ledger = {}
    BY DEF Init
  <2> QED
    BY <2>1 DEF Init, LedgerFits, TrailFits
<1>3. \A r \in Requests : TxFits(tx[r])
  BY DEF Init, TxFits
<1> QED
  BY <1>1, <1>2, <1>3 DEF Init, LedgerInv

-----------------------------------------------------------------------------
(* Theorems *)

\* Whatever binds and explanations overlap, fail and commit, and whatever the
\* clock does, graph, ledger and trail fit together, and with what every
\* transaction under way has read (bind_concept, create_explanation).
THEOREM LedgerInductive == Spec => []LedgerInv
<1>1. LedgerInv /\ [Next]_vars => LedgerInv'
  <2> SUFFICES ASSUME LedgerInv, [Next]_vars PROVE LedgerInv'
    OBVIOUS
  <2>1. CASE UNCHANGED vars
    BY <2>1, OthersFit
  <2>2. CASE ClockMoves
    BY <2>2, OthersFit
  <2>3. ASSUME NEW r \in Requests, NEW p \in Payloads, BindBegin(r, p) PROVE LedgerInv'
    BY <2>3, BindBeginFits
  <2>4. ASSUME NEW r \in Requests, BindCommit(r) PROVE LedgerInv'
    BY <2>4, BindCommitFits
  <2>5. ASSUME NEW r \in Requests, NEW a \in Accounts, NEW c \in Concepts,
               NEW ev \in Evidence, ExplainBegin(r, a, c, ev)
        PROVE  LedgerInv'
    BY <2>5, ExplainBeginFits
  <2>6. ASSUME NEW r \in Requests, ExplainCommit(r) PROVE LedgerInv'
    BY <2>6, ExplainCommitFits
  <2>7. ASSUME NEW r \in Requests, Rollback(r) PROVE LedgerInv'
    BY <2>7, RollbackFits
  <2> QED
    BY <2>1, <2>2, <2>3, <2>4, <2>5, <2>6, <2>7, Zenon DEF Next
<1> QED
  BY InitFits, <1>1, PTL DEF Spec

\* Mastery stays on its scale, and every row keeps its type, for every rate, every
\* weight and every clock (mastery.py: record, decay, update_mastery).
THEOREM LedgerTypeCorrect == Spec => []TypeOK
<1>1. LedgerInv => TypeOK
  <2> SUFFICES ASSUME LedgerInv PROVE TypeOK
    OBVIOUS
  <2>1. ASSUME NEW e \in DOMAIN ledger
        PROVE  /\ e \in Entries
               /\ ledger[e].mastery \in 0..Scale
               /\ ledger[e].evidence_count \in Nat \ {0}
               /\ ledger[e].updated_at \in 0..MaxDay
    BY DEF LedgerInv, LedgerFits, LineFits, Line
  <2> QED
    BY <2>1 DEF TypeOK, LedgerInv, GraphFits
<1> QED
  BY <1>1, LedgerInductive, PTL

\* However binds and explanations interleave, no two atoms share a key and no
\* edge dangles, leaves its concept or joins an atom to itself.
THEOREM GraphAlwaysWhole == Spec => []GraphIsWhole
<1>1. LedgerInv => GraphIsWhole
  BY DEF LedgerInv, GraphFits
<1> QED
  BY <1>1, LedgerInductive, PTL

\* No line outlives its atom or credits one that was never verified, though the
\* atom may be deleted, unverified or created again while evidence is on its way.
THEOREM LinesAlwaysEarned == Spec => []LinesAreEarned
<1>1. LedgerInv => LinesAreEarned
  BY DEF LedgerInv, LedgerFits, LineFits, LinesAreEarned
<1> QED
  BY <1>1, LedgerInductive, PTL

\* Even where requests of an account overlap, no line claims evidence that was
\* never committed (record_evidence, _persist_update).
THEOREM EvidenceNeverInvented == Spec => []NoEvidenceInvented
<1>1. LedgerInv => NoEvidenceInvented
  BY DEF LedgerInv, LedgerFits, LineFits, NoEvidenceInvented
<1> QED
  BY <1>1, LedgerInductive, PTL

-----------------------------------------------------------------------------
(* The audit *)

\* A commit that met no other keeps the line what its evidence gives: what it
\* loaded is the line that is there, so the columns it leaves alone are right too.
LEMMA ExplainIsAudited ==
  ASSUME NEW t, ExplainFits(t), GraphFits, LedgerFits, Explains(t), LineIsItsEvidence
  PROVE  LineIsItsEvidence'
<1> DEFINE rows == { <<t.account, i>> : i \in Credited(t) }
           c == [weight |-> Weight(t), now |-> t.now]
<1>1. /\ \A i \in Credited(t) : RowFits(t, i)
      /\ DOMAIN ledger' = DOMAIN ledger \cup rows
      /\ \A e \in rows : ledger'[e] = Persisted(t, e[2])
      /\ \A e \in DOMAIN ledger \ rows : ledger'[e] = ledger[e]
      /\ trail' = [ e \in Entries |-> IF e \in rows THEN Append(trail[e], c) ELSE trail[e] ]
      /\ overlapped' = overlapped \cup { e \in rows : Len(trail[e]) > t.seen[e[2]] }
  BY DEF Explains
<1> SUFFICES ASSUME NEW e \in DOMAIN ledger', e \notin overlapped'
             PROVE  ledger'[e] = Replay(trail'[e])
  BY DEF LineIsItsEvidence
<1>2. CASE e \in rows
  <2>1. PICK i \in Credited(t) : e = <<t.account, i>>
    BY <1>2
  <2>2. RowFits(t, i) /\ e[2] = i /\ ledger'[e] = Persisted(t, i)
    BY <1>1, <1>2, <2>1
  <2>3. /\ e \in Entries /\ i \in DOMAIN atoms
        /\ Loaded(t, i) \in Loadable /\ c \in Credit
    BY <2>1, <2>2, PersistedIsLine
  <2>4. trail[e] \in Seq(Credit) /\ trail'[e] = Append(trail[e], c)
    <3> HIDE DEF rows, c
    <3> QED
      BY <1>1, <1>2, <2>3 DEF LedgerFits
  <2>5. Replay(trail'[e]) = record(Replay(trail[e]), Weight(t), t.now)
    <3>1. Replay(Append(trail[e], c)) = record(Replay(trail[e]), c.weight, c.now)
      BY <2>3, <2>4, ReplayOneMore
    <3> QED
      BY <2>4, <3>1
  <2>6. LoadFits(t, e) /\ Len(trail[e]) = t.seen[i]
    <3>1. i \in Ids
      BY <2>1, <2>3 DEF Entries
    <3>2. LoadFits(t, e)
      BY <2>1, <3>1 DEF ExplainFits
    <3>3. ~ (Len(trail[e]) > t.seen[i])
      BY <1>1, <1>2, <2>2
    <3>4. t.seen[i] \in 0..Len(trail[e]) /\ Len(trail[e]) \in Nat
      BY <2>2, <2>4, <3>2 DEF LoadFits
    <3> QED
      BY <3>2, <3>3, <3>4
  <2> DEFINE new == record(Loaded(t, i), Weight(t), t.now)
  <2>7. CASE e \in DOMAIN t.ledger
    <3>1. e \in DOMAIN ledger /\ e \notin overlapped
      BY <1>1, <2>1, <2>2, <2>7 DEF RowFits
    <3>2. t.ledger[e] = ledger[e] /\ t.ledger[e] = Loaded(t, i)
      BY <2>1, <2>2, <2>6, <2>7, <3>1 DEF LoadFits, Loaded
    <3>3. ledger[e] = Replay(trail[e])
      BY <3>1 DEF LineIsItsEvidence
    <3>4. new \in Line
      <4>1. Weight(t) \in 0..Unit /\ t.now \in 0..MaxDay
        BY <2>3 DEF Credit
      <4> QED
        BY <2>3, <4>1, RecordIsLine
    <3>5. Persisted(t, i) = Merged(ledger[e], t.ledger[e], new)
      BY <2>1, <2>7 DEF Persisted
    <3> HIDE DEF new
    <3>6. Merged(ledger[e], t.ledger[e], new) = new
      BY <3>2, <3>4 DEF Merged, Line
    <3> QED
      BY <2>2, <2>5, <3>2, <3>3, <3>5, <3>6 DEF new
  <2>8. CASE e \notin DOMAIN t.ledger
    <3>1. e \notin DOMAIN ledger
      BY <2>1, <2>2, <2>8 DEF RowFits
    <3>2. trail[e] = << >>
      BY <2>2, <2>3, <3>1 DEF LedgerFits, TrailFits
    <3>3. Persisted(t, i) = record(new_entry, Weight(t), t.now)
      BY <2>1, <2>8 DEF Persisted, Loaded
    <3> QED
      BY <2>2, <2>5, <3>2, <3>3, ReplayNothing
  <2> QED
    BY <2>7, <2>8
<1>3. CASE e \in DOMAIN ledger \ rows
  <2>1. e \in Entries /\ e \notin overlapped
    BY <1>1, <1>3 DEF LedgerFits, LineFits
  <2>2. ledger'[e] = ledger[e] /\ trail'[e] = trail[e]
    <3> HIDE DEF rows, c
    <3> QED
      BY <1>1, <1>3, <2>1
  <2> QED
    BY <1>3, <2>1, <2>2 DEF LineIsItsEvidence
<1> QED
  BY <1>1, <1>2, <1>3

\* A step that only takes lines away leaves the others what they were.
LEMMA OthersAreAudited ==
  ASSUME LineIsItsEvidence, UNCHANGED <<trail, overlapped>>,
         \A e \in DOMAIN ledger' : e \in DOMAIN ledger /\ ledger'[e] = ledger[e]
  PROVE  LineIsItsEvidence'
BY DEF LineIsItsEvidence

\* The number, the count and the time of a line are what replaying the committed
\* evidence gives, for any number of accounts and requests, unless two requests
\* of one account overlapped on it (mastery.py: every number can be traced).
THEOREM LinesAlwaysAudited == Spec => []LineIsItsEvidence
<1>1. Init => LineIsItsEvidence
  BY DEF Init, LineIsItsEvidence
<1>2. LedgerInv /\ LineIsItsEvidence /\ [Next]_vars => LineIsItsEvidence'
  <2> SUFFICES ASSUME LedgerInv, LineIsItsEvidence, [Next]_vars PROVE LineIsItsEvidence'
    OBVIOUS
  <2>1. ASSUME NEW r \in Requests, BindCommit(r) PROVE LineIsItsEvidence'
    <3>1. ledger' = WithoutLines(Stale(tx[r])) /\ UNCHANGED <<trail, overlapped>>
      BY <2>1, Zenon DEF BindCommit
    <3>2. \A e \in DOMAIN ledger' : e \in DOMAIN ledger /\ ledger'[e] = ledger[e]
      BY <3>1 DEF WithoutLines, Restrict
    <3> QED
      BY <3>1, <3>2, OthersAreAudited
  <2>2. ASSUME NEW r \in Requests, ExplainCommit(r) PROVE LineIsItsEvidence'
    <3>1. PICK t : t = tx[r]
      OBVIOUS
    <3>2. t.op = "explain"
      BY <2>2, <3>1, Zenon DEF ExplainCommit
    <3>3. ExplainFits(t) /\ Explains(t)
      BY <2>2, <3>1, <3>2, OpsDiffer, ExplainWrites DEF LedgerInv
    <3> QED
      BY <3>3, ExplainIsAudited DEF LedgerInv
  <2>3. ASSUME NEW r \in Requests, NEW p \in Payloads, BindBegin(r, p)
        PROVE  UNCHANGED <<ledger, trail, overlapped>>
    BY <2>3 DEF BindBegin, store, history
  <2>4. ASSUME NEW r \in Requests, NEW a \in Accounts, NEW c \in Concepts,
               NEW ev \in Evidence, ExplainBegin(r, a, c, ev)
        PROVE  UNCHANGED <<ledger, trail, overlapped>>
    BY <2>4 DEF ExplainBegin, store, history
  <2>5. ASSUME NEW r \in Requests, Rollback(r)
        PROVE  UNCHANGED <<ledger, trail, overlapped>>
    BY <2>5 DEF Rollback, store, history
  <2>6. CASE ClockMoves \/ UNCHANGED vars
    BY <2>6 DEF ClockMoves, vars, store, history, LineIsItsEvidence
  <2>7. CASE UNCHANGED <<ledger, trail, overlapped>>
    BY <2>7, OthersAreAudited
  <2> QED
    BY <2>1, <2>2, <2>3, <2>4, <2>5, <2>6, <2>7, Zenon DEF Next
<1> QED
  BY <1>1, <1>2, LedgerInductive, PTL DEF Spec

-----------------------------------------------------------------------------
(* The two pages *)

\* With the one weight the code gives an edge, the graph's page and the ledger's
\* page average the same numbers with the same weights, atoms without a line
\* included (concept_graph, mastery_list).
THEOREM PagesAlwaysAgree ==
  ASSUME EdgeWeight = 1
  PROVE  Spec => []PagesAgree
<1>1. PagesAgree
  <2> SUFFICES ASSUME NEW a \in Accounts, NEW c \in concepts
               PROVE  GraphMastery(a, c) = ListMastery(a, c)
    BY DEF PagesAgree
  <2> DEFINE S == AtomsOf(atoms, c)
             T == (AtomsOf(atoms, c) \cap RowsOf(a)) \cup AtomsOf(atoms, c)
             weight(i) == IF i \in RowsOf(a) /\ \E e \in edges : e[2] = i
                          THEN EdgeWeight ELSE 1
  <2>1. S = T
    OBVIOUS
  <2>2. ASSUME NEW i PROVE atom_weight(i) = weight(i)
    <3>1. {1} \cup { EdgeWeight : e \in { f \in edges : f[2] = i } } = {1}
      OBVIOUS
    <3>2. Max({1}) = 1
      <4>1. \E x \in {1} : \A y \in {1} : x >= y
        OBVIOUS
      <4> QED
        BY <4>1 DEF Max
    <3>3. atom_weight(i) = 1
      BY <3>1, <3>2 DEF atom_weight
    <3> QED
      BY <3>3
  <2>3. [i \in S |-> atom_weight(i)] = [i \in T |-> weight(i)]
    <3> HIDE DEF weight, S, T
    <3> QED
      BY <2>1, <2>2
  <2>4. [i \in S |-> Decayed(a, i)] = [i \in T |-> Decayed(a, i)]
    <3> HIDE DEF S, T
    <3> QED
      BY <2>1
  <2>5. GraphMastery(a, c) =
          concept_mastery([i \in S |-> Decayed(a, i)], [i \in S |-> atom_weight(i)])
    BY DEF GraphMastery
  <2>6. ListMastery(a, c) =
          concept_mastery([i \in T |-> Decayed(a, i)], [i \in T |-> weight(i)])
    BY DEF ListMastery
  <2> HIDE DEF S, T, weight
  <2> QED
    BY <2>3, <2>4, <2>5, <2>6
<1> QED
  BY <1>1, PTL

-----------------------------------------------------------------------------
(* The review queue *)

\* q holds each element of S once, and none before one of a smaller rank.
InOrder(q, S, rank) ==
  /\ q \in SetToSeqs(S)
  /\ \A m, n \in DOMAIN q : m < n => rank[q[m]] <= rank[q[n]]

\* A set of numbers that is not empty has a least one.
LEMMA LeastExists ==
  ASSUME NEW T, T \subseteq Nat, T # {}
  PROVE  \E x \in T : \A y \in T : x <= y
<1> DEFINE R == {ss \in Nat \X Nat : ss[1] < ss[2]}
<1>1. PICK x \in T : \A y \in T : ~ (<<y, x>> \in R)
  <2>1. IsWellFoundedOn(R, Nat)
    BY NatLessThanWellFounded DEF OpToRel
  <2> HIDE DEF R
  <2> QED
    BY <2>1, WFMin
<1>2. \A y \in T : ~ (y < x)
  BY <1>1
<1> QED
  BY <1>2

\* Any finite set can be put in the order of its ranks.
LEMMA SortedExists ==
  ASSUME NEW U, NEW rank \in [U -> Nat], NEW S \in SUBSET U, IsFiniteSet(S)
  PROVE  \E q : InOrder(q, S, rank)
<1> DEFINE P == { n \in Nat : \A V \in SUBSET U :
                    IsFiniteSet(V) /\ Cardinality(V) = n => \E q : InOrder(q, V, rank) }
<1>1. 0 \in P
  <2> SUFFICES ASSUME NEW V \in SUBSET U, IsFiniteSet(V), Cardinality(V) = 0
               PROVE  \E q : InOrder(q, V, rank)
    OBVIOUS
  <2> DEFINE q == [i \in 1..0 |-> i]
  <2>1. V = {}
    BY FS_EmptySet
  <2>2. InOrder(q, V, rank)
    BY <2>1 DEF InOrder, SetToSeqs
  <2> QED
    BY <2>2
<1>2. ASSUME NEW n \in Nat, n \in P PROVE n + 1 \in P
  <2> SUFFICES ASSUME NEW V \in SUBSET U, IsFiniteSet(V), Cardinality(V) = n + 1
               PROVE  \E q : InOrder(q, V, rank)
    OBVIOUS
  <2>1. PICK x \in V : \A y \in V : rank[x] <= rank[y]
    <3> DEFINE T == { rank[y] : y \in V }
    <3>1. V # {}
      BY FS_EmptySet
    <3>2. T \subseteq Nat /\ T # {}
      BY <3>1
    <3> HIDE DEF T
    <3>3. PICK m \in T : \A k \in T : m <= k
      BY <3>2, LeastExists
    <3> QED
      BY <3>3 DEF T
  <2> DEFINE W == V \ {x}
  <2>2. IsFiniteSet(W) /\ Cardinality(W) = n /\ W \in SUBSET U
    <3>1. IsFiniteSet(W) /\ Cardinality(W) = Cardinality(V) - 1
      BY FS_RemoveElement, Zenon
    <3> QED
      BY <3>1
  <2>3. PICK p : InOrder(p, W, rank)
    BY <1>2, <2>2
  <2>4. /\ p \in [1..n -> W]
        /\ \A i, j \in 1..n : i # j => p[i] # p[j]
        /\ \A i, j \in 1..n : i < j => rank[p[i]] <= rank[p[j]]
    BY <2>2, <2>3 DEF InOrder, SetToSeqs
  <2> DEFINE q == [i \in 1..(n + 1) |-> IF i = 1 THEN x ELSE p[i - 1]]
  <2>5. /\ q[1] = x
        /\ \A i \in 2..(n + 1) : i - 1 \in 1..n /\ q[i] = p[i - 1] /\ q[i] \in W
    BY <2>4
  <2>6. q \in [1..(n + 1) -> V]
    BY <2>4
  <2> HIDE DEF q
  <2>7. ASSUME NEW i \in 1..(n + 1), NEW j \in 1..(n + 1), i < j
        PROVE  q[i] # q[j] /\ rank[q[i]] <= rank[q[j]]
    <3>1. j \in 2..(n + 1)
      BY <2>7
    <3>2. CASE i = 1
      BY <2>1, <2>5, <3>1, <3>2
    <3>3. CASE i # 1
      <4>1. i \in 2..(n + 1) /\ i - 1 < j - 1
        BY <2>7, <3>3
      <4> QED
        BY <2>4, <2>5, <3>1, <4>1
    <3> QED
      BY <3>2, <3>3
  <2>8. \A i, j \in 1..(n + 1) : i # j => q[i] # q[j]
    <3> SUFFICES ASSUME NEW i \in 1..(n + 1), NEW j \in 1..(n + 1), i # j
                 PROVE  q[i] # q[j]
      OBVIOUS
    <3>1. i < j \/ j < i
      OBVIOUS
    <3> QED
      BY <2>7, <3>1
  <2>9. DOMAIN q = 1..(n + 1)
    BY <2>6
  <2>10. q \in SetToSeqs(V)
    BY <2>6, <2>8, Zenon DEF SetToSeqs
  <2>11. InOrder(q, V, rank)
    BY <2>7, <2>9, <2>10 DEF InOrder
  <2> QED
    BY <2>11
<1>3. Nat \subseteq P
  <2> HIDE DEF P
  <2> QED
    BY <1>1, <1>2, NatSetInduction
<1>4. Cardinality(S) \in Nat
  BY FS_CardinalityType
<1> QED
  BY <1>3, <1>4

\* A queue cut at its limit holds what is most overdue, and holds all that is due
\* in any concept when it is not cut (review_queue, mastery_list).
THEOREM QueueAlwaysServesMostOverdue == Spec => []QueueServesMostOverdue
<1>1. LedgerInv => QueueServesMostOverdue
  <2> SUFFICES ASSUME LedgerInv, NEW a \in Accounts
               PROVE  LET due    == UNION { DueInList(a, c) : c \in concepts }
                          queue  == review_queue(a)
                          served == Range(queue)
                      IN  /\ served \subseteq due
                          /\ Len(queue) = Min({QueueLimit, Cardinality(due)})
                          /\ \A i \in served, j \in due \ served :
                               scheduled_review(ledger[<<a, i>>])
                                 <= scheduled_review(ledger[<<a, j>>])
    BY DEF QueueServesMostOverdue
  <2> DEFINE D    == DueRows(a)
             due  == UNION { DueInList(a, c) : c \in concepts }
             when(i) == scheduled_review(ledger[<<a, i>>])
             rank == [i \in D |-> when(i)]
             n    == Cardinality(D)
             sorted(q) == \A x, y \in DOMAIN q : x < y => ~ MoreOverdue(a, q[y], q[x])
             full == CHOOSE q \in SetToSeqs(D) : sorted(q)
             k    == Min({QueueLimit, Len(full)})
             queue == SubSeq(full, 1, k)
  <2>1. ASSUME NEW i \in RowsOf(a)
        PROVE  /\ <<a, i>> \in DOMAIN ledger /\ LineFits(<<a, i>>)
               /\ i \in DOMAIN atoms /\ i \in 1..MaxId
               /\ when(i) \in Nat
    <3>1. <<a, i>> \in DOMAIN ledger
      <4>1. PICK e \in DOMAIN ledger : e[1] = a /\ e[2] = i
        BY DEF RowsOf
      <4>2. e \in Accounts \X Ids
        BY DEF LedgerInv, LedgerFits, LineFits, Entries
      <4> QED
        BY <4>1, <4>2
    <3>2. LineFits(<<a, i>>)
      BY <3>1 DEF LedgerInv, LedgerFits
    <3>3. i \in DOMAIN atoms /\ i \in 1..MaxId
      BY <3>2 DEF LineFits, Entries, Ids
    <3>4. ledger[<<a, i>>].updated_at \in 0..MaxDay
      BY <3>2 DEF LineFits, Line
    <3> QED
      BY <3>1, <3>2, <3>3, <3>4, LedgerAssumption
      DEF LedgerAssumption, scheduled_review, interval_days
  <2> HIDE DEF when
  <2>2. due = D
    <3>1. ASSUME NEW i \in D PROVE i \in due
      <4>1. i \in RowsOf(a) /\ i \in DOMAIN atoms /\ when(i) <= today
        BY <2>1 DEF DueRows, when
      <4>2. atoms[i].concept \in concepts /\ i \in AtomsOf(atoms, atoms[i].concept)
        BY <4>1 DEF LedgerInv, GraphFits, AtomsOf
      <4>3. i \in DueInList(a, atoms[i].concept)
        BY <4>1, <4>2 DEF DueInList, when
      <4> QED
        BY <4>2, <4>3
    <3>2. due \subseteq D
      BY DEF DueInList, DueRows
    <3> QED
      BY <3>1, <3>2
  <2>3. IsFiniteSet(D) /\ n \in Nat
    <3>1. IsFiniteSet(1..MaxId)
      BY LedgerAssumption, FS_Interval DEF LedgerAssumption
    <3>2. D \in SUBSET (1..MaxId)
      BY <2>1 DEF DueRows
    <3>3. IsFiniteSet(D)
      BY <3>1, <3>2, FS_Subset
    <3> QED
      BY <3>3, FS_CardinalityType
  <2>4. rank \in [D -> Nat]
    BY <2>1 DEF DueRows
  <2>5. \A i \in D, j \in D : MoreOverdue(a, i, j) <=> rank[i] < rank[j]
    BY DEF MoreOverdue, when
  <2>6. full \in SetToSeqs(D) /\ sorted(full)
    <3>1. PICK q : InOrder(q, D, rank)
      <4> HIDE DEF D, rank
      <4> QED
        BY <2>3, <2>4, SortedExists
    <3>2. q \in SetToSeqs(D) /\ sorted(q)
      <4>1. q \in SetToSeqs(D) /\ \A x \in DOMAIN q : q[x] \in D
        BY <3>1 DEF InOrder, SetToSeqs
      <4>2. ASSUME NEW x \in DOMAIN q, NEW y \in DOMAIN q, x < y
            PROVE  ~ MoreOverdue(a, q[y], q[x])
        <5>1. rank[q[x]] <= rank[q[y]] /\ rank[q[x]] \in Nat /\ rank[q[y]] \in Nat
          <6> HIDE DEF rank, D
          <6> QED
            BY <2>4, <3>1, <4>1, <4>2 DEF InOrder
        <5> HIDE DEF rank, D
        <5> QED
          BY <2>5, <4>1, <5>1
      <4> QED
        BY <4>1, <4>2
    <3> HIDE DEF sorted, D
    <3> QED
      BY <3>2
  <2> HIDE DEF full
  <2>7. full \in [1..n -> D] /\ \A x, y \in 1..n : x # y => full[x] # full[y]
    BY <2>6 DEF SetToSeqs
  <2>8. \A j \in D : \E x \in 1..n : full[x] = j
    <3>1. IsInjective(full)
      BY <2>7 DEF IsInjective
    <3>2. full \in Injection(1..n, D)
      BY <2>7, <3>1, Zenon DEF Injection
    <3>3. Cardinality(1..n) = n
      <4> HIDE DEF n
      <4>1. 1 \in Int /\ n \in Int
        BY <2>3
      <4> QED
        BY <2>3, <4>1, FS_Interval
    <3>4. full \in Surjection(1..n, D)
      <4> HIDE DEF D
      <4> QED
        BY <2>3, <3>2, <3>3, FS_Injection
    <3> QED
      BY <3>4, Zenon DEF Surjection
  <2> HIDE DEF n, D
  <2>9. Len(full) = n /\ full \in Seq(D)
    BY <2>3, <2>7
  <2>10. k \in 0..n /\ k = Min({QueueLimit, n})
    <3>1. QueueLimit \in Nat /\ n \in Nat
      BY <2>3, LedgerAssumption DEF LedgerAssumption
    <3>2. \E x \in {QueueLimit, n} : \A y \in {QueueLimit, n} : x <= y
      BY <3>1
    <3>3. Min({QueueLimit, n}) \in {QueueLimit, n} /\ Min({QueueLimit, n}) <= n
      BY <3>2 DEF Min
    <3> QED
      BY <2>9, <3>1, <3>3
  <2> HIDE DEF k
  <2>11. /\ Len(queue) = k /\ DOMAIN queue = 1..k
         /\ \A x \in 1..k : queue[x] = full[x]
    <3>1. k \in Nat /\ k <= Len(full) /\ Len(full) \in Nat
      BY <2>3, <2>9, <2>10
    <3>2. queue \in Seq(D)
      BY <2>9, <3>1
    <3>3. Len(queue) = k
      BY <2>9, <3>1
    <3>4. \A x \in 1..k : queue[x] = full[x]
      BY <2>9, <3>1
    <3> HIDE DEF queue
    <3> QED
      BY <3>2, <3>3, <3>4
  <2>12. queue = review_queue(a)
    BY DEF review_queue, full, k, D
  <2> HIDE DEF queue
  <2>13. Range(queue) \subseteq D
    <3>1. 1..k \subseteq 1..n
      BY <2>3, <2>10
    <3>2. \A x \in 1..k : queue[x] \in D
      BY <2>7, <2>11, <3>1
    <3> QED
      BY <2>11, <3>2, Zenon DEF Range
  <2>14. ASSUME NEW i \in Range(queue), NEW j \in D \ Range(queue)
         PROVE  when(i) <= when(j)
    <3>1. PICK x \in 1..k : i = full[x]
      BY <2>11 DEF Range
    <3>2. PICK y \in 1..n : j = full[y]
      BY <2>8
    <3>3. y \notin 1..k
      BY <2>11, <3>2 DEF Range
    <3>4. x \in 1..n /\ x < y
      BY <2>3, <2>10, <3>3
    <3>5. ~ MoreOverdue(a, j, i)
      BY <2>6, <2>7, <3>1, <3>2, <3>4
    <3>6. i \in D /\ j \in D
      BY <2>13
    <3>7. when(i) \in Nat /\ when(j) \in Nat
      BY <2>1, <3>6 DEF D, DueRows
    <3> QED
      BY <3>5, <3>7 DEF MoreOverdue, when
  <2>15. Len(review_queue(a)) = Min({QueueLimit, Cardinality(due)})
    BY <2>2, <2>10, <2>11, <2>12 DEF n
  <2> HIDE DEF due
  <2> QED
    BY <2>2, <2>12, <2>13, <2>14, <2>15 DEF when, due
<1> QED
  BY <1>1, LedgerInductive, PTL

=============================================================================
