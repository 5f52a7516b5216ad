-------------------------- MODULE LearningLedger ----------------------------
(***************************************************************************)
(* The knowledge graph and the mastery ledger                              *)
(* (services/learning_service.py).  A request is one transaction on InnoDB *)
(* at REPEATABLE READ: it reads a snapshot, computes, writes and commits.  *)
(* What it writes it locks until it ends, so its writes may be taken       *)
(* together at the commit, against the rows of that moment; a violated     *)
(* constraint, a row that is gone, a deadlock or a crash rolls it back.    *)
(***************************************************************************)
EXTENDS Mastery, Sequences, FiniteSets, Functions, SequencesExt

CONSTANTS
  Accounts, Requests, Concepts, Keys,
  Payloads,       \* the subgraphs a teacher binds (ConceptUpsertRequest)
  Evidence,       \* the evidence a learner submits (EvidenceIn)
  EdgeWeight,     \* learning_atom_edge.weight, always the default 1.000
  QueueLimit,     \* the limit of a review queue
  MaxId,          \* bound: atoms ever created
  MaxDay,         \* bound: days
  MaxEvidence     \* bound: lines of evidence ever credited

Ids == 1..MaxId

AtomIn == [verified : BOOLEAN, depends_on : SUBSET Keys]

EvidenceIn == [kind : EvidenceKind, atom_keys : SUBSET Keys, depth : Nat]

\* What the validators of AtomIn and ConceptUpsertRequest let through, by key:
\* finitely many keys, none of which depends on itself.
IsPayload(p) ==
  /\ p.concept \in Concepts /\ p.replace_atoms \in BOOLEAN
  /\ DOMAIN p.atoms \subseteq Keys /\ IsFiniteSet(DOMAIN p.atoms)
  /\ \A k \in DOMAIN p.atoms : p.atoms[k] \in AtomIn /\ k \notin p.atoms[k].depends_on

ASSUME LedgerAssumption ==
  /\ EdgeWeight \in Nat \ {0} /\ QueueLimit \in Nat \ {0}
  /\ MaxId \in Nat /\ MaxDay \in Nat /\ MaxEvidence \in Nat
  /\ \A p \in Payloads : IsPayload(p)
  /\ Evidence \subseteq EvidenceIn
  /\ None \notin {"bind", "explain"}

VARIABLES
  concepts,     \* learning_concept
  atoms,        \* learning_atom: id -> key, concept, verified
  edges,        \* learning_atom_edge: <<from, to>>
  ledger,       \* mastery_ledger: <<account, atom>> -> row
  nextId,       \* the auto-increment of learning_atom
  today,        \* the server's clock, which may be set back
  tx,           \* the transaction of each request
  trail,        \* history: <<account, atom>> -> the evidence committed, in order
  overlapped,   \* history: the <<account, atom>> two requests credited at once
  everVerified  \* history: the atoms that have been verified at some time

store == <<concepts, atoms, edges, ledger, nextId>>
history == <<trail, overlapped, everVerified>>
vars == <<store, today, tx, history>>

Entries == Accounts \X Ids

Idle == [op |-> None]

Init ==
  /\ concepts = {} /\ atoms = << >> /\ edges = {} /\ ledger = << >> /\ nextId = 1
  /\ today = 0
  /\ tx = [r \in Requests |-> Idle]
  /\ trail = [e \in Entries |-> << >>] /\ overlapped = {} /\ everVerified = {}

\* _atoms_by_concept
AtomsOf(table, c) == { i \in DOMAIN table : table[i].concept = c }

KeysOf(table, S) == { table[i].key : i \in S }

-----------------------------------------------------------------------------
(* bind_concept *)

BindBegin(r, payload) ==
  /\ tx[r] = Idle
  /\ tx' = [tx EXCEPT ![r] =
       [op |-> "bind", concept |-> payload.concept, payload |-> payload,
        concepts |-> concepts, atoms |-> atoms, edges |-> edges]]
  /\ UNCHANGED <<store, today, history>>

\* replace_atoms: the atoms the payload does not name go.
Stale(t) ==
  { i \in AtomsOf(t.atoms, t.concept) :
      t.payload.replace_atoms /\ t.atoms[i].key \notin DOMAIN t.payload.atoms }

Existing(t) == KeysOf(t.atoms, AtomsOf(t.atoms, t.concept))

Created(t) == DOMAIN t.payload.atoms \ Existing(t)

Wanted(t) ==
  UNION { {<<k, d>> : d \in t.payload.atoms[k].depends_on} : k \in DOMAIN t.payload.atoms }

\* _unknown_edge_targets: a payload with an edge to nowhere is refused whole.
KnowsTargets(t) ==
  \A w \in Wanted(t) :
    w[2] \in (Existing(t) \cup DOMAIN t.payload.atoms) \ KeysOf(t.atoms, Stale(t))

\* The ids the keys of the concept have in the view of the transaction, with
\* the atoms it creates itself.
View(t, fresh) ==
  [ k \in Existing(t) \cup Created(t) |->
      IF k \in Created(t) THEN fresh[k]
      ELSE CHOOSE i \in AtomsOf(t.atoms, t.concept) : t.atoms[i].key = k ]

FreshIds(t) ==
  LET order == SetToSeq(Created(t))
  IN  [k \in Created(t) |-> nextId + (CHOOSE j \in DOMAIN order : order[j] = k) - 1]

\* _sync_edges: the edges that are wanted and were not there are inserted; no
\* edge of an atom that stays is taken away.
NewEdges(t, view) == { <<view[w[1]], view[w[2]]>> : w \in Wanted(t) } \ t.edges

SyncEdges(t, view) == edges \cup NewEdges(t, view)

\* What the unique keys and the foreign keys refuse at the commit, and the
\* UPDATE of an atom that is gone.
UniqueHolds(t) ==
  /\ t.concept \notin t.concepts => t.concept \notin concepts
  /\ Created(t) \cap KeysOf(atoms, DOMAIN atoms) = {}

Updated(t, view) ==
  { view[k] : k \in { j \in DOMAIN t.payload.atoms \cap Existing(t) :
                        t.atoms[view[j]].verified # t.payload.atoms[j].verified } }

\* mutant: edges are written without looking whether their ends are there
ReferencesUnchecked(t, view, fresh) == TRUE

ReferencesHold(t, view, fresh) ==
  /\ Updated(t, view) \subseteq DOMAIN atoms
  /\ NewEdges(t, view) \cap edges = {}
  /\ \A e \in NewEdges(t, view) :
       {e[1], e[2]} \subseteq DOMAIN atoms \cup Range(fresh)

\* The account lines of an atom that goes, go with it.
WithoutLines(gone) == Restrict(ledger, { e \in DOMAIN ledger : e[2] \notin gone })

BindCommit(r) ==
  LET t     == tx[r]
      fresh == FreshIds(t)
      view  == View(t, fresh)
      gone  == Stale(t)
      named == { view[k] : k \in DOMAIN t.payload.atoms }
      keyOf(i) == CHOOSE k \in DOMAIN view : view[k] = i
  IN  /\ t.op = "bind"
      /\ KnowsTargets(t)
      /\ UniqueHolds(t)
      /\ ReferencesHold(t, view, fresh)
      /\ nextId + Cardinality(Created(t)) - 1 <= MaxId
      /\ concepts' = concepts \cup {t.concept}
      /\ atoms' = [ i \in (DOMAIN atoms \ gone) \cup Range(fresh) |->
            IF i \in named \cap (Range(fresh) \cup Updated(t, view))
            THEN [key |-> keyOf(i), concept |-> t.concept,
                  verified |-> t.payload.atoms[keyOf(i)].verified]
            ELSE atoms[i] ]
      /\ edges' = { e \in SyncEdges(t, view) : e[1] \notin gone /\ e[2] \notin gone }
      /\ ledger' = WithoutLines(gone)
      /\ nextId' = nextId + Cardinality(Created(t))
      /\ everVerified' = everVerified \cup { i \in DOMAIN atoms' : atoms'[i].verified }
      /\ tx' = [tx EXCEPT ![r] = Idle]
      /\ UNCHANGED <<today, trail, overlapped>>

-----------------------------------------------------------------------------
(* create_explanation, with record_evidence *)

\* A concept that does not exist is answered 404 and changes nothing.
ExplainBegin(r, a, c, ev) ==
  /\ tx[r] = Idle
  /\ c \in concepts
  /\ tx' = [tx EXCEPT ![r] =
       [op |-> "explain", account |-> a, concept |-> c, evidence |-> ev, now |-> today,
        atoms |-> atoms, ledger |-> ledger, seen |-> [i \in Ids |-> Len(trail[<<a, i>>])]]]
  /\ UNCHANGED <<store, today, history>>

\* Keys of another concept, or of none, are skipped and reported.
Picked(t) ==
  { i \in AtomsOf(t.atoms, t.concept) : t.atoms[i].key \in t.evidence.atom_keys }

Weight(t) == evidence_weight(t.evidence.kind, t.evidence.depth)

\* mutant: the list of verified atoms is not consulted
CreditedUnverified(t) == IF Weight(t) = 0 THEN {} ELSE Picked(t)

\* record_many: atoms that are not verified, and evidence without weight, change
\* neither the number nor the time of the line.
Credited(t) == { i \in Picked(t) : t.atoms[i].verified /\ Weight(t) > 0 }

\* mutant: every piece of evidence starts a new account
LoadedFresh(t, i) == new_entry

Loaded(t, i) ==
  IF <<t.account, i>> \in DOMAIN t.ledger THEN t.ledger[<<t.account, i>>] ELSE new_entry

\* An UPDATE writes the columns that differ from what was loaded; count and time
\* always do.
Merged(current, loaded, new) ==
  [new EXCEPT !.mastery = IF @ = loaded.mastery THEN current.mastery ELSE @]

\* _persist_update: an INSERT for the first evidence, else an UPDATE by id.
Persisted(t, i) ==
  LET e   == <<t.account, i>>
      new == record(Loaded(t, i), Weight(t), t.now)
  IN  IF e \in DOMAIN t.ledger THEN Merged(ledger[e], t.ledger[e], new) ELSE new

\* The foreign key to the atom, uk_mastery for an INSERT, and for an UPDATE the
\* row it was loaded from.
RowFits(t, i) ==
  /\ i \in DOMAIN atoms
  /\ <<t.account, i>> \in DOMAIN ledger <=> <<t.account, i>> \in DOMAIN t.ledger

EvidenceSoFar == MapThenSumSet(LAMBDA e : Len(trail[e]), Entries)

ExplainCommit(r) ==
  LET t == tx[r]
      rows == { <<t.account, i>> : i \in Credited(t) }
  IN  /\ t.op = "explain"
      /\ \A i \in Credited(t) : RowFits(t, i)
      /\ EvidenceSoFar + Cardinality(rows) <= MaxEvidence
      /\ ledger' = [ e \in DOMAIN ledger \cup rows |->
                      IF e \in rows THEN Persisted(t, e[2]) ELSE ledger[e] ]
      /\ trail' = [ e \in Entries |->
                     IF e \in rows
                     THEN Append(trail[e], [weight |-> Weight(t), now |-> t.now])
                     ELSE trail[e] ]
      /\ overlapped' = overlapped \cup { e \in rows : Len(trail[e]) > t.seen[e[2]] }
      /\ tx' = [tx EXCEPT ![r] = Idle]
      /\ UNCHANGED <<concepts, atoms, edges, nextId, today, everVerified>>

\* mutant: the account lines are written outside the transaction
RollbackLate(r) ==
  LET t    == tx[r]
      rows == IF t.op = "explain" THEN { <<t.account, i>> : i \in Credited(t) } ELSE {}
  IN  /\ t # Idle
      /\ \A e \in rows : RowFits(t, e[2])
      /\ ledger' = [ e \in DOMAIN ledger \cup rows |->
                      IF e \in rows THEN Persisted(t, e[2]) ELSE ledger[e] ]
      /\ tx' = [tx EXCEPT ![r] = Idle]
      /\ UNCHANGED <<concepts, atoms, edges, nextId, today, history>>

\* A refused payload, a violated constraint, a deadlock or a crash.
Rollback(r) ==
  /\ tx[r] # Idle
  /\ tx' = [tx EXCEPT ![r] = Idle]
  /\ UNCHANGED <<store, today, history>>

\* A day passes, or the clock is corrected.
ClockMoves ==
  /\ today' \in (0..MaxDay) \ {today}
  /\ UNCHANGED <<store, tx, history>>

Next ==
  \/ \E r \in Requests :
       \/ \E p \in Payloads : BindBegin(r, p)
       \/ BindCommit(r)
       \/ \E a \in Accounts, c \in Concepts, ev \in Evidence : ExplainBegin(r, a, c, ev)
       \/ ExplainCommit(r)
       \/ Rollback(r)
  \/ ClockMoves

Spec == Init /\ [][Next]_vars

-----------------------------------------------------------------------------
(* What the read endpoints answer *)

RowsOf(a) == { e[2] : e \in { f \in DOMAIN ledger : f[1] = a } }

\* _decayed, of an account line or of none
Decayed(a, i) ==
  IF <<a, i>> \in DOMAIN ledger
  THEN decay(ledger[<<a, i>>].mastery, elapsed_days_since(ledger[<<a, i>>].updated_at, today))
  ELSE 0

\* atom_weights: the heaviest edge to an atom, at least 1
atom_weight(i) ==
  Max({1} \cup { EdgeWeight : e \in { f \in edges : f[2] = i } })

\* concept_graph: over the atoms of the concept
GraphMastery(a, c) ==
  LET S == AtomsOf(atoms, c)
  IN  concept_mastery([i \in S |-> Decayed(a, i)], [i \in S |-> atom_weight(i)])

\* mutant: only the atoms with an account line are averaged
ListMasteryRecorded(a, c) ==
  LET S == AtomsOf(atoms, c) \cap RowsOf(a)
  IN  concept_mastery([i \in S |-> Decayed(a, i)], [i \in S |-> 1])

\* mastery_list: over the account lines, with the other atoms of the concept
\* filled in at mastery 0 and weight 1
ListMastery(a, c) ==
  LET S == (AtomsOf(atoms, c) \cap RowsOf(a)) \cup AtomsOf(atoms, c)
      weight(i) == IF i \in RowsOf(a) /\ \E e \in edges : e[2] = i THEN EdgeWeight ELSE 1
  IN  concept_mastery([i \in S |-> Decayed(a, i)], [i \in S |-> weight(i)])

DueInList(a, c) ==
  { i \in AtomsOf(atoms, c) \cap RowsOf(a) : scheduled_review(ledger[<<a, i>>]) <= today }

\* The order of the queue; ties, which go by concept and key, are left open.
MoreOverdue(a, i, j) ==
  scheduled_review(ledger[<<a, i>>]) < scheduled_review(ledger[<<a, j>>])

DueRows(a) == { i \in RowsOf(a) : scheduled_review(ledger[<<a, i>>]) <= today }

\* review_queue, cut at its limit
review_queue(a) ==
  LET full == CHOOSE q \in SetToSeqs(DueRows(a)) :
                \A m, n \in DOMAIN q : m < n => ~ MoreOverdue(a, q[n], q[m])
  IN  SubSeq(full, 1, Min({QueueLimit, Len(full)}))

-----------------------------------------------------------------------------
(* Properties *)

\* Every table keeps its type: one row per key and per <<account, atom>>, and
\* mastery within its scale, whatever the clock does.
TypeOK ==
  /\ DOMAIN atoms \subseteq 1..(nextId - 1)
  /\ \A i \in DOMAIN atoms :
       atoms[i] \in [key : Keys, concept : concepts, verified : BOOLEAN]
  /\ \A e \in DOMAIN ledger :
       /\ e \in Entries
       /\ ledger[e].mastery \in 0..Scale
       /\ ledger[e].evidence_count \in Nat \ {0}
       /\ ledger[e].updated_at \in 0..MaxDay
  /\ today \in 0..MaxDay

\* Two binds and the explanations that meet them leave a graph: no key is held
\* by two atoms, and every edge joins two atoms of one concept
\* (bind_concept's order of deletes and inserts, uk_atom_key, the foreign keys).
GraphIsWhole ==
  /\ \A i, j \in DOMAIN atoms : atoms[i].key = atoms[j].key => i = j
  /\ \A e \in edges :
       /\ e[1] \in DOMAIN atoms /\ e[2] \in DOMAIN atoms /\ e[1] # e[2]
       /\ atoms[e[1]].concept = atoms[e[2]].concept

\* No account line outlives its atom, and none belongs to an atom that was
\* never verified (bind_concept with replace_atoms, record_many).
LinesAreEarned ==
  \A e \in DOMAIN ledger : e[2] \in DOMAIN atoms /\ e[2] \in everVerified

Replay(evidence) ==
  LET after[n \in 0..Len(evidence)] ==
        IF n = 0 THEN new_entry
        ELSE record(after[n - 1], evidence[n].weight, evidence[n].now)
  IN  after[Len(evidence)]

\* The ledger can be audited: each line is what replaying the committed evidence
\* gives, number, count and time, unless two requests of one account overlapped
\* on it (mastery.py: every number can be traced to its evidence).
LineIsItsEvidence ==
  \A e \in DOMAIN ledger : e \notin overlapped => ledger[e] = Replay(trail[e])

\* Even then no line claims more evidence than was committed, and none is newer
\* than the last of it.
NoEvidenceInvented ==
  \A e \in DOMAIN ledger :
    /\ ledger[e].evidence_count <= Len(trail[e])
    /\ ledger[e].updated_at = trail[e][Len(trail[e])].now

\* The two pages that show how well a concept is mastered agree, though one
\* starts from the graph and the other from the ledger.
PagesAgree ==
  \A a \in Accounts, c \in concepts :
    AtomsOf(atoms, c) \cap RowsOf(a) # {} => GraphMastery(a, c) = ListMastery(a, c)

\* A queue that is cut at its limit leaves out nothing that is more overdue than
\* what it serves, and one that is not cut holds what the list counts as due.
QueueServesMostOverdue ==
  \A a \in Accounts :
    LET due    == UNION { DueInList(a, c) : c \in concepts }
        queue  == review_queue(a)
        served == Range(queue)
    IN  /\ served \subseteq due
        /\ Len(queue) = Min({QueueLimit, Cardinality(due)})
        /\ \A i \in served, j \in due \ served :
             scheduled_review(ledger[<<a, i>>]) <= scheduled_review(ledger[<<a, j>>])

=============================================================================
