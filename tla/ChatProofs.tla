----------------------------- MODULE ChatProofs -----------------------------
(***************************************************************************)
(* What the chat endpoints keep of a conversation, for any number of       *)
(* requests open together.  Of the learning loop in its thread's channel:  *)
(* whatever they overwrite of each other, a loop is legal, by its history  *)
(* it is credited once and not escaped from unasked, and the last card of  *)
(* a request shows what was saved.  Of the thread itself: what is read and *)
(* saved of it belongs to its owner unless a deletion was overtaken, and a *)
(* title the user gave is not generated over.                              *)
(***************************************************************************)
EXTENDS PedagogyChat, Threads, FeynmanKernelProofs

-----------------------------------------------------------------------------
(* The events a message reports *)

TutorEvent == {e \in LoopEvent : e.kind \in TUTOR_EVENT_KINDS}

\* Zeroing the length a tutor reported leaves it a tutor's event.
LEMMA ZeroedIsTutors ==
  ASSUME NEW e \in TutorEvent
  PROVE  [e EXCEPT !.system_chars = 0] \in TutorEvent
<1>1. e \in LoopEvent /\ e.kind \in {"gap_reported", "supply_completed", "simplify_judged"}
  BY DEF TutorEvent, TUTOR_EVENT_KINDS
<1>2. CASE e.kind = "gap_reported"
  <2>1. e \in [kind : {"gap_reported"}, report : GapReport, system_chars : Nat]
    BY <1>1, <1>2 DEF LoopEvent
  <2> QED
    BY <2>1 DEF TutorEvent, TUTOR_EVENT_KINDS, LoopEvent
<1>3. CASE e.kind = "supply_completed"
  <2>1. e \in [kind : {"supply_completed"}, system_chars : Nat]
    BY <1>1, <1>3 DEF LoopEvent
  <2> QED
    BY <2>1 DEF TutorEvent, TUTOR_EVENT_KINDS, LoopEvent
<1>4. CASE e.kind = "simplify_judged"
  <2>1. e \in [kind : {"simplify_judged"}, report : GapReport,
               transfer_passed : BOOLEAN, system_chars : Nat]
    BY <1>1, <1>4 DEF LoopEvent
  <2> QED
    BY <2>1 DEF TutorEvent, TUTOR_EVENT_KINDS, LoopEvent
<1> QED
  BY <1>1, <1>2, <1>3, <1>4

\* Whatever a message reports, only the tutor's own kinds of events get through.
LEMMA ParsedAreTutors ==
  ASSUME NEW events \in Seq(LoopEvent)
  PROVE  parse_tutor_events(events) \in Seq(TutorEvent)
<1> DEFINE n == Len(events)
           S == Seq(TutorEvent)
           F(g) == [i \in 0..n |->
                      IF i = 0 THEN << >>
                      ELSE IF events[i].kind \notin TUTOR_EVENT_KINDS THEN g[i - 1]
                      ELSE Append(g[i - 1], [events[i] EXCEPT !.system_chars = 0])]
           parsed == CHOOSE g : g = F(g)
           then(i, v) == IF events[i].kind \notin TUTOR_EVENT_KINDS THEN v
                         ELSE Append(v, [events[i] EXCEPT !.system_chars = 0])
           next == [iv \in Nat \X S |->
                      IF iv[1] \in 1..n THEN then(iv[1], iv[2]) ELSE iv[2]]
<1>0. n \in Nat /\ \A i \in 1..n : events[i] \in LoopEvent
  OBVIOUS
<1>1. ASSUME NEW i \in 1..n, NEW v \in S
      PROVE  then(i, v) \in S
  <2>1. CASE events[i].kind \notin TUTOR_EVENT_KINDS
    BY <2>1
  <2>2. CASE events[i].kind \in TUTOR_EVENT_KINDS
    <3>1. events[i] \in TutorEvent
      BY <1>0, <2>2 DEF TutorEvent
    <3>2. [events[i] EXCEPT !.system_chars = 0] \in TutorEvent
      BY <3>1, ZeroedIsTutors
    <3> QED
      BY <2>2, <3>2
  <2> QED
    BY <2>1, <2>2
<1>2. PICK g : Follows(g, n, << >>, next, S)
  <2>1. next \in [Nat \X S -> S]
    <3> HIDE DEF then, S
    <3> QED
      BY <1>1
  <2>2. << >> \in S
    OBVIOUS
  <2> HIDE DEF next, S
  <2> QED
    BY <1>0, <2>1, <2>2, RecursionExists
<1>3. g = F(g)
  <2>1. ASSUME NEW i \in 1..n
        PROVE  g[i] = IF events[i].kind \notin TUTOR_EVENT_KINDS THEN g[i - 1]
                      ELSE Append(g[i - 1], [events[i] EXCEPT !.system_chars = 0])
    <3>1. <<i, g[i - 1]>> \in Nat \X S
      <4> HIDE DEF S
      <4> QED
        BY <1>0, <1>2 DEF Follows
    <3>2. next[<<i, g[i - 1]>>] = then(i, g[i - 1])
      <4> HIDE DEF S, then
      <4> QED
        BY <3>1
    <3> QED
      BY <1>2, <3>2 DEF Follows
  <2>2. ASSUME NEW i \in 0..n
        PROVE  g[i] = IF i = 0 THEN << >>
                      ELSE IF events[i].kind \notin TUTOR_EVENT_KINDS THEN g[i - 1]
                      ELSE Append(g[i - 1], [events[i] EXCEPT !.system_chars = 0])
    <3>1. CASE i = 0
      BY <1>2, <3>1 DEF Follows
    <3>2. CASE i # 0
      <4>1. i \in 1..n
        BY <1>0, <3>2
      <4> QED
        BY <2>1, <3>2, <4>1
    <3> QED
      BY <3>1, <3>2
  <2>3. g = [i \in 0..n |-> g[i]]
    BY <1>2 DEF Follows
  <2> HIDE DEF S, next
  <2> QED
    BY <2>2, <2>3
<1>4. parsed = F(parsed)
  <2> HIDE DEF F
  <2> QED
    BY <1>3
<1>5. \A i \in 0..n : parsed[i] \in S
  <2> DEFINE P == { m \in Nat : m <= n => parsed[m] \in S }
  <2> HIDE DEF parsed
  <2>1. 0 \in P
    BY <1>0, <1>4
  <2>2. ASSUME NEW m \in Nat, m \in P PROVE m + 1 \in P
    <3> SUFFICES ASSUME m + 1 <= n PROVE parsed[m + 1] \in S
      OBVIOUS
    <3>1. parsed[m] \in S /\ m + 1 \in 1..n /\ m + 1 \in 0..n /\ (m + 1) - 1 = m
          /\ m + 1 # 0
      BY <1>0, <2>2
    <3>2. parsed[m + 1] = then(m + 1, parsed[m])
      BY <1>4, <3>1
    <3> HIDE DEF S, then
    <3> QED
      BY <1>1, <3>1, <3>2
  <2>3. Nat \subseteq P
    <3> HIDE DEF P
    <3> QED
      BY <2>1, <2>2, NatSetInduction
  <2> HIDE DEF S
  <2> QED
    BY <1>0, <2>3
<1>6. parse_tutor_events(events) = parsed[n]
  BY DEF parse_tutor_events
<1> HIDE DEF parsed
<1> QED
  BY <1>0, <1>5, <1>6

-----------------------------------------------------------------------------
(* The steps they take *)

\* Trail is the function it is written as: each event ticks the snapshot the one
\* before it led to.
LEMMA TrailSteps ==
  ASSUME NEW s, NEW events, Len(events) \in Nat
  PROVE  /\ Trail(s, events)[0] = LoopStep(s, {}, {})
         /\ \A i \in 1..Len(events) :
              Trail(s, events)[i] = tick(Trail(s, events)[i - 1].state, events[i])
<1> DEFINE n == Len(events)
           F(m, g) == [i \in 0..m |-> IF i = 0 THEN LoopStep(s, {}, {})
                                      ELSE tick(g[i - 1].state, events[i])]
           P == { m \in Nat : \E g : g = F(m, g) }
           trail == CHOOSE g : g = F(n, g)
<1>1. 0 \in P
  <2> DEFINE g == [i \in 0..0 |-> LoopStep(s, {}, {})]
  <2>1. g = F(0, g)
    OBVIOUS
  <2> QED
    BY <2>1
<1>2. ASSUME NEW m \in Nat, m \in P PROVE m + 1 \in P
  <2>1. PICK g : g = F(m, g)
    BY <1>2
  <2> DEFINE h == [i \in 0..(m + 1) |-> IF i <= m THEN g[i]
                                        ELSE tick(g[m].state, events[m + 1])]
  <2>2. \A i \in 0..m : h[i] = g[i]
    OBVIOUS
  <2>3. ASSUME NEW i \in 0..(m + 1)
        PROVE  h[i] = IF i = 0 THEN LoopStep(s, {}, {})
                      ELSE tick(h[i - 1].state, events[i])
    <3>1. CASE i = 0
      BY <2>1, <2>2, <3>1
    <3>2. CASE i \in 1..m
      <4>1. h[i] = g[i] /\ h[i - 1] = g[i - 1]
        BY <2>2, <3>2
      <4>2. g[i] = tick(g[i - 1].state, events[i])
        BY <2>1, <3>2
      <4> QED
        BY <3>2, <4>1, <4>2
    <3>3. CASE i = m + 1
      <4>1. h[i - 1] = g[m] /\ i - 1 = m /\ i # 0 /\ ~ i <= m
        BY <2>2, <3>3
      <4> QED
        BY <3>3, <4>1
    <3> QED
      BY <3>1, <3>2, <3>3
  <2>4. h = F(m + 1, h)
    <3> HIDE DEF h
    <3>1. h = [i \in 0..(m + 1) |-> h[i]]
      BY DEF h
    <3> QED
      BY <2>3, <3>1
  <2> HIDE DEF h, F
  <2> QED
    BY <2>4
<1>3. Nat \subseteq P
  <2> HIDE DEF P
  <2> QED
    BY <1>1, <1>2, NatSetInduction
<1>4. trail = F(n, trail)
  <2>1. \E g : g = F(n, g)
    BY <1>3
  <2> HIDE DEF F
  <2> QED
    BY <2>1
<1>5. Trail(s, events) = trail
  BY DEF Trail
<1> HIDE DEF trail
<1>6. /\ trail[0] = LoopStep(s, {}, {})
      /\ \A i \in 1..n : trail[i] = tick(trail[i - 1].state, events[i])
  BY <1>4
<1> QED
  BY <1>5, <1>6

\* Every snapshot on the trail of a legal one is legal, and its steps are the
\* kernel's moves.
LEMMA TrailIsLegal ==
  ASSUME NEW s, LegalSnapshot(s), NEW events \in Seq(LoopEvent)
  PROVE  LET trail == Trail(s, events)
         IN  /\ trail[0] = LoopStep(s, {}, {})
             /\ \A i \in 0..Len(events) : LegalSnapshot(trail[i].state)
             /\ \A i \in 1..Len(events) : Moves(trail[i - 1].state, trail[i])
<1> DEFINE n     == Len(events)
           trail == Trail(s, events)
           P     == { m \in Nat : m <= n => LegalSnapshot(trail[m].state) }
<1> HIDE DEF trail
<1>0. n \in Nat /\ \A i \in 1..n : events[i] \in LoopEvent
  OBVIOUS
<1>1. /\ trail[0] = LoopStep(s, {}, {})
      /\ \A i \in 1..n : trail[i] = tick(trail[i - 1].state, events[i])
  BY <1>0, TrailSteps DEF trail
<1>2. 0 \in P
  BY <1>1 DEF LoopStep
<1>3. ASSUME NEW m \in Nat, m \in P PROVE m + 1 \in P
  <2> SUFFICES ASSUME m + 1 <= n PROVE LegalSnapshot(trail[m + 1].state)
    OBVIOUS
  <2>1. LegalSnapshot(trail[m].state) /\ m + 1 \in 1..n /\ (m + 1) - 1 = m
    BY <1>0, <1>3
  <2>2. trail[m + 1] = tick(trail[m].state, events[m + 1])
    BY <1>1, <2>1
  <2> QED
    BY <1>0, <2>1, <2>2, TickIsLegal
<1>4. Nat \subseteq P
  <2> HIDE DEF P
  <2> QED
    BY <1>2, <1>3, NatSetInduction
<1>5. \A i \in 0..n : LegalSnapshot(trail[i].state)
  BY <1>0, <1>4
<1>6. ASSUME NEW i \in 1..n PROVE Moves(trail[i - 1].state, trail[i])
  <2>1. LegalSnapshot(trail[i - 1].state)
    BY <1>0, <1>5
  <2> QED
    BY <1>0, <1>1, <2>1, TickIsLegal
<1> QED
  BY <1>1, <1>5, <1>6 DEF trail

-----------------------------------------------------------------------------
(* The invariants *)

\* What the history of a loop says of it, through whatever requests it went: it
\* is legal, it is credited exactly if it is closed, and it has asked if it waits
\* for an answer or was escaped from.
Lineage(c) ==
  /\ IsCarrier(c)
  /\ c = LoopCarrier(c.state, c.awaiting_escape, c.asked, c.credits)
  /\ c.asked \in BOOLEAN
  /\ c.credits = IF c.state.state = "Closed" THEN 1 ELSE 0
  /\ c.awaiting_escape => c.asked
  /\ c.state.state = "Escaped" => c.asked

\* The card sent last shows this snapshot, but for the talk count.
Shows(card, s) ==
  card # None => \A n \in 0..TalkCap :
                   [card EXCEPT !.system_chars = n] = [s EXCEPT !.system_chars = n]

\* What a slot holds, whatever the other requests do.
Sound(q) ==
  /\ DOMAIN q = DOMAIN IdleRequest
  /\ q.taught \in BOOLEAN
  /\ q.taught => Lineage(q.carrier)
  /\ q.taught => Shows(q.card, q.carrier.state)
  /\ ~ q.taught => q.carrier = None
  /\ ~ q.taught => q.card = None
  /\ q.local # None => Lineage(q.local)
  /\ q.pc = "after" => q.msg \in Messages

ChatInv ==
  /\ channel # None => Lineage(channel)
  /\ DOMAIN req = Requests
  /\ \A r \in Requests : Sound(req[r])

-----------------------------------------------------------------------------
(* What the learner's text does *)

\* What a reading may be: an event of the learner or none, a confirmed escape
\* only where one was asked for, and an open question only where it was open or
\* is asked now.
LEMMA ReadingIsLearners ==
  ASSUME NEW s, NEW text \in Utterance, NEW awaiting \in BOOLEAN
  PROVE  LET reading == read_turn(s, text, awaiting)
             e       == reading.event
         IN  /\ reading.awaiting_escape \in BOOLEAN
             /\ reading.awaiting_escape => awaiting \/ e = Escape(FALSE)
             /\ \/ e = None
                \/ e \in LoopEvent /\ e.kind \in {"concept_named", "explanation_submitted"}
                \/ e = Escape(FALSE)
                \/ e = Escape(TRUE) /\ awaiting
<1> DEFINE reading  == read_turn(s, text, awaiting)
           explains == [kind |-> "explanation_submitted", chars |-> text.chars,
                        system_chars |-> 0]
           names    == [kind |-> "concept_named", concept_id |-> text.concept]
<1>1. /\ text.chars \in Nat
      /\ text.concept \in Concepts \cup {None}
  BY DEF Utterance
<1>2. \/ reading = Reading(None, FALSE)
      \/ reading = Reading(None, awaiting)
      \/ reading = Reading(Escape(TRUE), FALSE) /\ awaiting
      \/ reading = Reading(Escape(FALSE), TRUE)
      \/ reading = Reading(explains, awaiting)
      \/ text.concept # None /\ reading = Reading(names, FALSE)
  BY Zenon DEF read_turn
<1>3. \A e, b : Reading(e, b).event = e /\ Reading(e, b).awaiting_escape = b
  BY DEF Reading
<1>4. explains \in LoopEvent /\ explains.kind = "explanation_submitted"
  BY <1>1 DEF LoopEvent
<1>5. text.concept # None => names \in LoopEvent /\ names.kind = "concept_named"
  BY <1>1 DEF LoopEvent
<1> HIDE DEF reading, explains, names
<1>6. /\ reading.awaiting_escape \in BOOLEAN
      /\ reading.awaiting_escape => awaiting \/ reading.event = Escape(FALSE)
      /\ \/ reading.event = None
         \/ /\ reading.event \in LoopEvent
            /\ reading.event.kind \in {"concept_named", "explanation_submitted"}
         \/ reading.event = Escape(FALSE)
         \/ reading.event = Escape(TRUE) /\ awaiting
  <2>1. CASE reading = Reading(None, FALSE)
    <3>1. reading.event = None /\ reading.awaiting_escape = FALSE
      BY <1>3, <2>1
    <3> QED
      BY <3>1
  <2>2. CASE reading = Reading(None, awaiting)
    <3>1. reading.event = None /\ reading.awaiting_escape = awaiting
      BY <1>3, <2>2
    <3> QED
      BY <3>1
  <2>3. CASE reading = Reading(Escape(TRUE), FALSE) /\ awaiting
    <3>1. reading.event = Escape(TRUE) /\ reading.awaiting_escape = FALSE
      BY <1>3, <2>3
    <3> QED
      BY <2>3, <3>1
  <2>4. CASE reading = Reading(Escape(FALSE), TRUE)
    <3>1. reading.event = Escape(FALSE) /\ reading.awaiting_escape = TRUE
      BY <1>3, <2>4
    <3> QED
      BY <3>1
  <2>5. CASE reading = Reading(explains, awaiting)
    <3>1. reading.event = explains /\ reading.awaiting_escape = awaiting
      BY <1>3, <2>5
    <3> QED
      BY <1>4, <3>1
  <2>6. CASE text.concept # None /\ reading = Reading(names, FALSE)
    <3>1. reading.event = names /\ reading.awaiting_escape = FALSE
      BY <1>3, <2>6
    <3> QED
      BY <1>5, <2>6, <3>1
  <2> QED
    BY <1>2, <2>1, <2>2, <2>3, <2>4, <2>5, <2>6
<1> QED
  BY <1>6 DEF reading

\* An escape is a confirmed request, and an unconfirmed one is asked back.
LEMMA EscapeIsConfirmed ==
  ASSUME NEW s, LegalSnapshot(s), NEW e \in LoopEvent
  PROVE  /\ tick(s, e).state.state = "Escaped" =>
              s.state = "Escaped" \/ (e.kind = "escape_requested" /\ e.confirmed)
         /\ tick(s, e).state.state = "Closed" =>
              s.state = "Closed" \/ e.kind = "simplify_judged"
         /\ s.state \in ACTIVE_STATES /\ e = Escape(FALSE) =>
              "confirm_escape" \in tick(s, e).actions
<1>0. DOMAIN s = DOMAIN NewSnapshot
  BY DEF LegalSnapshot, IsSnapshot
<1>1. CASE s.state \in TERMINAL_STATES \/ ~ Accepts(s.state, e.kind)
  <2>1. tick(s, e) = LoopStep(s, {}, {})
    BY <1>1 DEF tick
  <2>2. s.state \in ACTIVE_STATES => e.kind # "escape_requested"
    BY <1>1 DEF Accepts, TRANSITIONS, ACTIVE_STATES, FeynmanState, TERMINAL_STATES
  <2> QED
    BY <2>1, <2>2 DEF LoopStep, Escape
<1>2. CASE ~ (s.state \in TERMINAL_STATES \/ ~ Accepts(s.state, e.kind))
  <2>1. e.kind \in EventKind
    BY DEF LoopEvent, EventKind
  <2>2. s.state \notin {"Closed", "Escaped"}
    BY <1>2 DEF TERMINAL_STATES
  <2>3. CASE e.kind = "concept_named"
    <3>1. tick(s, e).state = [NextLap(s) EXCEPT !.concept_id = e.concept_id,
                                                !.open_gaps = << >>,
                                                !.probes_used = 0]
      BY <1>2, <2>3 DEF tick, OnConceptNamed, LoopStep
    <3>2. DOMAIN NextLap(s) = DOMAIN NewSnapshot /\ NextLap(s).state = "Teach"
      BY <1>0 DEF NextLap, NewSnapshot
    <3>3. tick(s, e).state.state = "Teach"
      BY <3>1, <3>2 DEF NewSnapshot
    <3> QED
      BY <2>3, <3>3 DEF Escape
  <2>4. CASE e.kind = "explanation_submitted"
    <3>1. tick(s, e) = OnExplanationSubmitted(s, e)
      BY <1>2, <2>4 DEF tick
    <3>2. tick(s, e).state.state \in {s.state, "Detect"}
      BY <1>0, <3>1 DEF OnExplanationSubmitted, LoopStep, NewSnapshot
    <3> QED
      BY <2>2, <2>4, <3>2 DEF Escape
  <2>5. CASE e.kind = "gap_reported"
    <3>1. tick(s, e) = OnGapReported(s, e)
      BY <1>2, <2>5 DEF tick
    <3>2. tick(s, e).state.state \in {"Simplify", "Return"}
      BY <1>0, <3>1 DEF OnGapReported, LoopStep, NewSnapshot
    <3> QED
      BY <2>5, <3>2 DEF Escape
  <2>6. CASE e.kind = "supply_completed"
    <3>1. tick(s, e) = OnSupplyCompleted(s, e)
      BY <1>2, <2>6 DEF tick
    <3>2. tick(s, e).state.state \in {s.state, "Teach"}
      BY <1>0, <3>1 DEF OnSupplyCompleted, LoopStep, NextLap, NewSnapshot
    <3> QED
      BY <2>2, <2>6, <3>2 DEF Escape
  <2>7. CASE e.kind = "simplify_judged"
    <3>1. tick(s, e) = OnSimplifyJudged(s, e)
      BY <1>2, <2>7 DEF tick
    <3>2. tick(s, e).state.state \in {s.state, "Teach", "Closed"}
      BY <1>0, <3>1 DEF OnSimplifyJudged, LoopStep, NextLap, NewSnapshot
    <3> QED
      BY <2>2, <2>7, <3>2 DEF Escape
  <2>8. CASE e.kind = "escape_requested"
    <3>1. tick(s, e) = OnEscapeRequested(s, e)
      BY <1>2, <2>8 DEF tick
    <3>2. /\ e.confirmed => tick(s, e).state.state = "Escaped"
          /\ ~ e.confirmed => /\ tick(s, e).state.state = s.state
                              /\ "confirm_escape" \in tick(s, e).actions
      BY <1>0, <3>1 DEF OnEscapeRequested, LoopStep, NewSnapshot
    <3> QED
      BY <2>2, <2>8, <3>2 DEF Escape
  <2> QED
    BY <2>1, <2>3, <2>4, <2>5, <2>6, <2>7, <2>8 DEF EventKind
<1> QED
  BY <1>1, <1>2

\* Both escapes a text can be read as are events.
LEMMA EscapeIsEvent == \A b \in BOOLEAN : Escape(b) \in LoopEvent
BY DEF Escape, LoopEvent

\* A turn starts from a legal loop or a new one and leaves it legal and not
\* closed; it leaves a question open, or an escape behind, only where the loop it
\* resumed was waiting, or it asks now.
LEMMA PreparedIsLegal ==
  ASSUME NEW raw, raw # None => Lineage(raw), NEW text \in Utterance
  PROVE  Lineage(prepare_turn(raw, text).carrier)
<1> DEFINE waiting == Resumes(raw) /\ raw.awaiting_escape
           base    == IF Resumes(raw) THEN raw.state ELSE NewSnapshot
           reading == read_turn(base, text, waiting)
           event   == reading.event
           step    == IF event = None THEN LoopStep(base, {}, {}) ELSE tick(base, event)
           asked   == "confirm_escape" \in step.actions \/ (Resumes(raw) /\ raw.asked)
           credits == IF Resumes(raw) THEN raw.credits ELSE 0
           carrier == prepare_turn(raw, text).carrier
<1>1. waiting \in BOOLEAN
  BY DEF Resumes, Parses, Lineage, IsCarrier
<1>2. /\ LegalSnapshot(base)
      /\ base.state \in ACTIVE_STATES
      /\ credits = 0
      /\ waiting => asked
  <2>1. CASE Resumes(raw)
    <3>1. raw # None /\ raw.state.state \notin TERMINAL_STATES
      BY <2>1 DEF Resumes, Parses
    <3>2. LegalSnapshot(raw.state) /\ Lineage(raw)
      BY <3>1 DEF Lineage, IsCarrier
    <3>3. base = raw.state /\ credits = raw.credits
      BY <2>1
    <3>4. credits = 0
      BY <3>1, <3>2, <3>3 DEF Lineage, TERMINAL_STATES
    <3>5. waiting => asked
      <4>1. raw.awaiting_escape => raw.asked
        BY <3>2 DEF Lineage
      <4> QED
        BY <2>1, <4>1, Zenon
    <3>6. base.state \in ACTIVE_STATES
      BY <3>1, <3>2, <3>3 DEF LegalSnapshot, IsSnapshot, FeynmanState
    <3> QED
      BY <3>2, <3>3, <3>4, <3>5, <3>6, Zenon
  <2>2. CASE ~ Resumes(raw)
    <3>1. base = NewSnapshot /\ credits = 0 /\ ~ waiting
      BY <2>2
    <3>2. base.state \in ACTIVE_STATES
      BY <3>1 DEF NewSnapshot, ACTIVE_STATES
    <3>3. LegalSnapshot(base)
      BY <3>1, NewIsLegal
    <3> QED
      BY <3>1, <3>2, <3>3, Zenon
  <2> QED
    BY <2>1, <2>2
<1>3. carrier = LoopCarrier(step.state, reading.awaiting_escape, asked, credits)
  BY Zenon DEF prepare_turn
<1>4. /\ reading.awaiting_escape \in BOOLEAN
      /\ reading.awaiting_escape => waiting \/ event = Escape(FALSE)
      /\ \/ event = None
         \/ event \in LoopEvent /\ event.kind \in {"concept_named", "explanation_submitted"}
         \/ event = Escape(FALSE)
         \/ event = Escape(TRUE) /\ waiting
  BY <1>1, ReadingIsLearners
<1>5. asked \in BOOLEAN
  <2>1. Resumes(raw) => raw.asked \in BOOLEAN
    BY DEF Resumes, Parses, Lineage
  <2> QED
    BY <2>1
<1> HIDE DEF base, carrier, waiting, credits, reading, event
<1>6. /\ LegalSnapshot(step.state)
      /\ step.state.state # "Closed"
      /\ step.state.state = "Escaped" => waiting
      /\ event = Escape(FALSE) => "confirm_escape" \in step.actions
  <2> HIDE DEF asked
  <2>1. CASE event = None
    <3>1. step = LoopStep(base, {}, {}) /\ event # Escape(FALSE)
      BY <2>1, EscapeIsEvent, ChatAssumption DEF ChatAssumption
    <3>2. step.state = base
      BY <3>1 DEF LoopStep
    <3> HIDE DEF step
    <3> QED
      BY <1>2, <3>1, <3>2 DEF ACTIVE_STATES
  <2>2. CASE event # None
    <3>0. /\ Escape(TRUE) \in LoopEvent /\ Escape(TRUE).kind = "escape_requested"
          /\ Escape(FALSE) \in LoopEvent /\ Escape(FALSE).kind = "escape_requested"
          /\ ~ Escape(FALSE).confirmed
      BY EscapeIsEvent DEF Escape
    <3>1. /\ event \in LoopEvent
          /\ event.kind # "simplify_judged"
          /\ event.kind = "escape_requested" /\ event.confirmed => waiting
      <4> HIDE DEF step
      <4> QED
        BY <1>4, <2>2, <3>0
    <3>2. step = tick(base, event)
      BY <2>2
    <3>3. LegalSnapshot(step.state)
      BY <1>2, <3>1, <3>2, TickIsLegal
    <3> QED
      BY <1>2, <3>1, <3>2, <3>3, EscapeIsConfirmed DEF ACTIVE_STATES
  <2> QED
    BY <2>1, <2>2
<1>7. event = Escape(FALSE) => asked
  BY <1>6
<1> HIDE DEF step, asked
<1>8. /\ carrier.state = step.state
      /\ carrier.awaiting_escape = reading.awaiting_escape
      /\ carrier.asked = asked
      /\ carrier.credits = credits
  BY <1>3 DEF LoopCarrier
<1>9. Lineage(carrier)
  <2>1. IsCarrier(carrier)
    BY <1>4, <1>6, <1>8 DEF IsCarrier
  <2>2. carrier.awaiting_escape => carrier.asked
    BY <1>2, <1>4, <1>7, <1>8
  <2>3. carrier.state.state = "Escaped" => carrier.asked
    BY <1>2, <1>6, <1>8
  <2>4. carrier.credits = IF carrier.state.state = "Closed" THEN 1 ELSE 0
    BY <1>2, <1>6, <1>8
  <2>5. carrier = LoopCarrier(carrier.state, carrier.awaiting_escape,
                              carrier.asked, carrier.credits)
    BY <1>3, <1>8
  <2>6. carrier.asked \in BOOLEAN
    BY <1>5, <1>8
  <2> QED
    BY <2>1, <2>2, <2>3, <2>4, <2>5, <2>6, Zenon DEF Lineage
<1> QED
  BY <1>9 DEF carrier

-----------------------------------------------------------------------------
(* What a trail of tutor events is credited with *)

\* One step credits exactly when it closes the loop, and a closed loop stays.
LEMMA MovesCredit ==
  ASSUME NEW s, NEW step, Moves(s, step)
  PROVE  /\ s.state = "Closed" => /\ step.state.state = "Closed"
                                  /\ "record_mastery" \notin step.actions
         /\ s.state # "Closed" =>
              ("record_mastery" \in step.actions <=> step.state.state = "Closed")
BY DEF Moves, ACTIVE_STATES

\* A trail credits once if it closes the loop, and not at all if it does not or
\* the loop was closed before.
LEMMA TrailCredits ==
  ASSUME NEW s, LegalSnapshot(s), NEW events \in Seq(LoopEvent)
  PROVE  LET trail  == Trail(s, events)
             closed == trail[Len(events)].state.state = "Closed"
             count  == Cardinality({ i \in DOMAIN events :
                                       "record_mastery" \in trail[i].actions })
         IN  /\ s.state = "Closed" => closed /\ count = 0
             /\ s.state # "Closed" => count = IF closed THEN 1 ELSE 0
<1> DEFINE n         == Len(events)
           trail     == Trail(s, events)
           closed(m) == trail[m].state.state = "Closed"
           paid(k)   == "record_mastery" \in trail[k].actions
           Agrees(m) == /\ s.state = "Closed" => closed(m) /\ \A k \in 1..m : ~ paid(k)
                        /\ s.state # "Closed" /\ ~ closed(m) => \A k \in 1..m : ~ paid(k)
                        /\ s.state # "Closed" /\ closed(m) =>
                             \E j \in 1..m : \A k \in 1..m : paid(k) <=> k = j
           P         == { m \in Nat : m <= n => Agrees(m) }
<1>0. n \in Nat /\ DOMAIN events = 1..n
  OBVIOUS
<1>1. /\ trail[0] = LoopStep(s, {}, {})
      /\ \A i \in 1..n : Moves(trail[i - 1].state, trail[i])
  BY TrailIsLegal
<1> HIDE DEF trail
<1>2. 0 \in P
  BY <1>1 DEF LoopStep
<1> HIDE DEF Agrees
<1>3. ASSUME NEW m \in Nat, m \in P PROVE m + 1 \in P
  <2> SUFFICES ASSUME m + 1 <= n PROVE Agrees(m + 1)
    OBVIOUS
  <2>1. Agrees(m) /\ m + 1 \in 1..n /\ (m + 1) - 1 = m
    BY <1>0, <1>3
  <2>2. /\ closed(m) => closed(m + 1) /\ ~ paid(m + 1)
        /\ ~ closed(m) => (paid(m + 1) <=> closed(m + 1))
    <3>1. Moves(trail[m].state, trail[m + 1])
      BY <1>1, <2>1
    <3> QED
      BY <3>1, MovesCredit
  <2>3. \A k \in 1..(m + 1) : k \in 1..m \/ k = m + 1
    OBVIOUS
  <2>4. 1..m \subseteq 1..(m + 1) /\ m + 1 \in 1..(m + 1) /\ m + 1 \notin 1..m
    OBVIOUS
  <2> HIDE DEF closed, paid
  <2> USE DEF Agrees
  <2>5. CASE s.state = "Closed"
    BY <2>1, <2>2, <2>3, <2>5
  <2>6. CASE s.state # "Closed" /\ closed(m)
    <3>1. PICK j \in 1..m : \A k \in 1..m : paid(k) <=> k = j
      BY <2>1, <2>6
    <3>2. j \in 1..(m + 1) /\ \A k \in 1..(m + 1) : paid(k) <=> k = j
      BY <2>2, <2>3, <2>4, <2>6, <3>1
    <3> QED
      BY <2>2, <2>6, <3>2
  <2>7. CASE s.state # "Closed" /\ ~ closed(m)
    <3>1. \A k \in 1..m : ~ paid(k)
      BY <2>1, <2>7
    <3>2. CASE closed(m + 1)
      <4>1. \A k \in 1..(m + 1) : paid(k) <=> k = m + 1
        BY <2>2, <2>3, <2>4, <2>7, <3>1, <3>2
      <4> QED
        BY <2>4, <2>7, <3>2, <4>1
    <3>3. CASE ~ closed(m + 1)
      BY <2>2, <2>3, <2>7, <3>1, <3>3
    <3> QED
      BY <3>2, <3>3
  <2> QED
    BY <2>5, <2>6, <2>7
<1>4. Nat \subseteq P
  <2> HIDE DEF P
  <2> QED
    BY <1>2, <1>3, NatSetInduction
<1>5. Agrees(n)
  BY <1>0, <1>4
<1> DEFINE credited == { i \in DOMAIN events : paid(i) }
<1>6. /\ s.state = "Closed" => closed(n) /\ credited = {}
      /\ s.state # "Closed" /\ ~ closed(n) => credited = {}
      /\ s.state # "Closed" /\ closed(n) => \E j : credited = {j}
  <2> HIDE DEF paid, closed
  <2> USE DEF Agrees
  <2>1. s.state = "Closed" => closed(n) /\ credited = {}
    BY <1>0, <1>5
  <2>2. s.state # "Closed" /\ ~ closed(n) => credited = {}
    BY <1>0, <1>5
  <2>3. ASSUME s.state # "Closed", closed(n) PROVE \E j : credited = {j}
    <3>1. PICK j \in 1..n : \A k \in 1..n : paid(k) <=> k = j
      BY <1>5, <2>3
    <3>2. credited = {j}
      BY <1>0, <3>1
    <3> QED
      BY <3>2
  <2> QED
    BY <2>1, <2>2, <2>3
<1>7. /\ s.state = "Closed" => closed(n) /\ Cardinality(credited) = 0
      /\ s.state # "Closed" => Cardinality(credited) = IF closed(n) THEN 1 ELSE 0
  <2> HIDE DEF closed, credited
  <2>1. Cardinality({}) = 0 /\ \A j : Cardinality({j}) = 1
    BY FS_EmptySet, FS_Singleton
  <2> QED
    BY <1>6, <2>1
<1> QED
  BY <1>7 DEF trail

\* Nothing a tutor reports lets the learner out of the loop.
LEMMA TrailKeepsIn ==
  ASSUME NEW s, LegalSnapshot(s), NEW events \in Seq(TutorEvent)
  PROVE  Trail(s, events)[Len(events)].state.state = "Escaped" => s.state = "Escaped"
<1> DEFINE n     == Len(events)
           trail == Trail(s, events)
           P     == { m \in Nat : m <= n /\ trail[m].state.state = "Escaped" =>
                                    s.state = "Escaped" }
<1>0. /\ n \in Nat
      /\ \A i \in 1..n : events[i] \in TutorEvent
  OBVIOUS
<1>1. events \in Seq(LoopEvent)
  BY DEF TutorEvent
<1>2. /\ trail[0] = LoopStep(s, {}, {})
      /\ \A i \in 0..n : LegalSnapshot(trail[i].state)
      /\ \A i \in 1..n : trail[i] = tick(trail[i - 1].state, events[i])
  BY <1>0, <1>1, TrailIsLegal, TrailSteps
<1> HIDE DEF trail
<1>3. 0 \in P
  BY <1>2 DEF LoopStep
<1>4. ASSUME NEW m \in Nat, m \in P PROVE m + 1 \in P
  <2> SUFFICES ASSUME m + 1 <= n, trail[m + 1].state.state = "Escaped"
               PROVE  s.state = "Escaped"
    OBVIOUS
  <2>1. m \in 0..n /\ m <= n /\ m + 1 \in 1..n /\ (m + 1) - 1 = m
    BY <1>0
  <2>2. LegalSnapshot(trail[m].state) /\ trail[m + 1] = tick(trail[m].state, events[m + 1])
    BY <1>2, <2>1
  <2>3. events[m + 1] \in LoopEvent /\ events[m + 1].kind # "escape_requested"
    BY <1>0, <2>1 DEF TutorEvent, TUTOR_EVENT_KINDS
  <2>4. trail[m].state.state = "Escaped"
    <3> DEFINE x == trail[m].state
               e == events[m + 1]
    <3>1. LegalSnapshot(x) /\ e \in LoopEvent /\ e.kind # "escape_requested"
      BY <2>2, <2>3
    <3>2. tick(x, e).state.state = "Escaped"
      BY <2>2
    <3> HIDE DEF x, e
    <3>3. x.state = "Escaped"
      BY <3>1, <3>2, EscapeIsConfirmed
    <3> QED
      BY <3>3 DEF x
  <2> QED
    BY <1>4, <2>1, <2>4
<1>5. Nat \subseteq P
  <2> HIDE DEF P
  <2> QED
    BY <1>3, <1>4, NatSetInduction
<1> QED
  BY <1>0, <1>5 DEF trail

-----------------------------------------------------------------------------
(* What a model message does *)

\* The length of a text that went through both guards is a number.
LEMMA GuardedLength ==
  ASSUME NEW m \in Message, NEW phase,
         NEW kept \in enforce_monologue_cap(enforce_no_direct_answer(phase, m).chars)
  PROVE  kept \in Nat
<1> DEFINE chars == enforce_no_direct_answer(phase, m).chars
<1>1. HintChars \in Nat /\ MonologueCap \in Nat
  BY ChatAssumption DEF ChatAssumption
<1>2. m.chars \in Nat /\ m.preface \in Nat
  BY DEF Message
<1>3. chars \in {m.preface + HintChars, m.chars}
  BY DEF enforce_no_direct_answer, Text
<1> HIDE DEF chars
<1>4. chars \in Nat
  BY <1>1, <1>2, <1>3
<1>5. kept \in {chars} \/ kept \in (MonologueCap \div 2)..MonologueCap
  BY DEF enforce_monologue_cap, chars
<1> QED
  BY <1>1, <1>4, <1>5

\* Counting what was said leaves a legal snapshot legal, in the same phase.
LEMMA TalkedIsLegal ==
  ASSUME NEW s, LegalSnapshot(s), NEW n \in 0..TalkCap
  PROVE  /\ LegalSnapshot([s EXCEPT !.system_chars = n])
         /\ [s EXCEPT !.system_chars = n].state = s.state
<1> DEFINE t == [s EXCEPT !.system_chars = n]
<1>1. IsSnapshot(t) /\ t.state = s.state
  BY DEF LegalSnapshot, IsSnapshot, NewSnapshot
<1>2. LapsInBudget(t) /\ GapsAccounted(t) /\ ConceptKnown(t) /\ ClosureEvidenced(t)
  BY DEF LegalSnapshot, IsSnapshot, LapsInBudget, GapsAccounted,
         ConceptKnown, ClosureEvidenced, NewSnapshot
<1> QED
  BY <1>1, <1>2 DEF LegalSnapshot

\* The snapshot a message leads to is shown by its card.
LEMMA SpokenShows ==
  ASSUME NEW s, LegalSnapshot(s), NEW card, Shows(card, s), NEW n \in 0..TalkCap
  PROVE  LET t == [s EXCEPT !.system_chars = n]
         IN  /\ Shows(card, t)
             /\ card # None => [card EXCEPT !.system_chars = t.system_chars] = t
<1> DEFINE t == [s EXCEPT !.system_chars = n]
<1>1. "system_chars" \in DOMAIN s
  BY DEF LegalSnapshot, IsSnapshot, NewSnapshot
<1>2. t.system_chars = n
  BY <1>1
<1>3. ASSUME NEW k \in 0..TalkCap
      PROVE  [t EXCEPT !.system_chars = k] = [s EXCEPT !.system_chars = k]
  BY <1>1
<1> HIDE DEF t
<1>4. Shows(card, t)
  BY <1>3 DEF Shows
<1>5. card # None => [card EXCEPT !.system_chars = t.system_chars] = t
  BY <1>2 DEF Shows, t
<1> QED
  BY <1>4, <1>5 DEF t

\* A loop that is ticked and credited as it is closed keeps the rest of its
\* history.
LEMMA AdvanceCarries ==
  ASSUME NEW c, Lineage(c), NEW t, LegalSnapshot(t), NEW k \in Nat,
         c.credits + k = IF t.state = "Closed" THEN 1 ELSE 0,
         t.state = "Escaped" => c.asked
  PROVE  LET d == [Advance(c, t) EXCEPT !.credits = @ + k]
         IN  Lineage(d) /\ d.state = t
<1> DEFINE d == [Advance(c, t) EXCEPT !.credits = @ + k]
<1>1. d = LoopCarrier(t, c.awaiting_escape, c.asked, c.credits + k)
  <2> DEFINE a == c.state
             w == c.awaiting_escape
             q == c.asked
             x == c.credits
  <2>1. c = LoopCarrier(a, w, q, x)
    BY DEF Lineage
  <2>2. d = [Advance(c, t) EXCEPT !.credits = x + k]
    BY <2>1 DEF Advance, LoopCarrier
  <2> HIDE DEF a, w, q, x, d
  <2>3. d = LoopCarrier(t, w, q, x + k)
    BY <2>1, <2>2 DEF Advance, LoopCarrier
  <2> QED
    BY <2>3 DEF w, q, x
<1>2. /\ d.state = t
      /\ d.awaiting_escape = c.awaiting_escape
      /\ d.asked = c.asked
      /\ d.credits = c.credits + k
  BY <1>1 DEF LoopCarrier
<1> HIDE DEF d
<1>3. Lineage(d)
  BY <1>1, <1>2 DEF Lineage, IsCarrier
<1> QED
  BY <1>2, <1>3 DEF d

\* What AfterModelTaught does to the slot and the channel: the message leads to
\* current, and n characters have been said by then.
Spoken(r, current, n) ==
  /\ LegalSnapshot(current)
  /\ Lineage(channel')
  /\ channel'.state = [current EXCEPT !.system_chars = n]
  /\ DOMAIN req' = Requests
  /\ \A p \in Requests : p # r => req'[p] = req[p]
  /\ DOMAIN req'[r] = DOMAIN req[r]
  /\ req'[r].taught
  /\ req'[r].taught \in BOOLEAN
  /\ req'[r].pc \in {"tools", "end"}
  /\ req'[r].carrier = channel'
  /\ req'[r].local = channel'
  /\ Shows(req'[r].card, current)

\* A model message of a taught turn does nothing else.
LEMMA TaughtMessage ==
  ASSUME NEW r \in Requests, DOMAIN req = Requests, Sound(req[r]), AfterModelTaught(r)
  PROVE  \E current, n : n \in 0..TalkCap /\ Spoken(r, current, n)
<1> DEFINE m       == req[r].msg
           c       == req[r].carrier
           events  == parse_tutor_events(m.events)
           trail   == Trail(c.state, events)
           current == trail[Len(events)].state
           guarded == enforce_no_direct_answer(current.state, m)
           count   == Credited(trail, events)
<1>1. /\ req[r].pc = "after"
      /\ req[r].taught
      /\ m \in Messages
      /\ Lineage(c)
      /\ Shows(req[r].card, c.state)
      /\ LegalSnapshot(c.state)
  BY DEF AfterModelTaught, Sound, Lineage, IsCarrier
<1>2. m \in Message /\ m.events \in Seq(LoopEvent)
  BY <1>1, ChatAssumption DEF ChatAssumption, Message
<1>3. events \in Seq(TutorEvent) /\ events \in Seq(LoopEvent)
  <2>1. events \in Seq(TutorEvent)
    BY <1>2, ParsedAreTutors
  <2> QED
    BY <2>1 DEF TutorEvent
<1>4. LegalSnapshot(current)
  <2>1. Len(events) \in 0..Len(events)
    BY <1>3
  <2> QED
    BY <1>1, <1>3, <2>1, TrailIsLegal
<1>5. PICK kept \in enforce_monologue_cap(guarded.chars) :
        LET said    == [current EXCEPT
                          !.system_chars = Add(current.system_chars, kept)]
            carrier == [Advance(c, said) EXCEPT !.credits = @ + count]
            low     == TalkRatioLow(said.learner_chars, said.system_chars)
        IN  /\ req' = [req EXCEPT
                 ![r].pc      = AfterModelPc(m),
                 ![r].msg     = None,
                 ![r].carrier = carrier,
                 ![r].local   = carrier,
                 ![r].card    = IF events = << >> THEN req[r].card ELSE current,
                 ![r].ratio   = CASE req[r].ratio # "due" -> req[r].ratio
                                  [] OTHER -> IF low THEN "raised" ELSE "passed"]
            /\ channel' = carrier
  BY Zenon DEF AfterModelTaught
<1> DEFINE said    == [current EXCEPT !.system_chars = Add(current.system_chars, kept)]
           carrier == [Advance(c, said) EXCEPT !.credits = @ + count]
           card    == IF events = << >> THEN req[r].card ELSE current
<1>6. PICK n \in 0..TalkCap : n = Add(current.system_chars, kept)
  <2>1. kept \in Nat
    BY <1>2, <1>5, GuardedLength
  <2>2. current.system_chars \in 0..TalkCap
    BY <1>4 DEF LegalSnapshot, IsSnapshot
  <2> QED
    BY <2>1, <2>2, AddInRange
<1>7. said = [current EXCEPT !.system_chars = n]
  BY <1>6
<1>8. LegalSnapshot(said) /\ said.state = current.state
  BY <1>4, <1>7, TalkedIsLegal
<1>9. /\ count \in Nat
      /\ c.credits + count = IF said.state = "Closed" THEN 1 ELSE 0
  <2>1. /\ c.state.state = "Closed" => current.state = "Closed" /\ count = 0
        /\ c.state.state # "Closed" => count = IF current.state = "Closed" THEN 1 ELSE 0
    BY <1>1, <1>3, TrailCredits DEF Credited
  <2>2. c.credits = IF c.state.state = "Closed" THEN 1 ELSE 0
    BY <1>1 DEF Lineage
  <2> HIDE DEF count, current, said, c
  <2> QED
    BY <1>8, <2>1, <2>2
<1>10. said.state = "Escaped" => c.asked
  <2>1. current.state = "Escaped" => c.state.state = "Escaped"
    BY <1>1, <1>3, TrailKeepsIn
  <2>2. c.state.state = "Escaped" => c.asked
    BY <1>1 DEF Lineage
  <2> HIDE DEF current, said, c
  <2> QED
    BY <1>8, <2>1, <2>2
<1>11. Lineage(carrier) /\ carrier.state = said
  <2> HIDE DEF c, said, count
  <2> QED
    BY <1>1, <1>8, <1>9, <1>10, AdvanceCarries
<1>12. Shows(card, current)
  <2>1. CASE events = << >>
    <3>1. Len(events) = 0
      BY <2>1
    <3>2. trail[0] = LoopStep(c.state, {}, {})
      BY <3>1, TrailSteps
    <3>3. current = c.state
      BY <3>1, <3>2 DEF LoopStep
    <3> HIDE DEF current, c, events
    <3> QED
      BY <1>1, <2>1, <3>3
  <2>2. CASE events # << >>
    <3>1. card = current
      BY <2>2
    <3> HIDE DEF card, current
    <3> QED
      BY <3>1 DEF Shows
  <2> QED
    BY <2>1, <2>2
<1>13. DOMAIN req[r] = {"pc", "taught", "carrier", "local", "msg", "card", "ratio"}
  BY DEF Sound, IdleRequest
<1>14. channel' = carrier
  BY <1>5
<1>15. /\ DOMAIN req' = Requests
       /\ \A p \in Requests : p # r => req'[p] = req[p]
       /\ DOMAIN req'[r] = DOMAIN req[r]
       /\ req'[r].taught = req[r].taught
       /\ req'[r].pc \in {"tools", "end"}
       /\ req'[r].carrier = carrier
       /\ req'[r].local = carrier
       /\ req'[r].card = card
  <2> DEFINE low   == TalkRatioLow(said.learner_chars, said.system_chars)
             ratio == CASE req[r].ratio # "due" -> req[r].ratio
                        [] OTHER -> IF low THEN "raised" ELSE "passed"
             pc    == AfterModelPc(m)
  <2>1. req' = [req EXCEPT ![r].pc = pc, ![r].msg = None, ![r].carrier = carrier,
                           ![r].local = carrier, ![r].card = card, ![r].ratio = ratio]
    BY <1>5
  <2>2. pc \in {"tools", "end"}
    BY DEF AfterModelPc
  <2> HIDE DEF carrier, card, ratio, pc
  <2> QED
    BY <1>13, <2>1, <2>2
<1>16. req[r].taught \in BOOLEAN
  BY DEF Sound
<1> HIDE DEF carrier, card, m, said, current
<1>17. Spoken(r, current, n)
  BY <1>1, <1>4, <1>7, <1>11, <1>12, <1>14, <1>15, <1>16 DEF Spoken
<1> QED
  BY <1>6, <1>17

-----------------------------------------------------------------------------
(* Every loop there is keeps its history *)

\* A step of request r leaves the other slots alone and its own one sound.
KeepsSound(r) ==
  /\ DOMAIN req' = Requests
  /\ \A p \in Requests : p # r => req'[p] = req[p]
  /\ Sound(req'[r])
  /\ channel' # None => Lineage(channel')

\* A slot that is not in use is sound.
LEMMA IdleIsSound == Sound(IdleRequest)
BY DEF Sound, IdleRequest

\* Every step of a request keeps every slot sound and the saved loop's history.
LEMMA NextKeepsChatInv ==
  ASSUME ChatInv, NEW r \in Requests,
         \/ \E text \in Utterances : PrepareTaught(r, text)
         \/ PreparePlain(r)
         \/ StartStream(r)
         \/ \E m \in Messages : CallModel(r, m)
         \/ AfterModelPlain(r)
         \/ AfterModelTaught(r)
         \/ RunTools(r)
         \/ Finish(r)
         \/ Abort(r)
  PROVE  ChatInv'
<1>0. /\ DOMAIN req = Requests
      /\ Sound(req[r])
      /\ channel # None => Lineage(channel)
      /\ DOMAIN req[r] = {"pc", "taught", "carrier", "local", "msg", "card", "ratio"}
  BY DEF ChatInv, Sound, IdleRequest
<1>1. SUFFICES KeepsSound(r)
  BY DEF ChatInv, KeepsSound
<1>2. ASSUME NEW text \in Utterances, PrepareTaught(r, text) PROVE KeepsSound(r)
  <2> DEFINE turn == prepare_turn(channel, text)
             q    == [IdleRequest EXCEPT
                        !.pc = "prepared",
                        !.taught = TRUE,
                        !.carrier = turn.carrier,
                        !.card = IF turn.ticked THEN turn.carrier.state ELSE None]
  <2>1. req' = [req EXCEPT ![r] = q] /\ channel' = channel
    BY <1>2 DEF PrepareTaught
  <2>2. Lineage(turn.carrier)
    <3>1. text \in Utterance
      BY ChatAssumption DEF ChatAssumption
    <3> QED
      BY <1>0, <3>1, PreparedIsLegal
  <2> HIDE DEF turn
  <2>3. Sound(q)
    BY <2>2 DEF Sound, Shows, IdleRequest
  <2> HIDE DEF q
  <2> QED
    BY <1>0, <2>1, <2>3 DEF KeepsSound
<1>3. ASSUME PreparePlain(r) PROVE KeepsSound(r)
  <2> DEFINE q == [IdleRequest EXCEPT !.pc = "prepared"]
  <2>1. req' = [req EXCEPT ![r] = q] /\ channel' = channel
    BY <1>3 DEF PreparePlain
  <2>2. Sound(q)
    BY DEF Sound, IdleRequest
  <2> HIDE DEF q
  <2> QED
    BY <1>0, <2>1, <2>2 DEF KeepsSound
<1>4. ASSUME StartStream(r) PROVE KeepsSound(r)
  BY <1>0, <1>4 DEF StartStream, Sound, KeepsSound
<1>5. ASSUME NEW m \in Messages, CallModel(r, m) PROVE KeepsSound(r)
  BY <1>0, <1>5 DEF CallModel, Sound, KeepsSound
<1>6. ASSUME AfterModelPlain(r) PROVE KeepsSound(r)
  BY <1>0, <1>6 DEF AfterModelPlain, AfterModelPc, Sound, KeepsSound
<1>7. ASSUME AfterModelTaught(r) PROVE KeepsSound(r)
  <2>1. PICK current, n : n \in 0..TalkCap /\ Spoken(r, current, n)
    BY <1>0, <1>7, TaughtMessage
  <2> DEFINE said == [current EXCEPT !.system_chars = n]
             card == req'[r].card
  <2>2. LegalSnapshot(current) /\ Shows(card, current) /\ n \in 0..TalkCap
    BY <2>1 DEF Spoken
  <2>3. channel'.state = said
    BY <2>1 DEF Spoken
  <2>4. Shows(card, said)
    BY <2>2, SpokenShows
  <2> HIDE DEF said
  <2>5. Shows(card, channel'.state)
    BY <2>3, <2>4
  <2> QED
    BY <1>0, <2>1, <2>5 DEF Spoken, Sound, KeepsSound
<1>8. ASSUME RunTools(r) PROVE KeepsSound(r)
  BY <1>0, <1>8 DEF RunTools, Sound, KeepsSound
<1>9. ASSUME Finish(r) PROVE KeepsSound(r)
  BY <1>0, <1>9, IdleIsSound DEF Finish, KeepsSound
<1>10. ASSUME Abort(r) PROVE KeepsSound(r)
  BY <1>0, <1>10, IdleIsSound DEF Abort, KeepsSound
<1> QED
  BY <1>2, <1>3, <1>4, <1>5, <1>6, <1>7, <1>8, <1>9, <1>10

\* Along every behaviour, with any number of requests open together, every slot is
\* sound and every loop agrees with its history.
THEOREM ChatInductive == Spec => []ChatInv
<1>1. Init => ChatInv
  BY IdleIsSound DEF Init, ChatInv
<1>2. ChatInv /\ [Next]_vars => ChatInv'
  <2>1. ASSUME ChatInv, Next PROVE ChatInv'
    <3>1. PICK r \in Requests :
            \/ \E text \in Utterances : PrepareTaught(r, text)
            \/ PreparePlain(r)
            \/ StartStream(r)
            \/ \E m \in Messages : CallModel(r, m)
            \/ AfterModelPlain(r)
            \/ AfterModelTaught(r)
            \/ RunTools(r)
            \/ Finish(r)
            \/ Abort(r)
      BY <2>1 DEF Next
    <3> QED
      BY <2>1, <3>1, NextKeepsChatInv
  <2>2. ASSUME ChatInv, UNCHANGED vars PROVE ChatInv'
    BY <2>2 DEF ChatInv, vars
  <2> QED
    BY <2>1, <2>2
<1> QED
  BY <1>1, <1>2, PTL DEF Spec

\* Every loop the invariant speaks of agrees with its history.
LEMMA LoopsAreLineages ==
  ASSUME ChatInv, NEW loop \in Loops
  PROVE  Lineage(loop)
<1>1. CASE loop = channel
  BY <1>1 DEF ChatInv, Loops
<1>2. ASSUME NEW r \in Requests, loop = req[r].carrier PROVE Lineage(loop)
  BY <1>2 DEF ChatInv, Sound, Loops
<1>3. ASSUME NEW r \in Requests, loop = req[r].local PROVE Lineage(loop)
  BY <1>3 DEF ChatInv, Sound, Loops
<1> QED
  BY <1>1, <1>2, <1>3 DEF Loops

\* Every loop that is saved, and every loop a run has reached, is one the kernel
\* may produce, however many requests run together on the thread.
THEOREM ChannelAlwaysLegal == Spec => []ChannelLegal
<1>1. ChatInv => ChannelLegal
  BY DEF ChatInv, Sound, Lineage, ChannelLegal
<1> QED
  BY <1>1, ChatInductive, PTL

\* However many requests carry a loop and however they overlap, its history holds
\* one credit if it is closed and none if it is not.
THEOREM CreditsOnce == Spec => []CreditedOnce
<1>1. ChatInv => CreditedOnce
  BY LoopsAreLineages DEF Lineage, CreditedOnce
<1> QED
  BY <1>1, ChatInductive, PTL

\* Nobody gets out of a loop that has not asked to confirm it.
THEOREM EscapeAlwaysAsked == Spec => []EscapeWasAsked
<1>1. ChatInv => EscapeWasAsked
  BY LoopsAreLineages DEF Lineage, EscapeWasAsked
<1> QED
  BY <1>1, ChatInductive, PTL

\* What one request's model message leaves behind.
CardSaved(r) ==
  /\ req[r].pc = "after"
  /\ req'[r].pc \in {"tools", "end"}
  /\ req'[r].card # None
  => [req'[r].card EXCEPT !.system_chars = channel'.state.system_chars] = channel'.state

\* The last card a request has sent when a message has been dealt with shows the
\* loop that is saved with it, whatever other requests do.
THEOREM CardAlwaysSaved == Spec => CardIsSaved
<1>1. ChatInv /\ [Next]_vars => [\A r \in Requests : CardSaved(r)]_vars
  <2>1. ASSUME ChatInv, Next, NEW r \in Requests,
               req[r].pc = "after", req'[r].pc \in {"tools", "end"}, req'[r].card # None
        PROVE  [req'[r].card EXCEPT !.system_chars = channel'.state.system_chars]
                 = channel'.state
    <3>0. /\ DOMAIN req = Requests
          /\ Sound(req[r])
          /\ DOMAIN req[r] = {"pc", "taught", "carrier", "local", "msg", "card", "ratio"}
      BY <2>1 DEF ChatInv, Sound, IdleRequest
    <3>1. PICK p \in Requests :
            \/ \E text \in Utterances : PrepareTaught(p, text)
            \/ PreparePlain(p) \/ StartStream(p)
            \/ \E m \in Messages : CallModel(p, m)
            \/ AfterModelPlain(p) \/ AfterModelTaught(p)
            \/ RunTools(p) \/ Finish(p) \/ Abort(p)
      BY <2>1 DEF Next
    <3>2. p = r
      <4>1. p # r => req'[r] = req[r]
        <5>1. CASE AfterModelTaught(p)
          <6>1. Sound(req[p])
            BY <2>1 DEF ChatInv
          <6>2. PICK current, n : n \in 0..TalkCap /\ Spoken(p, current, n)
            BY <3>0, <5>1, <6>1, TaughtMessage
          <6> QED
            BY <6>2 DEF Spoken
        <5>2. CASE \E text \in Utterances : PrepareTaught(p, text)
          BY <3>0, <5>2 DEF PrepareTaught
        <5>3. CASE \/ PreparePlain(p) \/ StartStream(p)
                   \/ \E m \in Messages : CallModel(p, m)
                   \/ AfterModelPlain(p) \/ RunTools(p) \/ Finish(p) \/ Abort(p)
          BY <3>0, <5>3 DEF PreparePlain, StartStream, CallModel, AfterModelPlain,
                            RunTools, Finish, Abort
        <5> QED
          BY <3>1, <5>1, <5>2, <5>3
      <4> QED
        BY <2>1, <4>1
    <3>3. AfterModelPlain(r) \/ AfterModelTaught(r)
      <4>1. CASE AfterModelTaught(r)
        BY <4>1
      <4>2. CASE \E text \in Utterances : PrepareTaught(r, text)
        BY <2>1, <4>2 DEF PrepareTaught
      <4>3. CASE \/ PreparePlain(r) \/ StartStream(r)
                 \/ \E m \in Messages : CallModel(r, m)
                 \/ AfterModelPlain(r) \/ RunTools(r) \/ Finish(r)
        BY <2>1, <4>3 DEF PreparePlain, StartStream, CallModel, RunTools, Finish
      <4>4. CASE Abort(r)
        <5>1. req'[r] = IdleRequest
          BY <3>0, <4>4 DEF Abort
        <5> QED
          BY <2>1, <5>1 DEF IdleRequest
      <4> QED
        BY <3>1, <3>2, <4>1, <4>2, <4>3, <4>4
    <3>4. CASE AfterModelPlain(r)
      <4>1. ~ req[r].taught /\ req'[r].card = req[r].card
        BY <3>0, <3>4 DEF AfterModelPlain
      <4> QED
        BY <2>1, <3>0, <4>1 DEF Sound
    <3>5. CASE AfterModelTaught(r)
      <4>1. PICK current, n : n \in 0..TalkCap /\ Spoken(r, current, n)
        BY <3>0, <3>5, TaughtMessage
      <4> DEFINE said == [current EXCEPT !.system_chars = n]
      <4>2. [req'[r].card EXCEPT !.system_chars = said.system_chars] = said
        BY <2>1, <4>1, SpokenShows DEF Spoken
      <4>3. channel'.state = said
        BY <4>1 DEF Spoken
      <4> HIDE DEF said
      <4> QED
        BY <4>2, <4>3
    <3> QED
      BY <3>3, <3>4, <3>5
  <2> QED
    BY <2>1 DEF CardSaved
<1>2. [][\A r \in Requests : CardSaved(r)]_vars => CardIsSaved
  <2>1. [\A r \in Requests : CardSaved(r)]_vars =>
          [\A r \in Requests :
             /\ req[r].pc = "after"
             /\ req'[r].pc \in {"tools", "end"}
             /\ req'[r].card # None
             => [req'[r].card EXCEPT !.system_chars = channel'.state.system_chars]
                  = channel'.state]_vars
    BY DEF CardSaved
  <2> QED
    BY <2>1, PTL DEF CardIsSaved
<1> QED
  BY <1>1, <1>2, ChatInductive, PTL DEF Spec

-----------------------------------------------------------------------------
(* The threads: the inductive invariant *)

\* A request that has found the row to be its account's.
Owning == {"update", "remove", "read", "refresh", "run", "stream", "record"}
Running == {"run", "stream", "record"}

Request ==
  [ pc      : {"idle", "clean", "insert"} \cup Kinds \cup Owning,
    account : Accounts \cup {None},
    thread  : ThreadIds \cup {None},
    began   : BOOLEAN,
    sees    : Row \cup {None},
    loaded  : SUBSET Accounts,
    renamed : BOOLEAN ]

ThreadsTypeOK ==
  /\ row \in [ThreadIds -> Row \cup {None}]
  /\ checkpoint \in [ThreadIds -> SUBSET Accounts]
  /\ request \in [Handlers -> Request]
  /\ overlapped \in [ThreadIds -> BOOLEAN]

\* A request that saw another title than the given one there is, is marked.
Marked(q, r) ==
  q.sees # None /\ r # None =>
    (r.title = "given" /\ q.sees.title # "given" => q.renamed)

\* Who has begun knows what it saw.
Informed(q, rows) ==
  q.pc # "idle" =>
    /\ q.thread \in ThreadIds
    /\ q.pc # "clean" => q.account \in Accounts
    /\ q.pc \in Owning \cup {"insert"} => q.began
    /\ q.pc \in Running => q.sees # None
    /\ Marked(q, rows[q.thread])

\* A request on a row that no deletion has met: the row is still the one it saw.
Settled(q, r) ==
  /\ q.pc \in Owning => r # None /\ r.owner = q.account
  /\ q.pc \in Kinds /\ q.began /\ q.sees # None => r # None /\ r.owner = q.sees.owner
  /\ q.pc = "stream" => q.loaded \subseteq {q.account}

\* What is kept of a thread no deletion has met.
Kept(t) ==
  /\ checkpoint[t] \subseteq Owner(t) \/ BeingDeleted(t)
  /\ row[t] # None => row[t].last \in {None, row[t].owner}
  /\ \A q \in Handlers : On(q, t) => Settled(request[q], row[t])

ThreadsInv ==
  /\ ThreadsTypeOK
  /\ \A q \in Handlers : Informed(request[q], row)
  /\ \A t \in ThreadIds : ~ overlapped[t] => Kept(t)

-----------------------------------------------------------------------------
(* Steps of one request *)

\* A request that returns is idle.
LEMMA NothingAsked == Idle \in Request /\ Idle.pc = "idle" /\ Informed(Idle, row)
<1>1. Idle \in Request
  BY DEF Idle, Request
<1>2. Idle.pc = "idle"
  BY DEF Idle
<1> QED
  BY <1>1, <1>2 DEF Informed

\* What the invariant says of a request that is handled.
LEMMA HandledKnows ==
  ASSUME ThreadsInv, NEW r \in Handlers, request[r].pc # "idle"
  PROVE  /\ request \in [Handlers -> Request] /\ request[r] \in Request
         /\ request[r].thread \in ThreadIds
         /\ On(r, request[r].thread)
         /\ Informed(request[r], row)
         /\ ~ overlapped[request[r].thread] =>
              Settled(request[r], row[request[r].thread])
<1>1. /\ request \in [Handlers -> Request] /\ request[r] \in Request
      /\ Informed(request[r], row)
  BY DEF ThreadsInv, ThreadsTypeOK
<1>2. request[r].thread \in ThreadIds /\ On(r, request[r].thread)
  BY <1>1 DEF Informed, On, At
<1> QED
  BY <1>1, <1>2 DEF ThreadsInv, Kept

\* A thread none of whose requests moves is kept as it was.
LEMMA SameThread ==
  ASSUME NEW t \in ThreadIds, Kept(t),
         row'[t] = row[t], checkpoint'[t] = checkpoint[t],
         \A q \in Handlers : On(q, t)' <=> On(q, t),
         \A q \in Handlers : On(q, t) => request'[q] = request[q]
  PROVE  Kept(t)'
<1>1. CleanUpDue(t) => CleanUpDue(t)'
  BY DEF CleanUpDue, On, At
<1> QED
  BY <1>1 DEF Kept, Owner, BeingDeleted

\* A step of one request, to n, that touches nothing else and no clean-up.
LEMMA QuietRequest ==
  ASSUME ThreadsInv, NEW r \in Handlers, NEW n \in Request,
         request' = [request EXCEPT ![r] = n],
         UNCHANGED <<row, checkpoint, overlapped>>,
         request[r].pc # "clean", n.pc # "clean",
         Informed(n, row),
         n.pc # "idle" /\ ~ overlapped[n.thread] => Settled(n, row[n.thread])
  PROVE  ThreadsInv'
<1>1. /\ request' \in [Handlers -> Request]
      /\ request'[r] = n
      /\ \A q \in Handlers : q # r => request'[q] = request[q]
  BY DEF ThreadsInv, ThreadsTypeOK
<1>2. ThreadsTypeOK'
  BY <1>1 DEF ThreadsInv, ThreadsTypeOK
<1>3. ASSUME NEW q \in Handlers PROVE Informed(request'[q], row')
  <2>1. Informed(request'[q], row)
    BY <1>1 DEF ThreadsInv
  <2> QED
    BY <2>1
<1>4. ASSUME NEW t \in ThreadIds, ~ overlapped'[t] PROVE Kept(t)'
  <2>1. Kept(t)
    BY <1>4 DEF ThreadsInv
  <2>2. CleanUpDue(t) => CleanUpDue(t)'
    BY <1>1 DEF CleanUpDue, On, At
  <2>3. ASSUME NEW q \in Handlers, On(q, t)' PROVE Settled(request'[q], row[t])
    <3>1. CASE q = r
      BY <1>1, <1>4, <2>3, <3>1 DEF On, At
    <3>2. CASE q # r
      BY <1>1, <2>1, <2>3, <3>2 DEF Kept, On, At
    <3> QED
      BY <3>1, <3>2
  <2> QED
    BY <2>1, <2>2, <2>3 DEF Kept, Owner, BeingDeleted
<1> QED
  BY <1>2, <1>3, <1>4 DEF ThreadsInv

LEMMA QuietReturn ==
  ASSUME ThreadsInv, NEW r \in Handlers, Return(r),
         UNCHANGED <<row, checkpoint, overlapped>>, request[r].pc # "clean"
  PROVE  ThreadsInv'
BY NothingAsked, QuietRequest DEF Return

\* A request that has read in its transaction saw the row there is now.
LEMMA ArriveKeeps ==
  ASSUME ThreadsInv, NEW r \in Handlers, NEW kind \in Kinds, NEW a \in Accounts,
         NEW t \in ThreadIds, NEW began \in BOOLEAN, Arrive(r, kind, a, t, began)
  PROVE  ThreadsInv'
<1> DEFINE n == [Idle EXCEPT !.pc = kind, !.account = a, !.thread = t,
                             !.began = began, !.sees = IF began THEN row[t] ELSE None]
<1>1. row[t] \in Row \cup {None} /\ kind \in {"chat", "rename", "delete", "messages"}
  BY DEF ThreadsInv, ThreadsTypeOK, Kinds
<1>2. n \in Request
  BY <1>1 DEF Idle, Request, Kinds
<1>3. /\ n.pc = kind /\ n.account = a /\ n.thread = t /\ n.began = began
      /\ n.sees = IF began THEN row[t] ELSE None
  BY DEF Idle
<1>4. request' = [request EXCEPT ![r] = n] /\ request[r].pc = "idle"
  BY DEF Arrive, At
<1> HIDE DEF n
<1>5. Informed(n, row)
  BY <1>1, <1>3 DEF Informed, Marked, Owning, Running
<1>6. Settled(n, row[t])
  BY <1>1, <1>3 DEF Settled, Owning
<1> QED
  BY <1>1, <1>2, <1>3, <1>4, <1>5, <1>6, QuietRequest DEF Arrive

LEMMA NotFoundKeeps ==
  ASSUME ThreadsInv, NEW r \in Handlers, NotFound(r)
  PROVE  ThreadsInv'
BY QuietReturn DEF NotFound, At

\* What a request finds to be its account's is its account's, unless a deletion
\* met it.
LEMMA MineIsOwned ==
  ASSUME ThreadsInv, NEW r \in Handlers, request[r].pc \in Kinds, Mine(r)
  PROVE  /\ Seen(r) \in Row
         /\ ~ overlapped[request[r].thread] =>
              /\ row[request[r].thread] # None
              /\ row[request[r].thread].owner = request[r].account
         /\ row[request[r].thread] # None /\ row[request[r].thread].title = "given"
              /\ Seen(r).title # "given" => request[r].renamed
<1>1. /\ request[r] \in Request /\ request[r].thread \in ThreadIds
      /\ Informed(request[r], row)
      /\ ~ overlapped[request[r].thread] => Settled(request[r], row[request[r].thread])
      /\ request[r].pc # "idle"
  <2>1. request[r].pc # "idle"
    BY DEF Kinds
  <2> QED
    BY <2>1, HandledKnows
<1>2. row[request[r].thread] \in Row \cup {None}
  BY <1>1 DEF ThreadsInv, ThreadsTypeOK
<1>3. Seen(r) # None /\ Seen(r).owner = request[r].account
  BY DEF Mine
<1>4. CASE request[r].began
  BY <1>1, <1>3, <1>4 DEF Seen, Settled, Informed, Marked, Request
<1>5. CASE ~ request[r].began
  BY <1>2, <1>3, <1>5 DEF Seen
<1> QED
  BY <1>4, <1>5

LEMMA CheckKeeps ==
  ASSUME ThreadsInv, NEW r \in Handlers, NEW kind \in Kinds,
         NEW next \in {"update", "remove", "read", "run"}, Check(r, kind, next)
  PROVE  ThreadsInv'
<1> DEFINE n == [request[r] EXCEPT !.pc = next, !.began = TRUE,
                                   !.sees = IF next = "run" THEN Seen(r) ELSE None]
<1>1. request[r].pc = kind /\ Mine(r) /\ request[r].pc # "idle" /\ request[r].pc # "clean"
  BY DEF Check, At, Kinds
<1>2. /\ request[r] \in Request /\ request[r].thread \in ThreadIds
      /\ request \in [Handlers -> Request] /\ Informed(request[r], row)
  BY <1>1, HandledKnows
<1>3. Seen(r) \in Row /\ None \notin Row
  BY <1>1, MineIsOwned, ThreadAssumption DEF ThreadAssumption
<1>4. n \in Request
  BY <1>2, <1>3 DEF Request, Owning
<1>5. /\ n.pc = next /\ n.began = TRUE /\ n.thread = request[r].thread
      /\ n.account = request[r].account /\ n.renamed = request[r].renamed
      /\ n.sees = IF next = "run" THEN Seen(r) ELSE None
  BY <1>2 DEF Request
<1>6. request' = [request EXCEPT ![r] = n]
  BY <1>2 DEF Check, Found
<1> HIDE DEF n
<1>7. Informed(n, row)
  BY <1>1, <1>2, <1>3, <1>5, MineIsOwned DEF Informed, Marked, Running
<1>8. ~ overlapped[n.thread] => Settled(n, row[n.thread])
  BY <1>1, <1>5, MineIsOwned DEF Settled, Kinds
<1> QED
  BY <1>1, <1>4, <1>5, <1>6, <1>7, <1>8, QuietRequest DEF Check

LEMMA EnsureMissingKeeps ==
  ASSUME ThreadsInv, NEW r \in Handlers, EnsureMissing(r)
  PROVE  ThreadsInv'
<1> DEFINE n == [request[r] EXCEPT !.pc = "insert", !.began = TRUE, !.sees = None]
<1>1. request[r].pc = "chat" /\ request[r].pc # "idle" /\ request[r].pc # "clean"
  BY DEF EnsureMissing, At
<1>2. /\ request[r] \in Request /\ request \in [Handlers -> Request]
      /\ Informed(request[r], row)
  BY <1>1, HandledKnows
<1>3. n \in Request
  BY <1>2 DEF Request
<1>4. /\ n.pc = "insert" /\ n.began = TRUE /\ n.thread = request[r].thread
      /\ n.account = request[r].account /\ n.sees = None
  BY <1>2 DEF Request
<1>5. request' = [request EXCEPT ![r] = n]
  BY <1>2 DEF EnsureMissing, Found
<1> HIDE DEF n
<1>6. Informed(n, row)
  BY <1>1, <1>2, <1>4 DEF Informed, Marked, Running
<1>7. Settled(n, row[n.thread])
  BY <1>4 DEF Settled, Kinds, Owning
<1> QED
  BY <1>1, <1>3, <1>4, <1>5, <1>6, <1>7, QuietRequest DEF EnsureMissing

\* The row that is read back is the one that was inserted, or a deletion met it.
LEMMA EnsureRefreshKeeps ==
  ASSUME ThreadsInv, NEW r \in Handlers, EnsureRefresh(r)
  PROVE  ThreadsInv'
<1> DEFINE t == request[r].thread
           n == [request[r] EXCEPT !.pc = "run", !.sees = row[t]]
<1>1. request[r].pc = "refresh" /\ request[r].pc # "idle" /\ request[r].pc # "clean"
  BY DEF EnsureRefresh, At
<1>2. /\ request[r] \in Request /\ request \in [Handlers -> Request]
      /\ Informed(request[r], row) /\ t \in ThreadIds
      /\ ~ overlapped[t] => Settled(request[r], row[t])
  BY <1>1, HandledKnows
<1>3. CASE row[t] = None
  BY <1>1, <1>3, QuietReturn DEF EnsureRefresh
<1>4. CASE row[t] # None
  <2>1. row[t] \in Row
    BY <1>2, <1>4 DEF ThreadsInv, ThreadsTypeOK
  <2>2. n \in Request
    BY <1>2, <2>1 DEF Request, Owning
  <2>3. /\ n.pc = "run" /\ n.began = request[r].began /\ n.thread = t
        /\ n.account = request[r].account /\ n.sees = row[t]
    BY <1>2 DEF Request
  <2>4. request' = [request EXCEPT ![r] = n]
    BY <1>2, <1>4 DEF EnsureRefresh
  <2> HIDE DEF n
  <2>5. Informed(n, row)
    BY <1>1, <1>2, <1>4, <2>3 DEF Informed, Marked, Running, Owning
  <2>6. ~ overlapped[t] => Settled(n, row[t])
    BY <1>1, <1>2, <2>3 DEF Settled, Kinds, Owning
  <2> HIDE DEF t
  <2> QED
    BY <1>1, <2>2, <2>3, <2>4, <2>5, <2>6, QuietRequest DEF EnsureRefresh
<1> QED
  BY <1>3, <1>4
LEMMA GetMessagesKeeps ==
  ASSUME ThreadsInv, NEW r \in Handlers, get_thread_messages(r)
  PROVE  ThreadsInv'
BY QuietReturn DEF get_thread_messages, At

\* A run loads of a thread that no deletion met what its owner said.
LEMMA RunLoadsKeeps ==
  ASSUME ThreadsInv, NEW r \in Handlers, RunLoads(r)
  PROVE  ThreadsInv'
<1> DEFINE t == request[r].thread
           n == [request[r] EXCEPT !.pc = "stream", !.loaded = checkpoint[t]]
<1>1. request[r].pc = "run" /\ request[r].pc # "idle" /\ request[r].pc # "clean"
  BY DEF RunLoads, At
<1>2. /\ request[r] \in Request /\ request \in [Handlers -> Request]
      /\ Informed(request[r], row) /\ t \in ThreadIds
      /\ ~ overlapped[t] => Settled(request[r], row[t])
  BY <1>1, HandledKnows
<1>3. checkpoint[t] \in SUBSET Accounts
  BY <1>2 DEF ThreadsInv, ThreadsTypeOK
<1>4. n \in Request
  BY <1>2, <1>3 DEF Request, Owning
<1>5. /\ n.pc = "stream" /\ n.began = request[r].began /\ n.thread = t
      /\ n.account = request[r].account /\ n.sees = request[r].sees
      /\ n.renamed = request[r].renamed /\ n.loaded = checkpoint[t]
  BY <1>2 DEF Request
<1>6. request' = [request EXCEPT ![r] = n]
  BY <1>2 DEF RunLoads
<1> HIDE DEF n
<1>7. Informed(n, row)
  BY <1>1, <1>2, <1>5 DEF Informed, Marked, Running, Owning
<1>8. ~ overlapped[t] => Settled(n, row[t])
  <2>1. ~ overlapped[t] => row[t] # None /\ row[t].owner = request[r].account
    BY <1>1, <1>2 DEF Settled, Owning
  <2>2. ~ overlapped[t] => checkpoint[t] \subseteq {request[r].account}
    BY <1>2, <2>1 DEF ThreadsInv, Kept, Owner, BeingDeleted
  <2> QED
    BY <1>5, <2>1, <2>2 DEF Settled, Kinds
<1> HIDE DEF t
<1> QED
  BY <1>1, <1>4, <1>5, <1>6, <1>7, <1>8, QuietRequest DEF RunLoads

LEMMA RunEndsKeeps ==
  ASSUME ThreadsInv, NEW r \in Handlers, RunEnds(r)
  PROVE  ThreadsInv'
<1> DEFINE n == [request[r] EXCEPT !.pc = "record", !.loaded = {}]
<1>1. request[r].pc = "stream" /\ request[r].pc # "idle" /\ request[r].pc # "clean"
  BY DEF RunEnds, At
<1>2. /\ request[r] \in Request /\ request \in [Handlers -> Request]
      /\ Informed(request[r], row)
      /\ ~ overlapped[request[r].thread] => Settled(request[r], row[request[r].thread])
  BY <1>1, HandledKnows
<1>3. n \in Request
  BY <1>2 DEF Request, Owning
<1>4. /\ n.pc = "record" /\ n.began = request[r].began /\ n.thread = request[r].thread
      /\ n.account = request[r].account /\ n.sees = request[r].sees
      /\ n.renamed = request[r].renamed
  BY <1>2 DEF Request
<1>5. request' = [request EXCEPT ![r] = n]
  BY <1>2 DEF RunEnds
<1> HIDE DEF n
<1>6. Informed(n, row)
  BY <1>1, <1>2, <1>4 DEF Informed, Marked, Running, Owning
<1>7. ~ overlapped[n.thread] => Settled(n, row[n.thread])
  BY <1>1, <1>2, <1>4 DEF Settled, Owning, Kinds
<1> QED
  BY <1>1, <1>3, <1>4, <1>5, <1>6, <1>7, QuietRequest DEF RunEnds

-----------------------------------------------------------------------------
(* Steps that write *)

\* A request that returns, and writes of its own thread only.
LEMMA WriteAndReturn ==
  ASSUME ThreadsInv, NEW r \in Handlers, request[r].pc # "idle", Return(r)
  PROVE  /\ request' \in [Handlers -> Request]
         /\ request'[r] = Idle /\ request'[r].pc = "idle"
         /\ \A q \in Handlers : q # r => request'[q] = request[q]
         /\ \A t \in ThreadIds, q \in Handlers :
              /\ On(q, t)' => On(q, t) /\ request'[q] = request[q]
              /\ t # request[r].thread => (On(q, t)' <=> On(q, t))
              /\ t # request[r].thread /\ On(q, t) => request'[q] = request[q]
<1>1. /\ request' \in [Handlers -> Request]
      /\ request'[r] = Idle /\ request'[r].pc = "idle"
      /\ \A q \in Handlers : q # r => request'[q] = request[q]
  BY NothingAsked DEF Return, ThreadsInv, ThreadsTypeOK
<1> QED
  BY <1>1 DEF On, At

\* What is informed of a row stays so while nobody gives it a title.
LEMMA InformedStays ==
  ASSUME ThreadsInv, NEW q \in Handlers, request'[q] = request[q],
         row'[request[q].thread] # None =>
           \/ row'[request[q].thread].title # "given"
           \/ /\ row[request[q].thread] # None
              /\ row'[request[q].thread].title = row[request[q].thread].title
  PROVE  Informed(request'[q], row')
<1>1. Informed(request[q], row)
  BY DEF ThreadsInv
<1> QED
  BY <1>1 DEF Informed, Marked

\* A row that is new is of the account that made it, and nobody else's.
LEMMA create_threadKeeps ==
  ASSUME ThreadsInv, NEW r \in Handlers, NEW a \in Accounts, NEW t \in ThreadIds,
         NEW title \in {"default", "given"}, create_thread(r, a, t, title)
  PROVE  ThreadsInv'
<1>1. /\ row[t] = None /\ checkpoint[t] = {} /\ \A q \in Handlers : ~ On(q, t)
      /\ row' = [row EXCEPT ![t] = NewRow(a, title)]
      /\ UNCHANGED <<checkpoint, request, overlapped>>
  BY DEF create_thread
<1>2. NewRow(a, title) \in Row /\ NewRow(a, title).last = None
  BY DEF NewRow, Row
<1>3. /\ row' \in [ThreadIds -> Row \cup {None}]
      /\ row'[t] = NewRow(a, title)
      /\ \A u \in ThreadIds : u # t => row'[u] = row[u]
  BY <1>1, <1>2 DEF ThreadsInv, ThreadsTypeOK
<1>4. ThreadsTypeOK'
  BY <1>1, <1>3 DEF ThreadsInv, ThreadsTypeOK
<1>5. ASSUME NEW q \in Handlers PROVE Informed(request'[q], row')
  <2>1. CASE request[q].pc = "idle"
    BY <1>1, <2>1 DEF Informed
  <2>2. CASE request[q].pc # "idle"
    <3>1. request[q].thread \in ThreadIds /\ request[q].thread # t
      BY <1>1, <2>2, HandledKnows
    <3> QED
      BY <1>1, <1>3, <3>1, InformedStays
  <2> QED
    BY <2>1, <2>2
<1>6. ASSUME NEW u \in ThreadIds, ~ overlapped'[u] PROVE Kept(u)'
  <2>1. Kept(u)
    BY <1>1, <1>6 DEF ThreadsInv
  <2>2. CASE u = t
    BY <1>1, <1>2, <1>3, <2>2 DEF Kept, Owner, On, At
  <2>3. CASE u # t
    BY <1>1, <1>3, <2>1, <2>3, SameThread DEF On, At
  <2> QED
    BY <2>2, <2>3
<1> QED
  BY <1>4, <1>5, <1>6 DEF ThreadsInv

\* Whoever saw the title before is marked.
LEMMA rename_threadKeeps ==
  ASSUME ThreadsInv, NEW r \in Handlers, rename_thread(r)
  PROVE  ThreadsInv'
<1>1. request[r].pc = "update" /\ request[r].pc # "idle" /\ request[r].pc # "clean"
  BY DEF rename_thread, At
<1>2. /\ request[r] \in Request /\ request \in [Handlers -> Request]
      /\ request[r].thread \in ThreadIds
  BY <1>1, HandledKnows
<1> PICK t \in ThreadIds : t = request[r].thread
  BY <1>2
<1>3. CASE row[t] = None
  BY <1>1, <1>3, QuietReturn DEF rename_thread
<1>4. CASE row[t] # None
  <2>1. /\ row' = [row EXCEPT ![t].title = "given"]
        /\ request' = [q \in Handlers |->
             IF q = r THEN Idle
             ELSE IF On(q, t) /\ request[q].sees # None
             THEN [request[q] EXCEPT !.renamed = TRUE] ELSE request[q]]
        /\ UNCHANGED <<checkpoint, overlapped>>
    BY <1>4 DEF rename_thread
  <2>2. row[t] \in Row /\ row \in [ThreadIds -> Row \cup {None}]
    BY <1>2, <1>4 DEF ThreadsInv, ThreadsTypeOK
  <2>3. /\ row' \in [ThreadIds -> Row \cup {None}]
        /\ row'[t] # None /\ row'[t].owner = row[t].owner /\ row'[t].last = row[t].last
        /\ \A u \in ThreadIds : u # t => row'[u] = row[u]
    <3> DEFINE given == [row[t] EXCEPT !.title = "given"]
    <3>1. given \in Row /\ given.owner = row[t].owner /\ given.last = row[t].last
      BY <2>2 DEF Row
    <3>2. row' = [row EXCEPT ![t] = given]
      BY <1>2, <2>1, <2>2
    <3> HIDE DEF given
    <3> QED
      BY <1>2, <2>2, <3>1, <3>2, ThreadAssumption DEF ThreadAssumption
  <2>4. request'[r] = Idle
    BY <2>1
  <2>5. ASSUME NEW q \in Handlers, q # r
        PROVE  /\ request'[q] \in Request
               /\ request'[q].pc = request[q].pc /\ request'[q].thread = request[q].thread
               /\ request'[q].account = request[q].account
               /\ request'[q].began = request[q].began /\ request'[q].sees = request[q].sees
               /\ request'[q].loaded = request[q].loaded
               /\ ~ On(q, t) => request'[q] = request[q]
               /\ On(q, t) /\ request[q].sees # None => request'[q].renamed
    <3>1. request[q] \in Request
      BY <1>2
    <3>2. CASE On(q, t) /\ request[q].sees # None
      <4>1. request'[q] = [request[q] EXCEPT !.renamed = TRUE]
        BY <2>1, <2>5, <3>2
      <4> QED
        BY <3>1, <3>2, <4>1 DEF Request
    <3>3. CASE ~ (On(q, t) /\ request[q].sees # None)
      BY <2>1, <2>5, <3>1, <3>3
    <3> QED
      BY <3>2, <3>3
  <2>6. request' \in [Handlers -> Request]
    <3>1. \A q \in Handlers : request'[q] \in Request
      BY <2>4, <2>5, NothingAsked
    <3>2. request' = [q \in Handlers |-> request'[q]]
      BY <2>1
    <3> QED
      BY <3>1, <3>2
  <2>7. ThreadsTypeOK'
    BY <2>1, <2>3, <2>6 DEF ThreadsInv, ThreadsTypeOK
  <2>8. ASSUME NEW q \in Handlers PROVE Informed(request'[q], row')
    <3>1. Informed(request[q], row)
      BY DEF ThreadsInv
    <3>2. CASE q = r \/ request[q].pc = "idle"
      BY <2>4, <2>5, <3>2, NothingAsked DEF Informed
    <3>3. CASE q # r /\ request[q].pc # "idle" /\ request[q].thread = t
      <4>1. On(q, t)
        BY <3>3 DEF On, At
      <4> QED
        BY <2>5, <3>1, <3>3, <4>1 DEF Informed, Marked
    <3>4. CASE q # r /\ request[q].pc # "idle" /\ request[q].thread # t
      <4>1. ~ On(q, t) /\ request[q].thread \in ThreadIds
        BY <3>1, <3>4 DEF On, Informed
      <4>2. request'[q] = request[q] /\ row'[request[q].thread] = row[request[q].thread]
        BY <2>3, <2>5, <3>4, <4>1
      <4> QED
        BY <3>1, <4>2 DEF Informed, Marked
    <3> QED
      BY <3>2, <3>3, <3>4
  <2>9. ASSUME NEW u \in ThreadIds, ~ overlapped'[u] PROVE Kept(u)'
    <3>1. Kept(u)
      BY <2>1, <2>9 DEF ThreadsInv
    <3>2. CASE u = t
      <4>1. checkpoint[t] \subseteq {row[t].owner} /\ row[t].last \in {None, row[t].owner}
        BY <1>4, <3>1, <3>2 DEF Kept, Owner, BeingDeleted
      <4>2. ASSUME NEW q \in Handlers, On(q, t)' PROVE Settled(request'[q], row'[t])
        <5>1. q # r
          BY <2>4, <4>2, NothingAsked DEF On, At
        <5>2. On(q, t)
          BY <2>5, <4>2, <5>1 DEF On, At
        <5>3. Settled(request[q], row[t])
          BY <3>1, <3>2, <5>2 DEF Kept
        <5> QED
          BY <1>4, <2>3, <2>5, <5>1, <5>3 DEF Settled
      <4> QED
        BY <2>1, <2>3, <3>2, <4>1, <4>2 DEF Kept, Owner
    <3>3. CASE u # t
      <4>1. \A q \in Handlers : On(q, u)' <=> On(q, u)
        BY <1>1, <2>4, <2>5, <3>3, NothingAsked DEF On, At
      <4>2. \A q \in Handlers : On(q, u) => request'[q] = request[q]
        BY <2>5, <3>3 DEF On, At
      <4> QED
        BY <2>1, <2>3, <3>1, <3>3, <4>1, <4>2, SameThread
    <3> QED
      BY <3>2, <3>3
  <2> QED
    BY <2>7, <2>8, <2>9 DEF ThreadsInv
<1> QED
  BY <1>3, <1>4

\* A deletion that meets nobody leaves a thread without a row or requests but its
\* own clean-up.
LEMMA delete_threadKeeps ==
  ASSUME ThreadsInv, NEW r \in Handlers, delete_thread(r)
  PROVE  ThreadsInv'
<1> PICK t \in ThreadIds : t = request[r].thread
  BY HandledKnows DEF delete_thread, At
<1> DEFINE n == [Idle EXCEPT !.pc = "clean", !.thread = t]
<1>1. request[r].pc = "remove" /\ request[r].pc # "idle"
  BY DEF delete_thread, At
<1>2. /\ request[r] \in Request /\ request \in [Handlers -> Request] /\ t \in ThreadIds
  BY <1>1, HandledKnows
<1>3. n \in Request
  BY <1>2 DEF Idle, Request
<1>4. n.pc = "clean" /\ n.thread = t /\ n.sees = None
  BY DEF Idle
<1>5. /\ request' = [request EXCEPT ![r] = n]
      /\ row' = [row EXCEPT ![t] = None]
      /\ overlapped' = [overlapped EXCEPT ![t] = @ \/ Others(r, t)]
      /\ UNCHANGED checkpoint
  BY DEF delete_thread
<1> HIDE DEF n
<1>6. /\ request' \in [Handlers -> Request] /\ request'[r] = n
      /\ \A q \in Handlers : q # r => request'[q] = request[q]
  BY <1>2, <1>3, <1>5
<1>7. /\ row' \in [ThreadIds -> Row \cup {None}] /\ row'[t] = None
      /\ \A u \in ThreadIds : u # t => row'[u] = row[u]
  BY <1>2, <1>5 DEF ThreadsInv, ThreadsTypeOK
<1>8. /\ overlapped' \in [ThreadIds -> BOOLEAN]
      /\ overlapped'[t] = (overlapped[t] \/ Others(r, t))
      /\ \A u \in ThreadIds : u # t => overlapped'[u] = overlapped[u]
  BY <1>2, <1>5 DEF ThreadsInv, ThreadsTypeOK, Others
<1>9. ThreadsTypeOK'
  BY <1>5, <1>6, <1>7, <1>8 DEF ThreadsInv, ThreadsTypeOK
<1>10. ASSUME NEW q \in Handlers PROVE Informed(request'[q], row')
  <2>1. CASE q = r
    BY <1>2, <1>4, <1>6, <2>1 DEF Informed, Marked, Owning, Running
  <2>2. CASE q # r /\ request[q].pc = "idle"
    BY <1>6, <2>2 DEF Informed
  <2>3. CASE q # r /\ request[q].pc # "idle"
    <3>1. request[q].thread \in ThreadIds
      BY <2>3, HandledKnows
    <3> QED
      BY <1>6, <1>7, <2>3, <3>1, InformedStays
  <2> QED
    BY <2>1, <2>2, <2>3
<1>11. ASSUME NEW u \in ThreadIds, ~ overlapped'[u] PROVE Kept(u)'
  <2>1. ~ overlapped[u] /\ Kept(u)
    BY <1>8, <1>11 DEF ThreadsInv
  <2>2. CASE u = t
    <3>1. BeingDeleted(t)'
      BY <1>4, <1>6, <1>7 DEF BeingDeleted, CleanUpDue, On, At
    <3>2. ASSUME NEW q \in Handlers, On(q, t)' PROVE Settled(request'[q], row'[t])
      <4>1. CASE q = r
        BY <1>4, <1>6, <4>1 DEF Settled, Kinds, Owning
      <4>2. CASE q # r
        <5>1. request'[q] = request[q] /\ On(q, t) /\ request[q].pc # "idle"
          BY <1>6, <3>2, <4>2 DEF On, At
        <5>2. ~ request[q].began
          BY <1>8, <1>11, <2>2, <4>2, <5>1 DEF Others
        <5>3. request[q].pc \notin Owning
          BY <5>1, <5>2, HandledKnows DEF Informed
        <5> QED
          BY <5>1, <5>2, <5>3 DEF Settled, Owning
      <4> QED
        BY <4>1, <4>2
    <3> QED
      BY <1>7, <2>2, <3>1, <3>2 DEF Kept
  <2>3. CASE u # t
    <3>1. \A q \in Handlers : On(q, u)' <=> On(q, u)
      BY <1>4, <1>6, <2>3 DEF On, At
    <3>2. \A q \in Handlers : On(q, u) => request'[q] = request[q]
      BY <1>6, <2>3 DEF On, At
    <3> QED
      BY <1>5, <1>7, <2>1, <2>3, <3>1, <3>2, SameThread
  <2> QED
    BY <2>2, <2>3
<1> QED
  BY <1>9, <1>10, <1>11 DEF ThreadsInv
\* A request that returns, and may write the memory of its own thread and whether
\* that was met, but no row.
LEMMA ReturnWithoutRow ==
  ASSUME ThreadsInv, NEW r \in Handlers, NEW t \in ThreadIds, t = request[r].thread,
         request[r].pc # "idle", Return(r), UNCHANGED row,
         checkpoint' \in [ThreadIds -> SUBSET Accounts],
         overlapped' \in [ThreadIds -> BOOLEAN],
         \A u \in ThreadIds : u # t => checkpoint'[u] = checkpoint[u] /\ overlapped'[u] = overlapped[u],
         ~ overlapped'[t] => Kept(t)'
  PROVE  ThreadsInv'
<1>1. /\ request' \in [Handlers -> Request]
      /\ request'[r].pc = "idle"
      /\ \A q \in Handlers : q # r => request'[q] = request[q]
  BY WriteAndReturn
<1>2. ThreadsTypeOK'
  BY <1>1 DEF ThreadsInv, ThreadsTypeOK
<1>3. ASSUME NEW q \in Handlers PROVE Informed(request'[q], row')
  BY <1>1 DEF ThreadsInv, Informed
<1>4. ASSUME NEW u \in ThreadIds, ~ overlapped'[u] PROVE Kept(u)'
  <2>1. CASE u = t
    BY <1>4, <2>1
  <2>2. CASE u # t
    <3>1. Kept(u)
      BY <1>4, <2>2 DEF ThreadsInv
    <3>2. \A q \in Handlers : (On(q, u)' <=> On(q, u)) /\ (On(q, u) => request'[q] = request[q])
      BY <2>2, WriteAndReturn
    <3> QED
      BY <2>2, <3>1, <3>2, SameThread
  <2> QED
    BY <2>1, <2>2
<1> QED
  BY <1>2, <1>3, <1>4 DEF ThreadsInv

\* The memory is gone; what had overlapped is over when nobody is left and there
\* is no row.
LEMMA adelete_threadKeeps ==
  ASSUME ThreadsInv, NEW r \in Handlers, adelete_thread(r)
  PROVE  ThreadsInv'
<1>1. request[r].pc = "clean" /\ request[r].pc # "idle"
  BY DEF adelete_thread, At
<1> PICK t \in ThreadIds : t = request[r].thread
  BY <1>1, HandledKnows
<1>2. /\ checkpoint' = [checkpoint EXCEPT ![t] = {}]
      /\ overlapped' = [overlapped EXCEPT ![t] =
           @ /\ (row[t] # None \/ \E q \in Handlers \ {r} : On(q, t))]
      /\ Return(r) /\ UNCHANGED row
  BY DEF adelete_thread
<1>3. /\ checkpoint' \in [ThreadIds -> SUBSET Accounts] /\ checkpoint'[t] = {}
      /\ overlapped' \in [ThreadIds -> BOOLEAN]
      /\ overlapped'[t] = (overlapped[t] /\ (row[t] # None \/ \E q \in Handlers \ {r} : On(q, t)))
      /\ \A u \in ThreadIds : u # t => checkpoint'[u] = checkpoint[u] /\ overlapped'[u] = overlapped[u]
  BY <1>2 DEF ThreadsInv, ThreadsTypeOK
<1>4. ASSUME ~ overlapped'[t] PROVE Kept(t)'
  <2>1. \A q \in Handlers : On(q, t)' => q # r /\ On(q, t) /\ request'[q] = request[q]
    BY <1>1, <1>2, WriteAndReturn DEF On, At
  <2>2. CASE ~ overlapped[t]
    <3>1. Kept(t)
      BY <2>2 DEF ThreadsInv
    <3> QED
      BY <1>2, <1>3, <2>1, <3>1 DEF Kept
  <2>3. CASE overlapped[t]
    <3>1. row[t] = None /\ \A q \in Handlers : ~ On(q, t)'
      BY <1>3, <1>4, <2>1, <2>3
    <3> QED
      BY <1>2, <1>3, <3>1 DEF Kept
  <2> QED
    BY <2>2, <2>3
<1> QED
  BY <1>1, <1>2, <1>3, <1>4, ReturnWithoutRow

LEMMA CleanUpFailsKeeps ==
  ASSUME ThreadsInv, NEW r \in Handlers, CleanUpFails(r)
  PROVE  ThreadsInv'
<1>1. request[r].pc # "idle"
  BY DEF CleanUpFails, At
<1> PICK t \in ThreadIds : t = request[r].thread
  BY <1>1, HandledKnows
<1>2. /\ overlapped' = [overlapped EXCEPT ![t] = TRUE]
      /\ Return(r) /\ UNCHANGED <<row, checkpoint>>
  BY DEF CleanUpFails
<1>3. /\ checkpoint' \in [ThreadIds -> SUBSET Accounts]
      /\ overlapped' \in [ThreadIds -> BOOLEAN] /\ overlapped'[t]
      /\ \A u \in ThreadIds : u # t => checkpoint'[u] = checkpoint[u] /\ overlapped'[u] = overlapped[u]
  BY <1>2 DEF ThreadsInv, ThreadsTypeOK
<1> QED
  BY <1>1, <1>2, <1>3, ReturnWithoutRow

\* A request that dies leaves no clean-up behind but one that is marked.
LEMMA DieKeeps ==
  ASSUME ThreadsInv, NEW r \in Handlers, Die(r)
  PROVE  ThreadsInv'
<1>1. request[r].pc # "idle"
  BY DEF Die, At
<1> PICK t \in ThreadIds : t = request[r].thread
  BY <1>1, HandledKnows
<1>2. /\ overlapped' = [u \in ThreadIds |-> overlapped[u] \/ (On(r, u) /\ At(r, "clean"))]
      /\ Return(r) /\ UNCHANGED <<row, checkpoint>>
  BY DEF Die
<1>3. /\ checkpoint' \in [ThreadIds -> SUBSET Accounts]
      /\ overlapped' \in [ThreadIds -> BOOLEAN]
      /\ overlapped'[t] = (overlapped[t] \/ (On(r, t) /\ At(r, "clean")))
      /\ \A u \in ThreadIds : u # t => checkpoint'[u] = checkpoint[u] /\ overlapped'[u] = overlapped[u]
  <2>1. checkpoint' = checkpoint /\ overlapped \in [ThreadIds -> BOOLEAN]
    BY <1>2 DEF ThreadsInv, ThreadsTypeOK
  <2>2. \A u \in ThreadIds : u # t => ~ On(r, u)
    BY DEF On
  <2>3. \A u \in ThreadIds : (On(r, u) /\ At(r, "clean")) \in BOOLEAN
    BY DEF On, At
  <2> QED
    BY <1>2, <2>1, <2>2, <2>3 DEF ThreadsInv, ThreadsTypeOK
<1>4. ASSUME ~ overlapped'[t] PROVE Kept(t)'
  <2>1. ~ overlapped[t] /\ ~ (On(r, t) /\ At(r, "clean"))
    BY <1>3, <1>4
  <2>2. Kept(t)
    BY <2>1 DEF ThreadsInv
  <2>3. \A q \in Handlers : q # r => request'[q] = request[q]
    BY <1>1, <1>2, WriteAndReturn
  <2>4. CleanUpDue(t) => CleanUpDue(t)'
    BY <2>1, <2>3 DEF CleanUpDue, On, At
  <2>5. \A q \in Handlers : On(q, t)' => On(q, t) /\ request'[q] = request[q]
    BY <1>1, <1>2, WriteAndReturn
  <2> QED
    BY <1>2, <2>2, <2>4, <2>5 DEF Kept, Owner, BeingDeleted
<1> QED
  BY <1>1, <1>2, <1>3, <1>4, ReturnWithoutRow

\* The row that is inserted is the account's; nobody else owns one of that thread,
\* and no memory of it is left, unless a deletion met this.
LEMMA EnsureInsertKeeps ==
  ASSUME ThreadsInv, NEW r \in Handlers, EnsureInsert(r)
  PROVE  ThreadsInv'
<1>1. request[r].pc = "insert" /\ request[r].pc # "idle" /\ request[r].pc # "clean"
  BY DEF EnsureInsert, At
<1>2. /\ request[r] \in Request /\ request \in [Handlers -> Request]
      /\ request[r].thread \in ThreadIds /\ Informed(request[r], row)
  BY <1>1, HandledKnows
<1> PICK t \in ThreadIds : t = request[r].thread
  BY <1>2
<1> DEFINE n == [request[r] EXCEPT !.pc = "refresh"]
           new == NewRow(request[r].account, "default")
<1>3. CASE row[t] # None
  BY <1>1, <1>3, QuietReturn DEF EnsureInsert
<1>4. CASE row[t] = None
  <2>1. /\ row' = [row EXCEPT ![t] = new]
        /\ overlapped' = [overlapped EXCEPT ![t] = @ \/ CleanUpDue(t)]
        /\ request' = [request EXCEPT ![r] = n]
        /\ UNCHANGED checkpoint
    BY <1>2, <1>4 DEF EnsureInsert, Go
  <2>2. /\ new \in Row /\ new.owner = request[r].account /\ new.last = None
        /\ new.title # "given"
    BY <1>1, <1>2 DEF NewRow, Row, Informed
  <2>3. n \in Request
    BY <1>2 DEF Request, Owning
  <2>4. /\ n.pc = "refresh" /\ n.thread = t /\ n.account = request[r].account
        /\ n.began = request[r].began /\ n.sees = request[r].sees
    BY <1>2 DEF Request
  <2> HIDE DEF n, new
  <2>5. /\ request' \in [Handlers -> Request] /\ request'[r] = n
        /\ \A q \in Handlers : q # r => request'[q] = request[q]
    BY <1>2, <2>1, <2>3
  <2>6. /\ row' \in [ThreadIds -> Row \cup {None}] /\ row'[t] = new
        /\ \A u \in ThreadIds : u # t => row'[u] = row[u]
    BY <2>1, <2>2 DEF ThreadsInv, ThreadsTypeOK
  <2>7. /\ overlapped' \in [ThreadIds -> BOOLEAN]
        /\ overlapped'[t] = (overlapped[t] \/ CleanUpDue(t))
        /\ \A u \in ThreadIds : u # t => overlapped'[u] = overlapped[u]
    BY <2>1 DEF ThreadsInv, ThreadsTypeOK, CleanUpDue
  <2>8. ThreadsTypeOK'
    BY <2>1, <2>5, <2>6, <2>7 DEF ThreadsInv, ThreadsTypeOK
  <2>9. ASSUME NEW q \in Handlers PROVE Informed(request'[q], row')
    <3>1. CASE q = r
      BY <1>1, <1>2, <2>2, <2>4, <2>5, <2>6, <3>1 DEF Informed, Marked, Owning, Running
    <3>2. CASE q # r /\ request[q].pc = "idle"
      BY <2>5, <3>2 DEF Informed
    <3>3. CASE q # r /\ request[q].pc # "idle"
      <4>1. request[q].thread \in ThreadIds
        BY <3>3, HandledKnows
      <4> QED
        BY <2>2, <2>5, <2>6, <3>3, <4>1, InformedStays
    <3> QED
      BY <3>1, <3>2, <3>3
  <2>10. ASSUME NEW u \in ThreadIds, ~ overlapped'[u] PROVE Kept(u)'
    <3>1. ~ overlapped[u] /\ Kept(u)
      BY <2>7, <2>10 DEF ThreadsInv
    <3>2. CASE u = t
      <4>1. ~ CleanUpDue(t) /\ ~ BeingDeleted(t)
        BY <2>7, <2>10, <3>2 DEF BeingDeleted
      <4>2. checkpoint[t] = {}
        BY <1>4, <3>1, <3>2, <4>1 DEF Kept, Owner
      <4>3. ASSUME NEW q \in Handlers, On(q, t)' PROVE Settled(request'[q], new)
        <5>1. CASE q = r
          BY <2>2, <2>4, <2>5, <2>6, <5>1, ThreadAssumption
          DEF ThreadAssumption, Settled, Kinds
        <5>2. CASE q # r
          <6>1. request'[q] = request[q] /\ On(q, t)
            BY <2>5, <4>3, <5>2 DEF On, At
          <6>2. Settled(request[q], row[t])
            BY <3>1, <3>2, <6>1 DEF Kept
          <6> QED
            BY <1>4, <6>1, <6>2 DEF Settled, Owning
        <5> QED
          BY <5>1, <5>2
      <4> QED
        BY <2>1, <2>2, <2>6, <3>2, <4>2, <4>3 DEF Kept
    <3>3. CASE u # t
      <4>1. \A q \in Handlers : On(q, u)' <=> On(q, u)
        BY <2>4, <2>5, <3>3 DEF On, At
      <4>2. \A q \in Handlers : On(q, u) => request'[q] = request[q]
        BY <2>5, <3>3 DEF On, At
      <4> QED
        BY <2>1, <2>6, <3>1, <3>3, <4>1, <4>2, SameThread
    <3> QED
      BY <3>2, <3>3
  <2> QED
    BY <2>8, <2>9, <2>10 DEF ThreadsInv
<1> QED
  BY <1>3, <1>4

\* A run saves what its account said to what it loaded of it.
LEMMA RunSavesKeeps ==
  ASSUME ThreadsInv, NEW r \in Handlers, RunSaves(r)
  PROVE  ThreadsInv'
<1>1. request[r].pc = "stream" /\ request[r].pc # "idle" /\ request[r].pc # "clean"
  BY DEF RunSaves, At
<1>2. /\ request[r] \in Request /\ request \in [Handlers -> Request]
      /\ request[r].thread \in ThreadIds /\ Informed(request[r], row)
      /\ ~ overlapped[request[r].thread] =>
           Settled(request[r], row[request[r].thread])
  BY <1>1, HandledKnows
<1> PICK t \in ThreadIds : t = request[r].thread
  BY <1>2
<1> DEFINE messages == request[r].loaded \cup {request[r].account}
           n == [request[r] EXCEPT !.loaded = messages]
<1>3. messages \in SUBSET Accounts
  BY <1>1, <1>2 DEF Request, Informed
<1>4. n \in Request
  BY <1>2, <1>3 DEF Request
<1>5. /\ n.pc = "stream" /\ n.thread = t /\ n.account = request[r].account
      /\ n.began = request[r].began /\ n.sees = request[r].sees
      /\ n.renamed = request[r].renamed /\ n.loaded = messages
  BY <1>1, <1>2 DEF Request
<1>6. /\ request' = [request EXCEPT ![r] = n]
      /\ checkpoint' = [checkpoint EXCEPT ![t] = messages]
      /\ UNCHANGED <<row, overlapped>>
  BY <1>2 DEF RunSaves
<1>7. ~ overlapped[t] => /\ row[t] # None /\ row[t].owner = request[r].account
                         /\ messages \subseteq {request[r].account}
  BY <1>1, <1>2 DEF Settled, Owning
<1> HIDE DEF n, messages
<1>8. /\ request' \in [Handlers -> Request] /\ request'[r] = n
      /\ \A q \in Handlers : q # r => request'[q] = request[q]
  BY <1>2, <1>4, <1>6
<1>9. /\ checkpoint' \in [ThreadIds -> SUBSET Accounts] /\ checkpoint'[t] = messages
      /\ \A u \in ThreadIds : u # t => checkpoint'[u] = checkpoint[u]
  BY <1>3, <1>6 DEF ThreadsInv, ThreadsTypeOK
<1>10. ThreadsTypeOK'
  BY <1>6, <1>8, <1>9 DEF ThreadsInv, ThreadsTypeOK
<1>11. ASSUME NEW q \in Handlers PROVE Informed(request'[q], row')
  <2>1. CASE q = r
    BY <1>1, <1>2, <1>5, <1>6, <1>8, <2>1 DEF Informed, Marked, Owning, Running
  <2>2. CASE q # r
    BY <1>6, <1>8, <2>2 DEF ThreadsInv
  <2> QED
    BY <2>1, <2>2
<1>12. ASSUME NEW u \in ThreadIds, ~ overlapped'[u] PROVE Kept(u)'
  <2>1. ~ overlapped[u] /\ Kept(u)
    BY <1>6, <1>12 DEF ThreadsInv
  <2>2. CASE u = t
    <3>1. ASSUME NEW q \in Handlers, On(q, t)' PROVE Settled(request'[q], row[t])
      <4>1. CASE q = r
        BY <1>5, <1>7, <1>8, <2>1, <2>2, <4>1 DEF Settled, Kinds
      <4>2. CASE q # r
        BY <1>8, <2>1, <2>2, <3>1, <4>2 DEF Kept, On, At
      <4> QED
        BY <4>1, <4>2
    <3> QED
      BY <1>6, <1>7, <1>9, <2>1, <2>2, <3>1 DEF Kept, Owner
  <2>3. CASE u # t
    <3>1. \A q \in Handlers : On(q, u)' <=> On(q, u)
      BY <1>5, <1>8, <2>3 DEF On, At
    <3>2. \A q \in Handlers : On(q, u) => request'[q] = request[q]
      BY <1>8, <2>3 DEF On, At
    <3> QED
      BY <1>6, <1>9, <2>1, <2>3, <3>1, <3>2, SameThread
  <2> QED
    BY <2>2, <2>3
<1> QED
  BY <1>10, <1>11, <1>12 DEF ThreadsInv
\* The preview becomes of an answer to the account that owns the row; a generated
\* title replaces no given one that was there before the chat, or the chat is marked.
LEMMA record_exchangeKeeps ==
  ASSUME ThreadsInv, NEW r \in Handlers, record_exchange(r)
  PROVE  ThreadsInv'
<1>1. request[r].pc = "record" /\ request[r].pc # "idle" /\ request[r].pc # "clean"
  BY DEF record_exchange, At
<1>2. /\ request[r] \in Request /\ request \in [Handlers -> Request]
      /\ request[r].thread \in ThreadIds /\ Informed(request[r], row)
      /\ ~ overlapped[request[r].thread] =>
           Settled(request[r], row[request[r].thread])
  BY <1>1, HandledKnows
<1> PICK t \in ThreadIds : t = request[r].thread
  BY <1>2
<1>3. CASE row[t] = None
  BY <1>1, <1>3, QuietReturn DEF record_exchange
<1>4. CASE row[t] # None
  <2> DEFINE new == [row[t] EXCEPT !.last = request[r].account,
                       !.title = IF Titles(request[r].sees) THEN "generated" ELSE @]
  <2>1. /\ row' = [row EXCEPT ![t] = new]
        /\ Return(r) /\ UNCHANGED <<checkpoint, overlapped>>
    BY <1>4 DEF record_exchange
  <2>2. row[t] \in Row /\ row \in [ThreadIds -> Row \cup {None}]
    BY <1>4 DEF ThreadsInv, ThreadsTypeOK
  <2>3. /\ new \in Row /\ new.owner = row[t].owner /\ new.last = request[r].account
        /\ new.title = "given" => row[t].title = "given"
    BY <1>1, <1>2, <2>2 DEF Row, Informed
  <2> HIDE DEF new
  <2>4. /\ row' \in [ThreadIds -> Row \cup {None}] /\ row'[t] = new
        /\ \A u \in ThreadIds : u # t => row'[u] = row[u]
    BY <2>1, <2>2, <2>3
  <2>5. /\ request' \in [Handlers -> Request] /\ request'[r].pc = "idle"
        /\ \A q \in Handlers : q # r => request'[q] = request[q]
    BY <1>1, <2>1, WriteAndReturn
  <2>6. ThreadsTypeOK'
    BY <2>1, <2>4, <2>5 DEF ThreadsInv, ThreadsTypeOK
  <2>7. ASSUME NEW q \in Handlers PROVE Informed(request'[q], row')
    <3>1. CASE request'[q].pc = "idle"
      BY <3>1 DEF Informed
    <3>2. CASE request'[q].pc # "idle"
      <4>1. request'[q] = request[q] /\ request[q].thread \in ThreadIds
        BY <2>5, <3>2, HandledKnows
      <4>2. Informed(request[q], row)
        BY DEF ThreadsInv
      <4> QED
        BY <1>4, <2>3, <2>4, <4>1, <4>2 DEF Informed, Marked
    <3> QED
      BY <3>1, <3>2
  <2>8. ASSUME NEW u \in ThreadIds, ~ overlapped'[u] PROVE Kept(u)'
    <3>1. ~ overlapped[u] /\ Kept(u)
      BY <2>1, <2>8 DEF ThreadsInv
    <3>2. CASE u = t
      <4>1. row[t].owner = request[r].account
        BY <1>1, <1>2, <3>1, <3>2 DEF Settled, Owning
      <4>2. checkpoint[t] \subseteq {row[t].owner}
        BY <1>4, <3>1, <3>2 DEF Kept, Owner, BeingDeleted
      <4>3. new # None
        BY <2>3, ThreadAssumption DEF ThreadAssumption
      <4>4. ASSUME NEW q \in Handlers, On(q, t)' PROVE Settled(request'[q], new)
        <5>1. request'[q] = request[q] /\ On(q, t)
          BY <2>5, <4>4 DEF On, At
        <5>2. Settled(request[q], row[t])
          BY <3>1, <3>2, <5>1 DEF Kept
        <5> QED
          BY <2>3, <4>3, <5>1, <5>2 DEF Settled
      <4> QED
        BY <2>1, <2>3, <2>4, <3>2, <4>1, <4>2, <4>3, <4>4 DEF Kept, Owner
    <3>3. CASE u # t
      <4>1. \A q \in Handlers : (On(q, u)' <=> On(q, u)) /\ (On(q, u) => request'[q] = request[q])
        BY <1>1, <2>1, <3>3, WriteAndReturn
      <4> QED
        BY <2>1, <2>4, <3>1, <3>3, <4>1, SameThread
    <3> QED
      BY <3>2, <3>3
  <2> QED
    BY <2>6, <2>7, <2>8 DEF ThreadsInv
<1> QED
  BY <1>3, <1>4

\* A crash forgets every request; what it leaves of a clean-up is marked.
LEMMA CrashKeeps ==
  ASSUME ThreadsInv, Crash
  PROVE  ThreadsInv'
<1>1. /\ overlapped' = [t \in ThreadIds |-> overlapped[t] \/ CleanUpDue(t)]
      /\ request' = [r \in Handlers |-> Idle]
      /\ UNCHANGED <<row, checkpoint>>
  BY DEF Crash
<1>2. \A t \in ThreadIds : CleanUpDue(t) \in BOOLEAN
  BY DEF CleanUpDue
<1>3. ThreadsTypeOK'
  BY <1>1, <1>2, NothingAsked DEF ThreadsInv, ThreadsTypeOK
<1>4. \A q \in Handlers : Informed(request'[q], row')
  BY <1>1, NothingAsked DEF Informed
<1>5. ASSUME NEW t \in ThreadIds, ~ overlapped'[t] PROVE Kept(t)'
  <2>1. ~ overlapped[t] /\ ~ CleanUpDue(t) /\ Kept(t)
    BY <1>1, <1>5 DEF ThreadsInv
  <2>2. \A q \in Handlers : ~ On(q, t)'
    BY <1>1, NothingAsked DEF On, At
  <2> QED
    BY <1>1, <2>1, <2>2 DEF Kept, Owner, BeingDeleted
<1> QED
  BY <1>3, <1>4, <1>5 DEF ThreadsInv

LEMMA NothingMovesKeeps ==
  ASSUME ThreadsInv, UNCHANGED <<row, checkpoint, request, overlapped>>
  PROVE  ThreadsInv'
<1>1. ThreadsTypeOK' /\ \A q \in Handlers : Informed(request'[q], row')
  BY DEF ThreadsInv, ThreadsTypeOK
<1>2. ASSUME NEW t \in ThreadIds, ~ overlapped'[t] PROVE Kept(t)'
  BY <1>2, SameThread DEF ThreadsInv, On, At
<1> QED
  BY <1>1, <1>2 DEF ThreadsInv

LEMMA ThreadsNextKeeps ==
  ASSUME ThreadsInv, ThreadsNext
  PROVE  ThreadsInv'
<1>1. CASE Startup \/ Shutdown \/ Crash
  BY <1>1, CrashKeeps, NothingMovesKeeps DEF Startup, Shutdown
<1>2. CASE \E r \in Handlers, a \in Accounts, t \in ThreadIds :
             \/ \E kind \in Kinds, began \in BOOLEAN : Arrive(r, kind, a, t, began)
             \/ \E title \in {"default", "given"} : create_thread(r, a, t, title)
  BY <1>2, ArriveKeeps, create_threadKeeps
<1>3. ASSUME NEW r \in Handlers,
             \/ NotFound(r) \/ Die(r)
             \/ Check(r, "rename", "update") \/ Check(r, "delete", "remove")
             \/ Check(r, "messages", "read")
             \/ rename_thread(r) \/ get_thread_messages(r)
      PROVE ThreadsInv'
  BY <1>3, NotFoundKeeps, DieKeeps, CheckKeeps, rename_threadKeeps, GetMessagesKeeps DEF Kinds
<1>4. ASSUME NEW r \in Handlers,
             \/ delete_thread(r) \/ adelete_thread(r) \/ CleanUpFails(r)
             \/ EnsureFound(r) \/ EnsureMissing(r) \/ EnsureInsert(r) \/ EnsureRefresh(r)
             \/ RunLoads(r) \/ RunSaves(r) \/ RunEnds(r) \/ record_exchange(r)
      PROVE ThreadsInv'
  <2>1. CASE EnsureFound(r)
    BY <2>1, CheckKeeps DEF EnsureFound, Kinds
  <2>2. CASE ~ EnsureFound(r)
    BY <1>4, <2>2, delete_threadKeeps, adelete_threadKeeps, CleanUpFailsKeeps, EnsureMissingKeeps,
       EnsureInsertKeeps, EnsureRefreshKeeps, RunLoadsKeeps, RunSavesKeeps, RunEndsKeeps,
       record_exchangeKeeps
  <2> QED
    BY <2>1, <2>2
<1> QED
  BY <1>1, <1>2, <1>3, <1>4 DEF ThreadsNext

LEMMA ThreadsInductive == ThreadsSpec => []ThreadsInv
<1>1. ThreadsInit => ThreadsInv
  BY NothingAsked
  DEF ThreadsInit, ThreadsInv, ThreadsTypeOK, Informed, Kept, Owner, On, At
<1>2. ThreadsInv /\ [ThreadsNext]_threadsVars => ThreadsInv'
  BY ThreadsNextKeeps, NothingMovesKeeps DEF threadsVars
<1> QED
  BY <1>1, <1>2, PTL DEF ThreadsSpec

-----------------------------------------------------------------------------
(* What the run checks on a small instance *)

\* Unless a deletion met another request or its clean-up failed, the agent
\* remembers of a thread only what its owner said, a deleted thread is forgotten,
\* and whoever is at work on it is its owner (get_thread, ensure_thread,
\* delete_thread, record_exchange).
THEOREM ConversationIsOwn == ThreadsSpec => []OwnConversation
<1>1. ThreadsInv => OwnConversation
  <2> SUFFICES ASSUME ThreadsInv, NEW t \in ThreadIds, ~ overlapped[t]
               PROVE  /\ checkpoint[t] \subseteq Owner(t) \/ BeingDeleted(t)
                      /\ row[t] # None => row[t].last \in {None, row[t].owner}
                      /\ \A r \in Handlers :
                           On(r, t) /\ Decided(r) => request[r].account \in Owner(t)
    BY DEF OwnConversation
  <2>1. Kept(t)
    BY DEF ThreadsInv
  <2> QED
    BY <2>1 DEF Kept, Decided, Settled, Owning, Owner
<1> QED
  BY <1>1, ThreadsInductive, PTL

\* Only the end of a chat gives a generated title.
LEMMA OnlyRecordGenerates ==
  ASSUME ThreadsInv, ThreadsNext, NEW t \in ThreadIds,
         row[t] # None, row'[t] # None, row'[t].title = "generated", row'[t] # row[t]
  PROVE  \E r \in Handlers : record_exchange(r) /\ request[r].thread = t
<1>1. row \in [ThreadIds -> Row \cup {None}] /\ row' # row
  BY DEF ThreadsInv, ThreadsTypeOK
<1>2. CASE Startup \/ Shutdown \/ Crash
  BY <1>1, <1>2 DEF Startup, Shutdown, Crash
<1>3. ASSUME NEW r \in Handlers, NEW a \in Accounts, NEW u \in ThreadIds,
             \/ \E kind \in Kinds, began \in BOOLEAN : Arrive(r, kind, a, u, began)
             \/ \E title \in {"default", "given"} : create_thread(r, a, u, title)
      PROVE FALSE
  BY <1>1, <1>3 DEF Arrive, create_thread
<1>4. ASSUME NEW r \in Handlers,
             \/ NotFound(r) \/ Die(r)
             \/ Check(r, "rename", "update") \/ Check(r, "delete", "remove")
             \/ Check(r, "messages", "read") \/ get_thread_messages(r)
             \/ adelete_thread(r) \/ CleanUpFails(r)
             \/ EnsureFound(r) \/ EnsureMissing(r) \/ EnsureRefresh(r)
             \/ RunLoads(r) \/ RunSaves(r) \/ RunEnds(r)
      PROVE FALSE
  BY <1>1, <1>4
  DEF NotFound, Die, Check, get_thread_messages, adelete_thread, CleanUpFails, EnsureFound,
      EnsureMissing, EnsureRefresh, RunLoads, RunSaves, RunEnds
<1>5. ASSUME NEW r \in Handlers, rename_thread(r) PROVE FALSE
  <2>1. row' = [row EXCEPT ![request[r].thread].title = "given"]
    BY <1>1, <1>5 DEF rename_thread
  <2>2. request[r].thread = t /\ row[t] \in Row
    BY <1>1, <2>1
  <2> QED
    BY <1>1, <2>1, <2>2 DEF Row
<1>6. ASSUME NEW r \in Handlers, delete_thread(r) \/ EnsureInsert(r) PROVE FALSE
  BY <1>1, <1>6 DEF delete_thread, EnsureInsert
<1>7. ASSUME NEW r \in Handlers, record_exchange(r) PROVE request[r].thread = t
  BY <1>1, <1>7 DEF record_exchange
<1> QED
  BY <1>2, <1>3, <1>4, <1>5, <1>6, <1>7 DEF ThreadsNext

\* A given title is replaced by a generated one only in a chat that was under way
\* when it was given (rename_thread, record_exchange).
THEOREM GivenTitlesStay == ThreadsSpec => GivenTitleStays
<1> DEFINE Stays ==
      \A t \in ThreadIds :
        /\ row[t] # None /\ row'[t] # None
        /\ row[t].title = "given" /\ row'[t].title = "generated"
        => \E r \in Handlers : request[r].thread = t /\ request[r].renamed /\ At(r, "record")
<1>1. ThreadsInv /\ [ThreadsNext]_threadsVars => [Stays]_threadsVars
  <2> SUFFICES ASSUME ThreadsInv, ThreadsNext, NEW t \in ThreadIds,
                      row[t] # None, row'[t] # None,
                      row[t].title = "given", row'[t].title = "generated"
               PROVE  \E r \in Handlers :
                        request[r].thread = t /\ request[r].renamed /\ At(r, "record")
    OBVIOUS
  <2>1. PICK r \in Handlers : record_exchange(r) /\ request[r].thread = t
    BY OnlyRecordGenerates
  <2>2. request[r].pc = "record" /\ request[r].pc # "idle"
    BY <2>1 DEF record_exchange, At
  <2>3. /\ request[r] \in Request /\ Informed(request[r], row)
        /\ row \in [ThreadIds -> Row \cup {None}]
    BY <2>2, HandledKnows DEF ThreadsInv, ThreadsTypeOK
  <2>4. Titles(request[r].sees)
    <3>1. SUFFICES ASSUME ~ Titles(request[r].sees) PROVE FALSE
      OBVIOUS
    <3>2. row' = [row EXCEPT ![t].last = request[r].account, ![t].title = row[t].title]
      BY <2>1, <3>1 DEF record_exchange
    <3>3. row[t] \in Row
      BY <2>3
    <3> QED
      BY <2>3, <3>2, <3>3 DEF Row
  <2>5. request[r].renamed
    BY <2>1, <2>2, <2>3, <2>4 DEF Titles, Informed, Marked, Running
  <2> QED
    BY <2>1, <2>2, <2>5 DEF At
<1> QED
  BY <1>1, ThreadsInductive, PTL DEF ThreadsSpec, GivenTitleStays

=============================================================================
