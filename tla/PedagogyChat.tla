---------------------------- MODULE PedagogyChat ----------------------------
(***************************************************************************)
(* One conversation thread behind POST /api/chat: what carries a Feynman   *)
(* loop from one request to the next.  A request reads the  pedagogy       *)
(* channel of the checkpoint and turns the learner's text into at most one *)
(* event (api/chat.py, pedagogy/session.py, pedagogy/turn.py); the agent   *)
(* graph then runs, and after every model message the middleware ticks the *)
(* events the tutor reports, applies the guards and writes the loop back   *)
(* (middleware/agent_pedagogy.py).                                         *)
(*                                                                         *)
(* The graph is LangGraph's: a run copies the channels when it starts and  *)
(* saves its copy after each node, so the last run to save a node wins.    *)
(*                                                                         *)
(* Abstractions.  A text is the answers the patterns of turn.py give about *)
(* it and its length; a model message is the events it reports, whether it *)
(* asks for tools, and how many characters it has, in all and in front of  *)
(* the worked solution if it holds one.  Learn events are left out but for *)
(* the last state card and the talk-ratio guard of a request.              *)
(***************************************************************************)
EXTENDS FeynmanKernel

CONSTANTS
  Requests,      \* slots for requests on the thread that are open together
  Utterances,    \* what the learner may write
  Messages,      \* what the model may answer
  MonologueCap,  \* PEDAGOGY_MONOLOGUE_CAP_CHARS
  HintChars      \* the length of DIRECT_ANSWER_REWRITE_HINT

Utterance ==
  [ empty : BOOLEAN, deny : BOOLEAN, confirm : BOOLEAN, escape : BOOLEAN,
    concept : Concepts \cup {None}, chars : Nat ]

Message ==
  [ events : Seq(LoopEvent), tools : BOOLEAN,
    chars : Nat, preface : Nat, solution : BOOLEAN ]

ASSUME ChatAssumption ==
  /\ Utterances \subseteq Utterance
  /\ Messages \subseteq Message
  /\ MonologueCap \in Nat
  /\ HintChars \in Nat
  /\ None \notin LoopEvent

VARIABLES
  channel,  \* the pedagogy channel of the newest checkpoint, or None
  req       \* the open requests

vars == <<channel, req>>

-----------------------------------------------------------------------------
(* Reading the learner *)

\* The last two fields are history, not stored by the code: whether the loop has
\* asked to confirm an escape, and the RECORD_MASTERY actions it has emitted.
\* They travel with the loop, so that each of two runs that continue the same
\* saved loop has the history of its own.
LoopCarrier(snapshot, awaiting, asked, credits) ==
  [ state |-> snapshot, awaiting_escape |-> awaiting,
    asked |-> asked, credits |-> credits ]

\* from_channel: a stored supply of no characters fails AtomBundle's ge=1, and
\* a carrier that does not parse counts as none.
Parses(raw) ==
  /\ raw # None
  /\ \A i \in DOMAIN raw.state.open_gaps :
       raw.state.open_gaps[i].supply = None \/ raw.state.open_gaps[i].supply >= 1

Resumes(raw) == Parses(raw) /\ raw.state.state \notin TERMINAL_STATES

Reading(event, awaiting) == [event |-> event, awaiting_escape |-> awaiting]

Escape(confirmed) ==
  [kind |-> "escape_requested", confirmed |-> confirmed, system_chars |-> 0]

\* The first rule that applies reads the text: an answer to the question
\* whether to escape, a request to escape, then what the state is waiting for.
read_turn(s, text, awaiting) ==
  IF text.empty THEN Reading(None, FALSE)
  ELSE IF awaiting /\ text.deny THEN Reading(None, FALSE)
  ELSE IF awaiting /\ text.confirm THEN Reading(Escape(TRUE), FALSE)
  ELSE IF text.escape THEN Reading(Escape(FALSE), TRUE)
  ELSE IF s.state = "Teach"
  THEN Reading([kind |-> "explanation_submitted", chars |-> text.chars,
                system_chars |-> 0], awaiting)
  ELSE IF s.state = "Pick" /\ text.concept # None
  THEN Reading([kind |-> "concept_named", concept_id |-> text.concept], FALSE)
  ELSE Reading(None, awaiting)

\* The snapshot a turn starts from, its reading and the tick that follows.
prepare_turn(raw, text) ==
  LET base    == IF Resumes(raw) THEN raw.state ELSE NewSnapshot
      reading == read_turn(base, text, Resumes(raw) /\ raw.awaiting_escape)
      step    == IF reading.event = None THEN LoopStep(base, {}, {})
                 ELSE tick(base, reading.event)
      asked   == "confirm_escape" \in step.actions \/ (Resumes(raw) /\ raw.asked)
      credits == IF Resumes(raw) THEN raw.credits ELSE 0
  IN  [ carrier |-> LoopCarrier(step.state, reading.awaiting_escape, asked, credits),
        ticked  |-> reading.event # None ]

-----------------------------------------------------------------------------
(* Judging a model message *)

TutorMayReportAll == EventKind  \* mutant: the learner's events too

TUTOR_EVENT_KINDS == {"gap_reported", "supply_completed", "simplify_judged"}

\* Events that are the server's to read are refused, reported lengths zeroed.
parse_tutor_events(events) ==
  LET parsed[i \in 0..Len(events)] ==
        IF i = 0 THEN << >>
        ELSE IF events[i].kind \notin TUTOR_EVENT_KINDS THEN parsed[i - 1]
        ELSE Append(parsed[i - 1], [events[i] EXCEPT !.system_chars = 0])
  IN  parsed[Len(events)]

NO_DIRECT_ANSWER_STATES == {"Detect", "Return"}

Text(chars, solution) == [chars |-> chars, solution |-> solution]

enforce_no_direct_answer(phase, m) ==
  IF phase \in NO_DIRECT_ANSWER_STATES /\ m.solution
  THEN Text(m.preface + HintChars, FALSE)
  ELSE Text(m.chars, m.solution)

\* A text over the cap is cut at the last newline of its second half, or at
\* the cap: the length that is left is anything from half the cap on.
enforce_monologue_cap(chars) ==
  IF chars <= MonologueCap THEN {chars} ELSE (MonologueCap \div 2)..MonologueCap

-----------------------------------------------------------------------------
(* A request: /api/chat and the run of the graph it starts *)

\* pc: idle -> prepared -> model -> after -> (tools -> model | end) -> idle
IdleRequest ==
  [ pc      |-> "idle",
    taught  |-> FALSE,   \* prepare_turn returned a turn
    carrier |-> None,    \* PedagogySink.carrier, the loop as it runs on
    local   |-> None,    \* the run's copy of the pedagogy channel
    msg     |-> None,    \* the message after_model is called with
    card    |-> None,    \* the snapshot on the last state card sent
    ratio   |-> "due" ]  \* the talk-ratio guard: due, passed or raised

Init ==
  /\ channel = None
  /\ req = [r \in Requests |-> IdleRequest]

\* _prepare_pedagogy for a turn that is taught, with the cards sent up front.
\* A channel that holds no loop in progress starts one if a concept is named.
PrepareTaught(r, text) ==
  /\ req[r].pc = "idle"
  /\ Resumes(channel) \/ text.concept # None
  /\ LET turn == prepare_turn(channel, text)
     IN  req' = [req EXCEPT ![r] =
                   [IdleRequest EXCEPT
                      !.pc = "prepared",
                      !.taught = TRUE,
                      !.carrier = turn.carrier,
                      !.card = IF turn.ticked THEN turn.carrier.state ELSE None]]
  /\ UNCHANGED channel

\* A plain turn: an anonymous caller, the kernel switched off, a channel that
\* could not be read, or no loop in progress and no wish to learn.
PreparePlain(r) ==
  /\ req[r].pc = "idle"
  /\ req' = [req EXCEPT ![r] = [IdleRequest EXCEPT !.pc = "prepared"]]
  /\ UNCHANGED channel

\* agent.astream loads the newest checkpoint and saves the input on top of it.
StartStream(r) ==
  /\ req[r].pc = "prepared"
  /\ req' = [req EXCEPT ![r].pc = "model", ![r].local = channel]
  /\ UNCHANGED channel

\* The model node: awrap_model_call shows the model the state block of the
\* context, the model answers, the run saves.
CallModel(r, m) ==
  /\ req[r].pc = "model"
  /\ req' = [req EXCEPT ![r].pc = "after", ![r].msg = m]
  /\ channel' = req[r].local

AfterModelPc(m) == IF m.tools THEN "tools" ELSE "end"

\* aafter_model when the context carries no sink: nothing is touched.
AfterModelPlain(r) ==
  /\ req[r].pc = "after"
  /\ ~ req[r].taught
  /\ req' = [req EXCEPT ![r].pc = AfterModelPc(req[r].msg), ![r].msg = None]
  /\ channel' = req[r].local

\* _advance; mutant: the rebuilt carrier is dropped
AdvanceLost(carrier, s) == carrier

Advance(carrier, s) == [carrier EXCEPT !.state = s]

\* mutant: every event ticks the snapshot the message was called with
TrailUnchained(s, events) ==
  [i \in 0..Len(events) |->
     IF i = 0 THEN LoopStep(s, {}, {}) ELSE tick(s, events[i])]

\* The steps the reported events take from the snapshot the run has reached.
Trail(s, events) ==
  LET trail[i \in 0..Len(events)] ==
        IF i = 0 THEN LoopStep(s, {}, {}) ELSE tick(trail[i - 1].state, events[i])
  IN  trail

\* How many of these steps award mastery (history).
Credited(trail, events) ==
  Cardinality({ i \in DOMAIN events : "record_mastery" \in trail[i].actions })

\* aafter_model of a taught turn: tick the tutor's events, guard the text in
\* the state they lead to, account for its length, judge the talk ratio once
\* per request, and save the loop.
AfterModelTaught(r) ==
  LET m       == req[r].msg
      events  == parse_tutor_events(m.events)
      trail   == Trail(req[r].carrier.state, events)
      current == trail[Len(events)].state
      guarded == enforce_no_direct_answer(current.state, m)
  IN  /\ req[r].pc = "after"
      /\ req[r].taught
      /\ \E kept \in enforce_monologue_cap(guarded.chars) :
           LET said    == [current EXCEPT
                             !.system_chars = Add(current.system_chars, kept)]
               carrier == [Advance(req[r].carrier, said) EXCEPT
                             !.credits = @ + Credited(trail, events)]
               low     == TalkRatioLow(said.learner_chars, said.system_chars)
           IN  /\ req' = [req EXCEPT
                    ![r].pc      = AfterModelPc(m),
                    ![r].msg     = None,
                    ![r].carrier = carrier,
                    ![r].local   = carrier,
                    ![r].card    = IF events = << >> THEN req[r].card ELSE current,
                    ![r].ratio   = CASE req[r].ratio # "due" -> req[r].ratio
                                     [] OTHER -> IF low THEN "raised" ELSE "passed"]
               /\ channel' = carrier

\* The tools node runs, the run saves and goes back to the model.
RunTools(r) ==
  /\ req[r].pc = "tools"
  /\ req' = [req EXCEPT ![r].pc = "model"]
  /\ channel' = req[r].local

\* The stream ends and the exchange is recorded.
Finish(r) ==
  /\ req[r].pc = "end"
  /\ req' = [req EXCEPT ![r] = IdleRequest]
  /\ UNCHANGED channel

\* The model or a tool raises, or the client goes away: the run stops where it
\* is and what it has not saved is lost.
Abort(r) ==
  /\ req[r].pc \in {"prepared", "model", "after", "tools"}
  /\ req' = [req EXCEPT ![r] = IdleRequest]
  /\ UNCHANGED channel

Next ==
  \E r \in Requests :
    \/ \E text \in Utterances : PrepareTaught(r, text)
    \/ PreparePlain(r)
    \/ StartStream(r)
    \/ \E m \in Messages : CallModel(r, m)
    \/ AfterModelPlain(r)
    \/ AfterModelTaught(r)
    \/ RunTools(r)
    \/ Finish(r)
    \/ Abort(r)

Spec == Init /\ [][Next]_vars

-----------------------------------------------------------------------------
(* Properties *)

IsCarrier(c) == LegalSnapshot(c.state) /\ c.awaiting_escape \in BOOLEAN

\* Every loop that is saved, and every loop a run has reached, is one the kernel
\* may produce: whatever the model reports, whatever run saves last.
ChannelLegal ==
  /\ channel # None => IsCarrier(channel)
  /\ \A r \in Requests :
       /\ req[r].carrier # None => IsCarrier(req[r].carrier)
       /\ req[r].local # None => IsCarrier(req[r].local)

\* When a model message has been dealt with, the last state card of the request
\* shows the loop that is saved with it (chat_events sends the card, aafter_model
\* saves), over any number of tool rounds: only the talk count has moved.
CardIsSaved ==
  [][\A r \in Requests :
       /\ req[r].pc = "after"
       /\ req'[r].pc \in {"tools", "end"}
       /\ req'[r].card # None
       => [req'[r].card EXCEPT !.system_chars = channel'.state.system_chars]
            = channel'.state]_vars

\* Every loop there is: the saved one, those the open requests run, and the copies
\* their runs will save.
Loops == ( {channel} \cup {req[r].carrier : r \in Requests}
                     \cup {req[r].local : r \in Requests} ) \ {None}

\* However many requests carry a loop and however they overlap, its history holds
\* one credit if it is closed and none if it is not.  A loop whose closing was
\* overwritten is open again, and its closing is not part of its history.
CreditedOnce ==
  \A loop \in Loops : loop.credits = IF loop.state.state = "Closed" THEN 1 ELSE 0

\* Nobody gets out of a loop that has not asked to confirm it: not by a phrase in
\* the text, not by an event the model reports, and not by a question that only
\* an overlapping request has asked.
EscapeWasAsked ==
  \A loop \in Loops : loop.state.state = "Escaped" => loop.asked

-----------------------------------------------------------------------------
(* What comments and documents say, and the code does not do *)

\* A loop in progress is always read back (AtomBundle.max_chars has ge=1, and
\* _clamp_supply hands out what is left of the budget).
LoopReadsBack ==
  channel # None /\ channel.state.state \notin TERMINAL_STATES => Parses(channel)

=============================================================================
