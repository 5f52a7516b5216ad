------------------------------- MODULE Threads ------------------------------
(***************************************************************************)
(* The threads of an account: a row in MySQL that says whose a thread is   *)
(* (services/thread_service.py, api/v1/threads.py) and, under the same id, *)
(* what the agent remembers of it in the checkpointer, which knows no      *)
(* owner.  Chats write both (api/chat.py), and nothing holds them          *)
(* together: a deleted row is committed before the memory is cleaned, and  *)
(* the id is free again for whoever names it in a chat ("default" is what  *)
(* a chat without a conversation_id names).                                *)
(*                                                                         *)
(* CHAT_REQUIRE_AUTH is on.  A request is one InnoDB transaction at        *)
(* REPEATABLE READ until it commits, and get_current may have read before  *)
(* the handler does: it reads the past and writes the present.  A chat's   *)
(* session stays open until its stream ends.                               *)
(***************************************************************************)
EXTENDS AgentSingleton, FiniteSets

CONSTANTS
  Accounts,
  ThreadIds,
  Handlers    \* requests that are handled together

\* A row of agent_threads: whose it is, where its title is from and whose answer
\* the preview is of.
Row == [ owner : Accounts, title : {"default", "given", "generated"},
         last : Accounts \cup {None} ]

ASSUME ThreadAssumption == None \notin Accounts \cup ThreadIds \cup Row

VARIABLES
  row,        \* agent_threads: the row of a thread, or None
  checkpoint, \* whose messages the latest checkpoint of a thread holds
  request,    \* the requests in flight
  overlapped  \* history: a deletion of the thread met another request, or its
              \* clean-up failed

threadsVars == <<row, checkpoint, request, overlapped, singleton>>

Idle == [ pc |-> "idle", account |-> None, thread |-> None, began |-> FALSE,
          sees |-> None, loaded |-> {}, renamed |-> FALSE ]

NewRow(a, title) == [owner |-> a, title |-> title, last |-> None]

ThreadsInit ==
  /\ row = [t \in ThreadIds |-> None]
  /\ checkpoint = [t \in ThreadIds |-> {}]
  /\ request = [r \in Handlers |-> Idle]
  /\ overlapped = [t \in ThreadIds |-> FALSE]
  /\ InitSingleton

At(r, pc) == request[r].pc = pc
On(r, t) == ~ At(r, "idle") /\ request[r].thread = t
Owner(t) == IF row[t] = None THEN {} ELSE {row[t].owner}
Return(r) == request' = [request EXCEPT ![r] = Idle]
Go(r, pc) == request' = [request EXCEPT ![r].pc = pc]

\* What the transaction of a request shows of its thread.
Seen(r) == IF request[r].began THEN request[r].sees ELSE row[request[r].thread]

\* Somebody else has begun, or is about to clean the thread.
Others(r, t) == \E q \in Handlers \ {r} : On(q, t) /\ (request[q].began \/ At(q, "clean"))
CleanUpDue(t) == \E q \in Handlers : On(q, t) /\ At(q, "clean")

-----------------------------------------------------------------------------
(* Handlers *)

\* A request of an account for a thread; get_current has read, or not.
Arrive(r, kind, a, t, began) ==
  /\ saver # None
  /\ At(r, "idle")
  /\ request' = [request EXCEPT ![r] =
       [Idle EXCEPT !.pc = kind, !.account = a, !.thread = t,
                    !.began = began, !.sees = IF began THEN row[t] ELSE None]]
  /\ UNCHANGED <<row, checkpoint, overlapped, singleton>>

\* POST /threads: a fresh uuid4, so nobody has named it before.
create_thread(r, a, t, title) ==
  /\ saver # None
  /\ At(r, "idle")
  /\ row[t] = None /\ checkpoint[t] = {}
  /\ \A q \in Handlers : ~ On(q, t)
  /\ row' = [row EXCEPT ![t] = NewRow(a, title)]
  /\ UNCHANGED <<checkpoint, request, overlapped, singleton>>

\* get_thread: a thread of somebody else is not there.
Mine(r) == Seen(r) # None /\ Seen(r).owner = request[r].account

NotFound(r) ==
  /\ \/ request[r].pc \in {"rename", "delete", "messages"} /\ ~ Mine(r)
     \/ At(r, "chat") /\ Seen(r) # None /\ ~ Mine(r)
  /\ Return(r)
  /\ UNCHANGED <<row, checkpoint, overlapped, singleton>>

\* What was seen matters to a chat, at its end.
Found(r, next) ==
  request' = [request EXCEPT ![r] =
    [@ EXCEPT !.pc = next, !.began = TRUE, !.sees = IF next = "run" THEN Seen(r) ELSE None]]

Check(r, kind, next) ==
  /\ At(r, kind)
  /\ Mine(r)
  /\ Found(r, next)
  /\ UNCHANGED <<row, checkpoint, overlapped, singleton>>

-----------------------------------------------------------------------------
(* PATCH and GET *)

\* The UPDATE of rename_thread goes by the thread id alone.
rename_thread(r) ==
  LET t == request[r].thread IN
  /\ At(r, "update")
  /\ IF row[t] = None
     THEN UNCHANGED row /\ Return(r)
     ELSE /\ row' = [row EXCEPT ![t].title = "given"]
          /\ request' = [q \in Handlers |->
               IF q = r THEN Idle
               ELSE IF On(q, t) /\ request[q].sees # None
               THEN [request[q] EXCEPT !.renamed = TRUE] ELSE request[q]]
  /\ UNCHANGED <<checkpoint, overlapped, singleton>>

\* get_thread_messages: the memory is read by the thread id alone.
get_thread_messages(r) ==
  /\ At(r, "read")
  /\ get_agent
  /\ Return(r)
  /\ UNCHANGED <<row, checkpoint, overlapped>>

-----------------------------------------------------------------------------
(* DELETE *)

\* The row goes, whoever is at work on the thread ...
delete_thread(r) ==
  LET t == request[r].thread IN
  /\ At(r, "remove")
  /\ row' = [row EXCEPT ![t] = None]
  /\ overlapped' = [overlapped EXCEPT ![t] = @ \/ Others(r, t)]
  /\ request' = [request EXCEPT ![r] = [Idle EXCEPT !.pc = "clean", !.thread = t]]
  /\ UNCHANGED <<checkpoint, singleton>>

\* mutant: the row is all that goes
NoCleanUp(r) ==
  /\ At(r, "clean")
  /\ Return(r)
  /\ UNCHANGED <<row, checkpoint, overlapped, singleton>>

\* ... then the memory.
adelete_thread(r) ==
  LET t == request[r].thread IN
  /\ At(r, "clean")
  /\ get_agent
  /\ checkpoint' = [checkpoint EXCEPT ![t] = {}]
  /\ overlapped' = [overlapped EXCEPT ![t] =
       @ /\ (row[t] # None \/ \E q \in Handlers \ {r} : On(q, t))]
  /\ Return(r)
  /\ UNCHANGED row

\* A failure to clean is logged and forgotten.
CleanUpFails(r) ==
  LET t == request[r].thread IN
  /\ At(r, "clean")
  /\ get_agent
  /\ overlapped' = [overlapped EXCEPT ![t] = TRUE]
  /\ Return(r)
  /\ UNCHANGED <<row, checkpoint>>

-----------------------------------------------------------------------------
(* A chat *)

\* ensure_thread finds the row of the account ...
EnsureFound(r) == Check(r, "chat", "run")

\* ... or none ...
EnsureMissing(r) ==
  /\ At(r, "chat")
  /\ Seen(r) = None
  /\ Found(r, "insert")
  /\ UNCHANGED <<row, checkpoint, overlapped, singleton>>

\* ... and inserts it; of two that do, the primary key refuses one.
EnsureInsert(r) ==
  LET t == request[r].thread IN
  /\ At(r, "insert")
  /\ IF row[t] # None
     THEN UNCHANGED <<row, overlapped>> /\ Return(r)
     ELSE /\ row' = [row EXCEPT ![t] = NewRow(request[r].account, "default")]
          /\ overlapped' = [overlapped EXCEPT ![t] = @ \/ CleanUpDue(t)]
          /\ Go(r, "refresh")
  /\ UNCHANGED <<checkpoint, singleton>>

\* The row is read back in a transaction of its own, which the stream keeps.
EnsureRefresh(r) ==
  LET t == request[r].thread IN
  /\ At(r, "refresh")
  /\ IF row[t] = None
     THEN Return(r)
     ELSE request' = [request EXCEPT ![r] = [@ EXCEPT !.pc = "run", !.sees = row[t]]]
  /\ UNCHANGED <<row, checkpoint, overlapped, singleton>>

\* The run loads what the agent remembers of the thread ...
RunLoads(r) ==
  /\ At(r, "run")
  /\ get_agent
  /\ request' = [request EXCEPT ![r] =
       [@ EXCEPT !.pc = "stream", !.loaded = checkpoint[request[r].thread]]]
  /\ UNCHANGED <<row, checkpoint, overlapped>>

\* ... and saves it with its own messages, after every step, whatever is there.
RunSaves(r) ==
  LET messages == request[r].loaded \cup {request[r].account} IN
  /\ At(r, "stream")
  /\ checkpoint' = [checkpoint EXCEPT ![request[r].thread] = messages]
  /\ request' = [request EXCEPT ![r].loaded = messages]
  /\ UNCHANGED <<row, overlapped, singleton>>

\* The stream has ended well: record_exchange is due.
RunEnds(r) ==
  /\ At(r, "stream")
  /\ request[r].account \in request[r].loaded
  /\ request' = [request EXCEPT ![r] = [@ EXCEPT !.pc = "record", !.loaded = {}]]
  /\ UNCHANGED <<row, checkpoint, overlapped, singleton>>

\* mutant: the first exchange gives the title, whatever it is
TitlesFirst(seen) == seen.last = None

\* The title is generated by the first exchange, when nobody has given one.
Titles(seen) == seen.last = None /\ seen.title = "default"

\* record_exchange: what it decides by is what the transaction saw, what it
\* updates is the row by its id; if that is gone nothing happens.
record_exchange(r) ==
  LET t == request[r].thread
      seen == request[r].sees
  IN
  /\ At(r, "record")
  /\ row' = IF row[t] = None THEN row
            ELSE [row EXCEPT ![t].last = request[r].account,
                             ![t].title = IF Titles(seen) THEN "generated" ELSE @]
  /\ Return(r)
  /\ UNCHANGED <<checkpoint, overlapped, singleton>>

-----------------------------------------------------------------------------
(* Failures and the application's life *)

\* A request fails or its client goes away.
Die(r) ==
  /\ ~ At(r, "idle")
  /\ overlapped' = [t \in ThreadIds |-> overlapped[t] \/ (On(r, t) /\ At(r, "clean"))]
  /\ Return(r)
  /\ UNCHANGED <<row, checkpoint, singleton>>

Startup == init_checkpointer /\ UNCHANGED <<row, checkpoint, request, overlapped>>

\* The server serves what is in flight before it shuts down.
Shutdown ==
  /\ \A r \in Handlers : At(r, "idle")
  /\ close_checkpointer
  /\ UNCHANGED <<row, checkpoint, request, overlapped>>

Crash ==
  /\ Perish
  /\ overlapped' = [t \in ThreadIds |-> overlapped[t] \/ CleanUpDue(t)]
  /\ request' = [r \in Handlers |-> Idle]
  /\ UNCHANGED <<row, checkpoint>>

Kinds == {"chat", "rename", "delete", "messages"}

ThreadsNext ==
  \/ Startup \/ Shutdown \/ Crash
  \/ \E r \in Handlers, a \in Accounts, t \in ThreadIds :
       \/ \E kind \in Kinds, began \in BOOLEAN : Arrive(r, kind, a, t, began)
       \/ \E title \in {"default", "given"} : create_thread(r, a, t, title)
  \/ \E r \in Handlers :
       \/ NotFound(r) \/ Die(r)
       \/ Check(r, "rename", "update") \/ Check(r, "delete", "remove")
       \/ Check(r, "messages", "read")
       \/ rename_thread(r) \/ get_thread_messages(r)
       \/ delete_thread(r) \/ adelete_thread(r) \/ CleanUpFails(r)
       \/ EnsureFound(r) \/ EnsureMissing(r) \/ EnsureInsert(r) \/ EnsureRefresh(r)
       \/ RunLoads(r) \/ RunSaves(r) \/ RunEnds(r) \/ record_exchange(r)

ThreadsSpec == ThreadsInit /\ [][ThreadsNext]_threadsVars

-----------------------------------------------------------------------------
(* Properties *)

\* A thread has a deletion under way: its row has gone, its memory will.
BeingDeleted(t) == row[t] = None /\ CleanUpDue(t)

Decided(r) == request[r].pc \in {"update", "read", "remove", "run", "stream", "record"}

\* Unless a deletion of the thread has met another request on it, or its
\* clean-up has failed, the agent remembers of a thread only what its owner
\* said, a thread without a row is not remembered, the preview is of an answer
\* to the owner, and who is at work on it is its owner.
OwnConversation ==
  \A t \in ThreadIds : ~ overlapped[t] =>
    /\ checkpoint[t] \subseteq Owner(t) \/ BeingDeleted(t)
    /\ row[t] # None => row[t].last \in {None, row[t].owner}
    /\ \A r \in Handlers : On(r, t) /\ Decided(r) => request[r].account \in Owner(t)

\* A title that was given is replaced by a generated one only in a chat that was
\* under way when it was given.
GivenTitleStays ==
  [][\A t \in ThreadIds :
       /\ row[t] # None /\ row'[t] # None
       /\ row[t].title = "given" /\ row'[t].title = "generated"
       => \E r \in Handlers : request[r].thread = t /\ request[r].renamed /\ At(r, "record")]_threadsVars

=============================================================================
