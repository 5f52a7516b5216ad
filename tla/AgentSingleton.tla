---------------------------- MODULE AgentSingleton ---------------------------
(***************************************************************************)
(* The two globals of agent.py: the checkpointer with its connection and   *)
(* the agent that is built over it once.  Connections are told apart by    *)
(* the life of the process that opened them.                               *)
(*                                                                         *)
(* The application opens the checkpointer before it serves and closes it   *)
(* when it serves no more (main.py, lifespan), so no two of these meet:    *)
(* with the checkpointer there, get_agent never suspends.                  *)
(***************************************************************************)
EXTENDS Absent, Naturals

CONSTANT MaxLives  \* bound: how often the application starts

VARIABLES
  saver,  \* _checkpointer and _checkpointer_conn: the open connection, or None
  agent,  \* _agent: the connection it was built over, or None
  life    \* starts so far

singleton == <<saver, agent, life>>

InitSingleton == saver = None /\ agent = None /\ life = 0

\* The connection is opened and its tables are there.
init_checkpointer ==
  /\ saver = None
  /\ life < MaxLives
  /\ life' = life + 1
  /\ saver' = life'
  /\ UNCHANGED agent

\* The agent there is, or one built now.
get_agent ==
  /\ saver # None
  /\ agent' = IF agent = None THEN saver ELSE agent
  /\ UNCHANGED <<saver, life>>

\* The agent goes with the connection it was built over.
close_checkpointer ==
  /\ saver # None
  /\ saver' = None /\ agent' = None
  /\ UNCHANGED life

\* The process dies: nothing of its memory is left.
Perish == saver # None /\ saver' = None /\ agent' = None /\ UNCHANGED life

=============================================================================
