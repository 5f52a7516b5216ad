------------------------------ MODULE MCThreads ------------------------------
(***************************************************************************)
(* Threads with two accounts, one id they share and two requests in flight *)
(* at a time: a chat and the deletion it meets, and the chat that takes    *)
(* the id from there.                                                      *)
(***************************************************************************)
EXTENDS Threads, TLC

Symmetry == Permutations(Handlers) \cup Permutations(Accounts)

=============================================================================
