---------------------------- MODULE MCLoginGuard ----------------------------
(***************************************************************************)
(* LoginGuard with two attempts at a time: the second wrong password locks *)
(* for one tick, the next lock of the same day for two.  A window is two   *)
(* ticks and a day four, so that counts expire, that a lock falls into the *)
(* day of the one before it, and that it outlives that day.                *)
(***************************************************************************)
EXTENDS LoginGuard

=============================================================================
