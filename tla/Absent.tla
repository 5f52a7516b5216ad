------------------------------- MODULE Absent -------------------------------
(***************************************************************************)
(* Where there is nothing: Python's None, a row that is not there, a key   *)
(* that is not cached.                                                     *)
(***************************************************************************)

CONSTANT None

=============================================================================
