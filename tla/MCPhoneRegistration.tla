------------------------ MODULE MCPhoneRegistration -------------------------
(***************************************************************************)
(* PhoneRegistration with two calls at a time and one code a minute, the   *)
(* minute being two ticks and the day three; a code lives for two.  Two    *)
(* machines, one of them a tick behind.                                    *)
(***************************************************************************)
EXTENDS PhoneRegistration

MCSkews == {0, 1}

=============================================================================
