--------------------------- MODULE MCAuthSessions ---------------------------
(***************************************************************************)
(* AuthSessions on two small instances, each with the calls it is about:   *)
(* three calls at a time on one session with three token pairs and a       *)
(* change of the password; and two calls on three sessions that never      *)
(* renew their tokens, while the policy changes and sessions end one by    *)
(* one and all at once.                                                    *)
(***************************************************************************)
EXTENDS AuthSessions, TLC

\* Calls and session ids are interchangeable, and no property checked under
\* this symmetry is a liveness property.
MCSymmetry == Permutations(Calls) \cup Permutations(Sids)

\* What opens sessions under either policy, uses and lists them and ends them,
\* one by one and all at once.
DeviceOperations == {"login", "oauth", "logout_all", "kick", "list", "policy", "use"}

\* What renews and ends sessions, one by one and all at once.
AccountOperations == {"login", "refresh", "logout", "password"}

=============================================================================
