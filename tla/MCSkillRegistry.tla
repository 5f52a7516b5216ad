-------------------------- MODULE MCSkillRegistry ---------------------------
(***************************************************************************)
(* SkillRegistry with one skill that is added, opened, gated and removed   *)
(* in any order, or cannot be scanned, under two calls: by a member        *)
(* without and with the permission and by an administrator of skills.      *)
(***************************************************************************)
EXTENDS SkillRegistry, TLC

Caller(perms, in) == [permissions |-> perms, authenticated |-> in]

MCCallers == {Caller({}, TRUE), Caller({RequiredPermission}, TRUE), Caller({ADMIN_PERM}, TRUE)}

MCSymmetry == Permutations(Calls)

=============================================================================
