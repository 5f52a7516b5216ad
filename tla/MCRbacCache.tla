---------------------------- MODULE MCRbacCache -----------------------------
(***************************************************************************)
(* RbacCache with three requests at a time: two that fill around one that  *)
(* assigns, or two assignments around one that fills.                      *)
(***************************************************************************)
EXTENDS RbacCache

MCRoles == {"admin", "member"}
MCGrants == [r \in MCRoles |-> IF r = "admin" THEN {"rbac:assign"} ELSE {}]

=============================================================================
