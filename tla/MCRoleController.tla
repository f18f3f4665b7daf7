-------------------------- MODULE MCRoleController --------------------------
(***************************************************************************)
(* Small instances of RoleController: one policy of somebody else, and a   *)
(* service account name that validation accepts and one that it refuses.   *)
(***************************************************************************)
EXTENDS RoleController

MCNames == {"sa", ""}

=============================================================================
