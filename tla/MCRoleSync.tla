------------------------------ MODULE MCRoleSync ------------------------------
(* RoleSync for TLC. *)
EXTENDS RoleSync, TLC
=============================================================================
