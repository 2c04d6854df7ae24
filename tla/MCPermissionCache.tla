-------------------------- MODULE MCPermissionCache --------------------------
(* Model values for PermissionCache: which request is whose matters.        *)
EXTENDS PermissionCache, TLC

Symmetry == Permutations(Processes) \cup Permutations(Subjects) \cup Permutations(Requests)
=============================================================================
