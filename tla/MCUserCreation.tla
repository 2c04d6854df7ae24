--------------------------- MODULE MCUserCreation ---------------------------
(* UserCreation for TLC: requests, keys and addresses are interchangeable.  *)
EXTENDS UserCreation, TLC

Symmetry == Permutations(Requests) \cup Permutations(Keys) \cup Permutations(Emails)
=============================================================================
