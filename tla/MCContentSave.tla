---------------------------- MODULE MCContentSave ----------------------------
(***************************************************************************)
(* Instances of ContentSave for TLC.                                       *)
(***************************************************************************)
EXTENDS ContentSave, TLC

Symmetry == Permutations(Drafts) \cup Permutations(Workers)

=============================================================================
