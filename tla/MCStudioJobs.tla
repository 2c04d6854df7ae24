---------------------------- MODULE MCStudioJobs ----------------------------
(* StudioJobs for TLC: runs are interchangeable. *)
EXTENDS StudioJobs, TLC

Symmetry == Permutations(Runs)
=============================================================================
