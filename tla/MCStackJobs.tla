----------------------------- MODULE MCStackJobs -----------------------------
(***************************************************************************)
(* StackJobs for TLC: requests are interchangeable.                       *)
(***************************************************************************)
EXTENDS StackJobs, TLC

Symmetry == Permutations(Jobs)

=============================================================================
