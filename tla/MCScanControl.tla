---------------------------- MODULE MCScanControl ----------------------------
(***************************************************************************)
(* ScanControl for TLC: scan requests are interchangeable.                 *)
(***************************************************************************)
EXTENDS ScanControl, TLC

Symmetry == Permutations(Manual)

=============================================================================
