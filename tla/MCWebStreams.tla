---------------------------- MODULE MCWebStreams ----------------------------
(* The panels of one page, for TLC. *)
EXTENDS WebStreams, TLC

Symmetry == Permutations(Containers) \cup Permutations(Sockets) \cup Permutations(Tokens)
=============================================================================
