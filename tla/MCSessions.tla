----------------------------- MODULE MCSessions -----------------------------
(* Sessions of one browser, for TLC. *)
EXTENDS Sessions
=============================================================================
