----------------------------- MODULE MCWebScan -----------------------------
(* The status page, for TLC. *)
EXTENDS WebScan, TLC
=============================================================================
