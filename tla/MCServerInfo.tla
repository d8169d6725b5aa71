---------------------------- MODULE MCServerInfo ----------------------------
(***************************************************************************)
(* ServerInfo for TLC.                                                      *)
(***************************************************************************)
EXTENDS ServerInfo, TLC

=============================================================================
