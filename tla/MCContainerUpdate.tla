------------------------- MODULE MCContainerUpdate -------------------------
(* ContainerUpdate on one host, for TLC. *)
EXTENDS ContainerUpdate
=============================================================================
