----------------------------- MODULE MCWebLists -----------------------------
(* The lists of one page, for TLC: servers that come and go, the table and one other mode. *)
EXTENDS WebLists, TLC

AnyServers == SUBSET Servers
OneMenu == {{"stacks"}, {"images"}, {"networks"}, {"volumes"}, {"resources"}}
Symmetry == Permutations(Servers) \cup Permutations(Networks)
=============================================================================
