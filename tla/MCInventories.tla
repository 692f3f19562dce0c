---------------------------- MODULE MCInventories ----------------------------
(* Inventories, for TLC.                                                   *)
EXTENDS InventoriesInvariants, TLC

Symmetry == Permutations(Clients) \cup Permutations(Kinds)

=============================================================================
