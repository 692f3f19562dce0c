-------------------------- MODULE MCClientHandshakes --------------------------
(***************************************************************************)
(* ClientHandshakes for TLC.  Counters of width three wrap with two        *)
(* teleports under way.  Two actions, which no bound on packets holds      *)
(* back, can come in one tick, and one acknowledgement answers both.       *)
(***************************************************************************)
EXTENDS ClientHandshakes, TLC

CONSTANTS p1, p2

Symmetry == Permutations(Places)

=============================================================================
