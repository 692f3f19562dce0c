--------------------------- MODULE MCPlayConnection ---------------------------
(***************************************************************************)
(* PlayConnection for TLC.  With permits for two or three, packets of one  *)
(* and more make queues of as many packets, packets that wait for permits  *)
(* and, where a cost is above the limit, one that never fits.              *)
(***************************************************************************)
EXTENDS PlayConnection, TLC

CONSTANTS c1, c2

Symmetry == Permutations(Clients)


=============================================================================
