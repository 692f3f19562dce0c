----------------------------- MODULE MCChunkViews -----------------------------
(***************************************************************************)
(* ChunkViews for TLC.  Two positions and the views {p1}, {p1, p2} and     *)
(* {p2} make a move that only loses, only gains, and does both; one        *)
(* position and the views {} and {p1} are enough where layers change.      *)
(***************************************************************************)
EXTENDS ChunkViews, TLC

CONSTANTS c1, c2, l1, l2, p1, p2, b1, b2

SlidingViews == {{p1}, {p1, p2}, {p2}}
InOrOut == {{}, {p1}}
OnlyFirst == {p1}
Nowhere == {}

Symmetry == Permutations(Clients) \cup Permutations(Layers)

UsualCalls == AllCalls \ {"removeEntry"}
LeaveCalls == {"insert", "setBlock", "move", "switch", "join", "disconnect"}
OverwriteCalls == {"insert", "overwrite", "switch", "join"}

=============================================================================
