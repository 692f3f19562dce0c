----------------------------- MODULE MCEntityViews -----------------------------
(***************************************************************************)
(* EntityViews for TLC.  Three chunks with a view radius of one: views     *)
(* overlap, and a move within a chunk, to the next and to the one after it *)
(* are all possible, the first sent as a delta.  With a MaxSurfaceArea of  *)
(* two, messages of neighbouring chunks fit one leaf and those of the      *)
(* outer two do not; with the code's 32 all fit.                           *)
(***************************************************************************)
EXTENDS EntityViews, TLC

CONSTANTS player, mob, l1, l2

AvoidedButPanic == Pairs \ {"layer and despawn"}
AvoidedButShow == Pairs \ {"show and despawn"}
AvoidedButMove == Pairs \ {"layer and chunk"}

Symmetry == Permutations(Layers)

=============================================================================
