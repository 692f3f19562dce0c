------------------------------ MODULE MCMessages ------------------------------
(***************************************************************************)
(* Messages for TLC, with the constants of the code.  Two groups of        *)
(* positions, 20 chunks apart, one of them below zero: the hierarchy is a  *)
(* leaf or is split, along either axis.                                    *)
(***************************************************************************)
EXTENDS Messages

Spots == <<[x |-> -10, z |-> 0], [x |-> 10, z |-> 1], [x |-> 9, z |-> -1],
           [x |-> -10, z |-> 0], [x |-> 10, z |-> 21]>>

Around == [x : {-12, -9, 8, 12}, z : {-1, 0, 22}, dist : {0, 1}] \cup {[x |-> 0, z |-> 5, dist |-> 20]}

=============================================================================
