------------------------- MODULE MCConnectionLifecycle -------------------------
(***************************************************************************)
(* ConnectionLifecycle for TLC.  Four connections compete for two permits, *)
(* three places and two slots of the channel: peers wait for permits,      *)
(* logins find the server full, clients wait for the channel.              *)
(***************************************************************************)
EXTENDS ConnectionLifecycle

CONSTANTS k1, k2, k3, k4

=============================================================================
