---------------------------- MODULE MCGatewayFeed ----------------------------
(***************************************************************************)
(* Two streams that bring the same reports: which of them is which makes   *)
(* no difference to GatewayFeed.                                           *)
(***************************************************************************)
EXTENDS GatewayFeed, TLC

StreamSymmetry == Permutations(Streams)
=============================================================================
