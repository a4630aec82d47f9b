---------------------------- MODULE MCMarketplace ----------------------------
(***************************************************************************)
(* Marketplace on small instances for TLC.                                 *)
(***************************************************************************)
EXTENDS Marketplace

=============================================================================
