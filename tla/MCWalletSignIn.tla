---------------------------- MODULE MCWalletSignIn ----------------------------
(***************************************************************************)
(* WalletSignIn on small instances for TLC.                                *)
(***************************************************************************)
EXTENDS WalletSignIn
=============================================================================
