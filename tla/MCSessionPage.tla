---------------------------- MODULE MCSessionPage ----------------------------
(***************************************************************************)
(* SessionPage on small instances for TLC.                                 *)
(***************************************************************************)
EXTENDS SessionPage
=============================================================================
