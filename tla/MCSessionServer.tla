--------------------------- MODULE MCSessionServer ---------------------------
(***************************************************************************)
(* SessionServer on small instances for TLC.                               *)
(***************************************************************************)
EXTENDS SessionServer
=============================================================================
