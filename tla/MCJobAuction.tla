---------------------------- MODULE MCJobAuction ----------------------------
(***************************************************************************)
(* JobAuction on small instances for TLC.                                  *)
(***************************************************************************)
EXTENDS JobAuction

=============================================================================
