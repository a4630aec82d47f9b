----------------------------- MODULE MCDeployPage -----------------------------
(***************************************************************************)
(* DeployPage on small instances for TLC.                                  *)
(***************************************************************************)
EXTENDS DeployPage
=============================================================================
