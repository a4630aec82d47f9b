------------------------- MODULE MCDeploymentEscrow -------------------------
(***************************************************************************)
(* DeploymentEscrow on small instances for TLC.                            *)
(***************************************************************************)
EXTENDS DeploymentEscrow

=============================================================================
