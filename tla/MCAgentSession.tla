--------------------------- MODULE MCAgentSession ---------------------------
(***************************************************************************)
(* AgentSession on small instances for TLC.                                *)
(***************************************************************************)
EXTENDS AgentSession
=============================================================================
