------------------------- MODULE MCProviderRegistry -------------------------
(***************************************************************************)
(* ProviderRegistry on small instances for TLC.                            *)
(***************************************************************************)
EXTENDS ProviderRegistry

=============================================================================
