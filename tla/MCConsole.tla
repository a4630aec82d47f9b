------------------------------- MODULE MCConsole -------------------------------
(***************************************************************************)
(* Console on small instances for TLC: one team has sessions, one has none.*)
(***************************************************************************)
EXTENDS Console

CONSTANTS A, B, a1, a2

SessionsOf(t) == IF t = A THEN <<a1, a2>> ELSE <<>>
=============================================================================
