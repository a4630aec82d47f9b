--------------------------------- MODULE Absent ---------------------------------
(***************************************************************************)
(* The value that stands for one that is missing, nil or null in the code: *)
(* no row, no token, no account.  The modules of the server and of signing *)
(* in share it.                                                            *)
(***************************************************************************)
CONSTANT None
=============================================================================
