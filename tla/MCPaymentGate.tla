---------------------------- MODULE MCPaymentGate ----------------------------
(***************************************************************************)
(* PaymentGate on small instances for TLC.                                 *)
(***************************************************************************)
EXTENDS PaymentGate, TLC

Symmetry == Permutations(Auth) \cup Permutations(Req) \cup Permutations(Spelling)

=============================================================================
