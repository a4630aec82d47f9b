------------------------------- MODULE Totals -------------------------------
(***************************************************************************)
(* Sums of natural-number functions over a finite set, written as the      *)
(* cardinality of a disjoint union of intervals.  TLC evaluates the sum,   *)
(* and TLAPS can reason about it with the library's cardinality theorems,  *)
(* which a recursive sum would not allow.                                  *)
(***************************************************************************)
EXTENDS Integers, FiniteSets

\* One element for every unit that h assigns to a member of its domain.
Units(h) == UNION {{k} \X (1 .. h[k]) : k \in DOMAIN h}

\* The sum of h[k] over the (finite) domain of h.
Total(h) == Cardinality(Units(h))

=============================================================================
