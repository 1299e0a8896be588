------------------------------- MODULE Totals -------------------------------
(***************************************************************************)
(* Sums.  The base units a function of naturals credits to the members of  *)
(* S, one element per unit; a sum is the number of units.  (Counted rather *)
(* than folded, so that it can be reasoned about without induction.)       *)
(***************************************************************************)
EXTENDS Integers, FiniteSets

Units(f, S) == UNION {{x} \X (1 .. f[x]) : x \in S}
Total(f, S) == Cardinality(Units(f, S))

=============================================================================
