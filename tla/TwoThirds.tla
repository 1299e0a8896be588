----------------------------- MODULE TwoThirds -----------------------------
(***************************************************************************)
(* The rule both owner-governed contracts share: two thirds of the owners, *)
(* by headcount, rounded up.                                               *)
(***************************************************************************)
EXTENDS Integers

APPROVAL_NUMERATOR   == 2
APPROVAL_DENOMINATOR == 3

Carried(approvals, total) ==
  approvals * APPROVAL_DENOMINATOR >= total * APPROVAL_NUMERATOR

=============================================================================
