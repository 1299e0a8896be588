------------------------------- MODULE MCKyc --------------------------------
(***************************************************************************)
(* Kyc for TLC: an earlier document and one that renews it.                *)
(***************************************************************************)
EXTENDS Kyc, TLC

CONSTANTS old, new

Symmetry == Permutations(Reviewers) \cup Permutations(Tabs) \cup Permutations(Wallets)

ExpiryDays == old :> 2 @@ new :> 3

=============================================================================
