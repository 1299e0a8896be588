------------------------------ MODULE MCVault ------------------------------
(***************************************************************************)
(* Values for the constants of Vault, and the behaviours that stop short   *)
(* of the whole system where a run is about one part of it.                *)
(***************************************************************************)
EXTENDS VaultEscrow, VaultReplay, TLC

\* Backers are interchangeable.
Symmetry == Permutations(Contributors)

TwoThirdsFirst == <<4, 2>>
OneThenRest    == <<2, Goal - 2>>
OneTranche     == <<Goal>>

=============================================================================
