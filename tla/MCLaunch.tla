------------------------------ MODULE MCLaunch ------------------------------
(***************************************************************************)
(* Launch for TLC; the constants are in the configurations.                *)
(***************************************************************************)
EXTENDS Launch, TLC

Symmetry ==
  Permutations(Pages) \cup Permutations(Wallets) \cup Permutations(Cids) \cup Permutations(Launches)

=============================================================================
