--------------------------- MODULE MCVaultKeeper ---------------------------
(***************************************************************************)
(* Values for the constants of VaultKeeper.                                *)
(***************************************************************************)
EXTENDS VaultKeeper

OneEach == [m \in Milestones |-> 1]

=============================================================================
