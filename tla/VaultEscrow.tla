---------------------------- MODULE VaultEscrow ----------------------------
(***************************************************************************)
(* The vault implements the escrow it is advertised as.                    *)
(***************************************************************************)
EXTENDS Vault

\* The raise is over when its deadline passes, not when a call records it.
Phase ==
  CASE EffectiveState = "Raising"              -> "collecting"
    [] EffectiveState \in {"Funded", "Active"} -> "committed"
    [] EffectiveState = "Failed"               -> "returning"
    [] EffectiveState = "Refunding"            -> "forfeited"
    [] EffectiveState = "Completed"            -> "paidOut"

\* The part of the vault's tokens that is still the builder's.
BondHeld == IF bondReturned \/ state = "Refunding" THEN 0 ELSE Bond

Promise == INSTANCE Escrow WITH
  Backers <- Contributors, MaxGift <- MaxDonations,
  phase <- Phase, credit <- balance, pot <- tokens - BondHeld,
  bond <- BondHeld, paid <- releasedTotal

\* Every call keeps the backers' pot and the builder's bond apart and moves
\* money only as the escrow may, whichever wallets call in whichever order.
ImplementsEscrow == Promise!Spec

=============================================================================
