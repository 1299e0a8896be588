-------------------------- MODULE TreasuryMandate --------------------------
(***************************************************************************)
(* The treasury's proposals keep the promise of Mandate.                   *)
(***************************************************************************)
EXTENDS Treasury

Promise == INSTANCE Mandate WITH
  members    <- Holders(shareholders),
  governed   <- opsFunding,
  electorate <- Holders(proposal.roster),
  yes        <- proposal.voters

\* The register and the operations funding change only by a proposal that two
\* thirds of the present shareholders approved, each of them once.
ImplementsMandate == Promise!Spec

=============================================================================
