------------------------- MODULE OperationsMandate -------------------------
(***************************************************************************)
(* The operations vault keeps the promise of Mandate.                      *)
(***************************************************************************)
EXTENDS Operations

Promise == INSTANCE Mandate WITH
  members    <- owners,
  governed   <- <<voteWindow, paid>>,
  electorate <- proposal.owners,
  yes        <- proposal.voters

\* The owners, the voting window and what was paid out change only by a proposal
\* that two thirds of the present owners approved, each of them once.
ImplementsMandate == Promise!Spec

=============================================================================
