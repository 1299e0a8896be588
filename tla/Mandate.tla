------------------------------ MODULE Mandate ------------------------------
(***************************************************************************)
(* What an owner-governed contract promises, without its storage, its      *)
(* clock and its money: what is governed, the set of owners included,      *)
(* changes only when two thirds of the owners, each counted once, approved *)
(* that change, and those asked are the owners of that moment.             *)
(***************************************************************************)
EXTENDS TwoThirds, FiniteSets

CONSTANT People

VARIABLES
  members,     \* the owners
  governed,    \* everything else a vote decides
  electorate,  \* those asked about the open proposal, {} when there is none
  yes          \* those of them who approved it

vars == <<members, governed, electorate, yes>>

Decided == Carried(Cardinality(yes), Cardinality(electorate))

Init == members \in (SUBSET People) \ {{}} /\ electorate = {} /\ yes = {}

\* A decided proposal may be replaced before anybody applies it.
Open == electorate' = members /\ yes' = {} /\ UNCHANGED <<members, governed>>

Approve(p) ==
  /\ p \in electorate \ yes
  /\ ~Decided
  /\ yes' = yes \cup {p}
  /\ UNCHANGED <<members, governed, electorate>>

Apply ==
  /\ electorate = members /\ Decided
  /\ electorate' = {} /\ yes' = {}
  /\ members' \in (SUBSET People) \ {{}}

Next == Open \/ (\E p \in People : Approve(p)) \/ Apply

Spec == Init /\ [][Next]_vars

=============================================================================
