------------------------------- MODULE Escrow -------------------------------
(***************************************************************************)
(* What a funding vault promises, without votes, clocks or registries: two *)
(* accounts in one place.  The backers' pot and the builder's bond are     *)
(* separate money.  The pot pays tranches only while the project is        *)
(* committed, at most the goal; the bond goes home with the last tranche   *)
(* or after a failed raise; a forfeiture moves it into the pot; and a      *)
(* backer takes out their principal whole after a failed raise and at      *)
(* least their truncated share after a forfeiture, the last one all that   *)
(* is left.  Money never moves to the builder once backers are repaid.     *)
(***************************************************************************)
EXTENDS VaultArithmetic

CONSTANTS Backers, Goal, Bond, MaxGift

VARIABLES
  phase,    \* "collecting", "committed", "paidOut", "returning" or "forfeited"
  credit,   \* what each backer put in and has not taken back
  pot,      \* tokens held for the backers, stray transfers included
  bond,     \* tokens held for the builder
  paid      \* tranches the builder received

vars == <<phase, credit, pot, bond, paid>>

Init ==
  /\ phase = "collecting"
  /\ credit = [b \in Backers |-> 0]
  /\ pot = 0
  /\ bond = Bond
  /\ paid = 0

Deposit(b) == \E amount \in 1 .. Goal :
  /\ phase = "collecting"
  /\ credit' = [credit EXCEPT ![b] = @ + amount]
  /\ pot' = pot + amount
  /\ phase' = IF Total(credit', Backers) = Goal THEN "committed" ELSE "collecting"
  /\ Total(credit', Backers) <= Goal
  /\ UNCHANGED <<bond, paid>>

Gift == \E amount \in 1 .. MaxGift :
  pot' = pot + amount /\ UNCHANGED <<phase, credit, bond, paid>>

PayTranche == \E amount \in 1 .. Goal :
  /\ phase = "committed"
  /\ paid' = paid + amount /\ paid' <= Goal
  /\ pot' = pot - amount /\ pot' >= Goal - paid'
  /\ IF paid' = Goal
     THEN phase' = "paidOut" /\ bond' = 0
     ELSE UNCHANGED <<phase, bond>>
  /\ UNCHANGED credit

FailRaise ==
  /\ phase = "collecting"
  /\ phase' = "returning"
  /\ UNCHANGED <<credit, pot, bond, paid>>

Forfeit ==
  /\ phase = "committed"
  /\ phase' = "forfeited"
  /\ pot' = pot + bond
  /\ bond' = 0
  /\ UNCHANGED <<credit, paid>>

ReturnBond ==
  /\ phase = "returning"
  /\ bond' = 0
  /\ UNCHANGED <<phase, credit, pot, paid>>

TakeBackWhole(b) ==
  /\ phase = "returning"
  /\ credit[b] > 0
  /\ credit' = [credit EXCEPT ![b] = 0]
  /\ pot' = pot - credit[b]
  /\ pot' >= 0
  /\ UNCHANGED <<phase, bond, paid>>

TakeBackShare(b) ==
  LET share == (credit[b] * (Goal - paid)) \div Goal + (credit[b] * Bond) \div Goal
      last  == \A other \in Backers \ {b} : credit[other] = 0
  IN  /\ phase = "forfeited"
      /\ credit[b] > 0
      /\ pot >= share
      /\ credit' = [credit EXCEPT ![b] = 0]
      /\ pot' = IF last THEN 0 ELSE pot - share
      /\ UNCHANGED <<phase, bond, paid>>

Next ==
  \/ \E b \in Backers : Deposit(b) \/ TakeBackWhole(b) \/ TakeBackShare(b)
  \/ Gift \/ PayTranche \/ FailRaise \/ Forfeit \/ ReturnBond

Spec == Init /\ [][Next]_vars

=============================================================================
