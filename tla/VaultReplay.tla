---------------------------- MODULE VaultReplay ----------------------------
(***************************************************************************)
(* A vault's figures rebuilt from the events it emitted                    *)
(* (src/lib/vault-replay.ts), next to the vault itself.  Every call of the *)
(* vault that succeeds emits up to three events, the one of a lifecycle    *)
(* transition it found due first; `replayed` is what the replay holds once *)
(* it has read all events so far.  The events are taken as stored: every   *)
(* one, once, in the order of the chain.                                   *)
(***************************************************************************)
EXTENDS Vault

VARIABLE replayed  \* the ReplayedVault, as a fold over the events emitted so far

(***************************************************************************)
(* The events.  Only what the replay reads of a payload is kept; Silence   *)
(* stands where a call emits fewer events.                                 *)
(***************************************************************************)
Silence         == [topic |-> "none"]
VaultFunded     == [topic |-> "VAULT/FUNDED"]
VaultFailed     == [topic |-> "VAULT/FAILED"]
VaultStalled    == [topic |-> "VAULT/STALLED"]
BondReturned    == [topic |-> "BOND/RETURNED"]
BondSlashed     == [topic |-> "BOND/SLASHED"]
VoteOpen(m, at) == [topic |-> "MILESTN/VOTEOPEN", stage |-> m, at |-> at]
Lapsed(m)       == [topic |-> "MILESTN/FAILED", stage |-> m]

Approved(m, weight, running) ==
  [topic |-> "MILESTN/APPROVE", stage |-> m, weight |-> weight, running |-> running]
Released(m, amount, total) ==
  [topic |-> "MILESTN/RELEASE", stage |-> m, amount |-> amount, running |-> total]
Contrib(c, amount, total) ==
  [topic |-> "DEPOSIT/CONTRIB", who |-> c, amount |-> amount, running |-> total]
Refund(c, amount) == [topic |-> "DEPOSIT/REFUND", who |-> c, amount |-> amount]

\* The event of sync_state, when the clock has made a transition due.
Synced ==
  IF state = EffectiveState THEN Silence
  ELSE IF EffectiveState = "Funded" THEN VaultFunded ELSE VaultFailed

-----------------------------------------------------------------------------
(***************************************************************************)
(* The replay                                                              *)
(***************************************************************************)

\* After VAULT/INIT and BOND/POSTED.
ReplayStart ==
  [state |-> "Raising", raised |-> 0, releasedTotal |-> 0, bondReturned |-> FALSE,
   unclaimed |-> 0, released |-> {}, failed |-> {},
   opensAt |-> [m \in Milestones |-> 0], approvedWeight |-> [m \in Milestones |-> 0],
   approvals |-> [m \in Milestones |-> 0], balances |-> [c \in {} |-> 0],
   consistent |-> TRUE]  \* selfCheck is empty

HeldBy(r, c) == IF c \in DOMAIN r.balances THEN r.balances[c] ELSE 0

Holding(r, c, amount) ==
  [d \in DOMAIN r.balances \cup {c} |-> IF d = c THEN amount ELSE r.balances[d]]

ReplayContrib(r, e) ==
  [r EXCEPT !.balances = Holding(r, e.who, HeldBy(r, e.who) + e.amount),
            !.raised = @ + e.amount,
            !.unclaimed = @ + e.amount,
            !.consistent = @ /\ e.running = r.raised + e.amount]

ReplayApprove(r, e) ==
  [r EXCEPT !.approvals[e.stage] = @ + 1,
            !.approvedWeight[e.stage] = @ + e.weight,
            !.consistent = @ /\ e.running = r.approvedWeight[e.stage] + e.weight]

\* The last payout hands back the deposit, with or without a BOND/RETURNED.
ReplayRelease(r, e) ==
  LET allReleased == r.released \cup {e.stage} = Milestones
  IN  [r EXCEPT !.released = @ \cup {e.stage},
                !.releasedTotal = @ + e.amount,
                !.consistent = @ /\ e.running = r.releasedTotal + e.amount,
                !.state = IF allReleased THEN "Completed" ELSE "Active",
                !.bondReturned = @ \/ allReleased]

\* VAULT/STALLED does not name the milestone given up: the first still open.
ReplayStalled(r) ==
  LET open == Milestones \ (r.released \cup r.failed)
  IN  [r EXCEPT !.failed = @ \cup {m \in open : \A k \in open : m <= k},
                !.state = "Refunding"]

\* A refund rule that waits for a BOND event the last claim does not emit.
RefundKeepsBond(r, e) ==
  [r EXCEPT !.balances = Holding(r, e.who, 0),
            !.unclaimed = @ - HeldBy(r, e.who),
            !.consistent = @ /\ (r.state = "Failed" => e.amount = HeldBy(r, e.who))]

\* The last claim after a forfeiture sweeps the bond without a BOND event.
ReplayRefund(r, e) ==
  [r EXCEPT !.balances = Holding(r, e.who, 0),
            !.unclaimed = @ - HeldBy(r, e.who),
            !.bondReturned = @ \/ (r.state = "Refunding" /\ r.unclaimed = HeldBy(r, e.who)),
            !.consistent = @ /\ (r.state = "Failed" => e.amount = HeldBy(r, e.who))]

Play(r, e) ==
  CASE e.topic = "VAULT/FUNDED"     -> [r EXCEPT !.state = "Funded"]
    [] e.topic = "VAULT/FAILED"     -> [r EXCEPT !.state = "Failed"]
    [] e.topic = "DEPOSIT/CONTRIB"  -> ReplayContrib(r, e)
    [] e.topic = "MILESTN/VOTEOPEN" -> [r EXCEPT !.opensAt[e.stage] = e.at]
    [] e.topic = "MILESTN/APPROVE"  -> ReplayApprove(r, e)
    [] e.topic = "MILESTN/RELEASE"  -> ReplayRelease(r, e)
    [] e.topic = "MILESTN/FAILED"   -> [r EXCEPT !.failed = @ \cup {e.stage}, !.state = "Refunding"]
    [] e.topic = "VAULT/STALLED"    -> ReplayStalled(r)
    [] e.topic = "BOND/RETURNED"    -> [r EXCEPT !.bondReturned = TRUE]
    [] e.topic = "DEPOSIT/REFUND"   -> ReplayRefund(r, e)
    [] OTHER                        -> r

Emit(first, second, third) ==
  replayed' = Play(Play(Play(replayed, first), second), third)

-----------------------------------------------------------------------------
(***************************************************************************)
(* The vault's calls with the events they emit                             *)
(***************************************************************************)
ReplayInit == Init /\ replayed = ReplayStart

GoalReached == IF raised' >= Goal THEN VaultFunded ELSE Silence

ContributorEmits == \E c \in Contributors :
  \/ \E amount \in Amounts :
       /\ Contribute(c, amount)
       /\ Emit(Synced, GoalReached, Contrib(c, amount, raised'))
  \/ \E m \in Milestones :
       /\ ApproveMilestone(c, m)
       /\ Emit(Synced, Approved(m, EffectiveWeight(balance[c], raised), approvedWeight'[m]), Silence)
  \/ /\ ClaimRefund(c)
     /\ Emit(Synced, Refund(c, refunded'[c] - refunded[c]), Silence)

BuilderEmits == \E m \in Milestones :
  OpenMilestoneVote(m) /\ Emit(Synced, VoteOpen(m, now), Silence)

\* The bond's own event goes out only for a bond that is not zero.
LastTranche == IF released' = Milestones /\ Bond > 0 THEN BondReturned ELSE Silence

AnyoneEmits ==
  \/ Settle /\ Emit(Synced, Silence, Silence)
  \/ ReturnBond /\ Emit(Synced, BondReturned, Silence)
  \/ SettleStalled /\ Emit(Synced, VaultStalled, BondSlashed)
  \/ \E m \in Milestones :
       \/ ReleaseMilestone(m) /\ Emit(Synced, LastTranche, Released(m, Tranche[m], releasedTotal'))
       \/ SettleLapsedMilestone(m) /\ Emit(Synced, Lapsed(m), BondSlashed)

ReplayNext ==
  \/ ContributorEmits
  \/ BuilderEmits
  \/ AnyoneEmits
  \/ Environment /\ UNCHANGED replayed

ReplaySpec == ReplayInit /\ [][ReplayNext]_<<vars, replayed>>

-----------------------------------------------------------------------------
\* get_state's reading of a raise whose deadline has passed and no call settled.
ReplayedState ==
  IF replayed.state = "Raising" /\ now >= Deadline
  THEN IF replayed.raised >= Goal THEN "Funded" ELSE "Failed"
  ELSE replayed.state

\* Every figure compareWithChain compares is the vault's own, at any time and
\* before anybody has settled a deadline, and no event contradicts the ones
\* before it: the events alone are enough to rebuild the vault.
ReplayMatchesVault ==
  /\ ReplayedState = EffectiveState
  /\ replayed.raised = raised
  /\ replayed.releasedTotal = releasedTotal
  /\ replayed.bondReturned = bondReturned
  /\ replayed.unclaimed = unclaimed
  /\ replayed.released = released /\ replayed.failed = failed
  /\ replayed.opensAt = opensAt
  /\ replayed.approvedWeight = approvedWeight /\ replayed.approvals = approvals
  /\ Cardinality(DOMAIN replayed.balances) = contributorCount
  /\ \A c \in DOMAIN replayed.balances : replayed.balances[c] = balance[c]
  /\ replayed.consistent

=============================================================================
