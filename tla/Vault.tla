------------------------------- MODULE Vault -------------------------------
(***************************************************************************)
(* One funding vault (contracts/blkfndr-vault), from the moment the        *)
(* factory's transaction has initialised it.  Every action is one contract *)
(* call that succeeded: a call that panics reverts all it wrote, the       *)
(* pending lifecycle transition of sync_state included, so a rejected call *)
(* is an action that is not enabled.  The calls of different wallets come  *)
(* in any order, the ledger clock moves between any two of them, tokens    *)
(* may be sent to the vault by anyone, and the attestation registry's      *)
(* admin may stop trusting the factory at any time.                        *)
(***************************************************************************)
EXTENDS VaultArithmetic

CONSTANTS
  Contributors,     \* wallets that may back the project
  Amounts,          \* sizes of a contribution
  Goal,             \* ProjectInfo.goal
  Deadline,         \* ProjectInfo.deadline
  Bond,             \* ProjectInfo.bond_amount
  MinContribution,  \* ProjectInfo.min_contribution
  VotingWindow,     \* ProjectInfo.voting_window_secs
  StallWindow,      \* BUILDER_STALL_WINDOW
  NumMilestones,    \* ProjectInfo.milestones.len()
  Tranche,          \* the amount of each milestone
  MaxTime,          \* bound: the clock stops here
  MaxDonations      \* bound: how often a token is sent to the vault directly

MAX_MILESTONES == 20
Milestones     == 1 .. NumMilestones
Genesis        == 1   \* the ledger time of initialize; 0 stands for "never"

\* What initialize accepts.  Milestones are named by their position: ids are
\* only compared with each other and initialize makes them unique.
ASSUME ConfigAccepted ==
  /\ IsFiniteSet(Contributors)
  /\ Amounts \subseteq Int
  /\ Goal \in Nat \ {0}
  /\ Bond \in Nat
  /\ MinContribution \in Nat \ {0}
  /\ VotingWindow \in Nat \ {0}
  /\ StallWindow \in Nat \ {0}
  /\ NumMilestones \in 1 .. MAX_MILESTONES
  /\ Tranche \in [Milestones -> Nat \ {0}]
  /\ Total(Tranche, Milestones) = Goal
  /\ Deadline \in Nat /\ Deadline > Genesis
  /\ MaxTime \in Nat
  /\ MaxDonations \in Nat

VaultStates == {"Raising", "Funded", "Active", "Failed", "Refunding", "Completed"}
Outcomes    == {"Completed", "FailedWithForfeiture", "FailedToFund"}
NoRecord    == [outcome |-> "none", approved |-> 0]

VARIABLES
  (* the vault's storage *)
  state,             \* DataKey::State
  balance,           \* DataKey::ContributorBalance, 0 when there is no entry
  tracked,           \* DataKey::Largest
  contributorCount,  \* DataKey::ContributorCount
  votes,             \* DataKey::Vote: who has approved each milestone
  approvals,         \* DataKey::Approvals
  approvedStake,     \* DataKey::ApprovedStake
  lastActivity,      \* DataKey::LastActivity, 0 when there is no entry
  raised,            \* ProjectInfo.raised_amount
  unclaimed,         \* ProjectInfo.unclaimed_contributions
  releasedTotal,     \* ProjectInfo.released_total
  bondReturned,      \* ProjectInfo.bond_returned
  attested,          \* ProjectInfo.attested
  released,          \* the milestones marked released
  failed,            \* the milestones marked failed
  opensAt,           \* Milestone.vote_opens_at, 0 until the vote opens
  approvedWeight,    \* Milestone.approved_weight
  (* the ledger around it *)
  now,               \* the ledger timestamp
  tokens,            \* the vault's balance in the token contract
  trusted,           \* the attestation registry still trusts the factory
  record,            \* what the registry holds about this vault
  (* history, read by properties only *)
  contributed,       \* what each wallet put in
  refunded,          \* what each wallet was paid back
  builderPaid,       \* what the builder was paid, tranches and bond
  donated            \* tokens sent to the vault outside any entrypoint

ballots == <<votes, approvals, approvedStake, opensAt, approvedWeight>>
pledges == <<balance, tracked, contributorCount, raised, contributed>>
ledger  == <<now, tokens, trusted, donated>>
vars    == <<state, lastActivity, unclaimed, releasedTotal, bondReturned, attested, record,
             released, failed, refunded, builderPaid, ballots, pledges, ledger>>

Init ==
  /\ state = "Raising"
  /\ balance = [c \in Contributors |-> 0]
  /\ tracked = [c \in {} |-> 0]
  /\ contributorCount = 0
  /\ votes = [m \in Milestones |-> {}]
  /\ approvals = [m \in Milestones |-> 0]
  /\ approvedStake = [m \in Milestones |-> 0]
  /\ lastActivity = 0
  /\ raised = 0 /\ unclaimed = 0 /\ releasedTotal = 0
  /\ bondReturned = FALSE
  /\ attested = FALSE
  /\ released = {} /\ failed = {}
  /\ opensAt = [m \in Milestones |-> 0]
  /\ approvedWeight = [m \in Milestones |-> 0]
  /\ now = Genesis
  /\ tokens = Bond
  /\ trusted = TRUE
  /\ record = NoRecord
  /\ contributed = [c \in Contributors |-> 0]
  /\ refunded = [c \in Contributors |-> 0]
  /\ builderPaid = 0
  /\ donated = 0

-----------------------------------------------------------------------------
(***************************************************************************)
(* Lifecycle helpers                                                       *)
(***************************************************************************)

\* The state a call finds, after the transition the clock has made due.
EffectiveState ==
  IF state # "Raising" \/ now < Deadline
  THEN state
  ELSE IF raised >= Goal THEN "Funded" ELSE "Failed"

SyncedActivity ==
  IF state # EffectiveState /\ EffectiveState = "Funded" THEN now ELSE lastActivity

\* The transition is stored by every call that does not store a later one.
SyncState ==
  /\ state' = EffectiveState
  /\ lastActivity' = SyncedActivity

Paying == EffectiveState \in {"Funded", "Active"}

\* The record counts the milestones released before this call only.
WriteStaleAttestation(outcome, releasedNow) ==
  /\ attested \/ trusted
  /\ attested' = TRUE
  /\ record' = IF attested THEN record
               ELSE [outcome |-> outcome, approved |-> Cardinality(released)]

\* The registry refuses a record from a factory it no longer trusts, and the
\* refusal reverts the call; once written, nothing is sent again.
WriteAttestation(outcome, releasedNow) ==
  /\ attested \/ trusted
  /\ attested' = TRUE
  /\ record' = IF attested THEN record
               ELSE [outcome |-> outcome, approved |-> Cardinality(releasedNow)]

-----------------------------------------------------------------------------
(***************************************************************************)
(* The raise                                                               *)
(***************************************************************************)

\* The guard of contribute without the ceiling at the goal.
AcceptsPastGoal(amount) ==
  /\ EffectiveState = "Raising"
  /\ now < Deadline
  /\ amount >= MinContribution
  /\ raised < Goal

Accepts(amount) ==
  /\ EffectiveState = "Raising"
  /\ now < Deadline
  /\ amount >= MinContribution
  /\ raised + amount <= Goal

Contribute(c, amount) ==
  /\ Accepts(amount)
  /\ balance' = [balance EXCEPT ![c] = @ + amount]
  /\ tracked' \in TrackLargest(tracked, c, balance'[c])
  /\ contributorCount' = contributorCount + (IF balance[c] = 0 THEN 1 ELSE 0)
  /\ raised' = raised + amount
  /\ unclaimed' = unclaimed + amount
  /\ tokens' = tokens + amount
  /\ contributed' = [contributed EXCEPT ![c] = @ + amount]
  /\ IF raised' >= Goal
     THEN state' = "Funded" /\ lastActivity' = now
     ELSE SyncState
  /\ UNCHANGED <<releasedTotal, bondReturned, attested, record, released, failed,
                 refunded, builderPaid, ballots, now, trusted, donated>>

Settle ==
  /\ SyncState
  /\ IF EffectiveState = "Failed"
     THEN WriteAttestation("FailedToFund", released)
     ELSE UNCHANGED <<attested, record>>
  /\ UNCHANGED <<unclaimed, releasedTotal, bondReturned, released, failed,
                 refunded, builderPaid, ballots, pledges, ledger>>

\* The guard of return_bond without the check that it was returned already.
BondDueAgain == EffectiveState = "Failed" /\ Bond # 0

BondDue == EffectiveState = "Failed" /\ ~bondReturned /\ Bond # 0

ReturnBond ==
  /\ BondDue
  /\ tokens >= Bond
  /\ SyncState
  /\ bondReturned' = TRUE
  /\ WriteAttestation("FailedToFund", released)
  /\ tokens' = tokens - Bond
  /\ builderPaid' = builderPaid + Bond
  /\ UNCHANGED <<unclaimed, releasedTotal, released, failed,
                 refunded, ballots, pledges, now, trusted, donated>>

-----------------------------------------------------------------------------
(***************************************************************************)
(* Milestone votes                                                         *)
(***************************************************************************)

Undecided(m) == m \notin released /\ m \notin failed
Opened(m)    == Undecided(m) /\ opensAt[m] # 0
Elapsed(m)   == now >= opensAt[m] + VotingWindow

CarriedOnWeightAlone(m) == ThresholdMet(approvedWeight[m], TotalWeight(tracked, raised))

Carried(m) ==
  /\ ThresholdMet(approvedWeight[m], TotalWeight(tracked, raised))
  /\ approvals[m] >= RequiredWallets(contributorCount)
  /\ StakeMajority(approvedStake[m], raised)

\* Only the builder, and no call takes an opened vote back.
OpenMilestoneVote(m) ==
  /\ Paying
  /\ Undecided(m)
  /\ opensAt[m] = 0
  /\ SyncState
  /\ opensAt' = [opensAt EXCEPT ![m] = now]
  /\ UNCHANGED <<unclaimed, releasedTotal, bondReturned, attested, record, released, failed, refunded,
                 builderPaid, votes, approvals, approvedStake, approvedWeight, pledges, ledger>>

\* The guard of approve_milestone without AlreadyVoted.
MayApproveAgain(c, m) ==
  /\ Paying
  /\ Opened(m)
  /\ ~Elapsed(m)
  /\ balance[c] > 0

MayApprove(c, m) ==
  /\ Paying
  /\ Opened(m)
  /\ ~Elapsed(m)
  /\ balance[c] > 0
  /\ c \notin votes[m]

ApproveMilestone(c, m) ==
  /\ MayApprove(c, m)
  /\ SyncState
  /\ votes' = [votes EXCEPT ![m] = @ \cup {c}]
  /\ approvedWeight' = [approvedWeight EXCEPT ![m] = @ + EffectiveWeight(balance[c], raised)]
  /\ approvals' = [approvals EXCEPT ![m] = @ + 1]
  /\ approvedStake' = [approvedStake EXCEPT ![m] = @ + balance[c]]
  /\ UNCHANGED <<unclaimed, releasedTotal, bondReturned, attested, record, released, failed, refunded,
                 builderPaid, opensAt, pledges, ledger>>

ReleaseMilestone(m) ==
  LET allReleased == released \cup {m} = Milestones
      paid        == Tranche[m] + (IF allReleased THEN Bond ELSE 0)
  IN  /\ Paying
      /\ Opened(m)
      /\ Carried(m)
      /\ tokens >= paid
      /\ released' = released \cup {m}
      /\ releasedTotal' = releasedTotal + Tranche[m]
      /\ state' = IF allReleased THEN "Completed" ELSE "Active"
      /\ lastActivity' = now
      /\ IF allReleased
         THEN bondReturned' = TRUE /\ WriteAttestation("Completed", released')
         ELSE UNCHANGED <<bondReturned, attested, record>>
      /\ tokens' = tokens - paid
      /\ builderPaid' = builderPaid + paid
      /\ UNCHANGED <<unclaimed, failed, refunded, ballots, pledges, now, trusted, donated>>

SettleLapsedMilestone(m) ==
  /\ Paying
  /\ Opened(m)
  /\ Elapsed(m)
  /\ ~Carried(m)
  /\ failed' = failed \cup {m}
  /\ WriteAttestation("FailedWithForfeiture", released)
  /\ state' = "Refunding"
  /\ lastActivity' = SyncedActivity
  /\ UNCHANGED <<unclaimed, releasedTotal, bondReturned, released, refunded,
                 builderPaid, ballots, pledges, ledger>>

\* A stall test that takes any vote ever opened for activity.
StalledIfNoVoteEver ==
  /\ SyncedActivity # 0
  /\ now >= SyncedActivity + StallWindow
  /\ \A m \in Milestones : opensAt[m] = 0

\* A stall test that forgets votes that have carried and wait for release.
StalledDespiteCarried ==
  /\ SyncedActivity # 0
  /\ now >= SyncedActivity + StallWindow
  /\ \A m \in Milestones : Opened(m) => Elapsed(m)

Stalled ==
  /\ SyncedActivity # 0
  /\ now >= SyncedActivity + StallWindow
  /\ \A m \in Milestones : Opened(m) => Elapsed(m) /\ ~Carried(m)

FirstUndecided == {m \in Milestones : Undecided(m) /\ \A k \in 1 .. m - 1 : ~Undecided(k)}

SettleStalled ==
  /\ Paying
  /\ Stalled
  /\ failed' = failed \cup FirstUndecided
  /\ state' = "Refunding"
  /\ lastActivity' = SyncedActivity
  /\ WriteAttestation("FailedWithForfeiture", released)
  /\ UNCHANGED <<unclaimed, releasedTotal, bondReturned, released, refunded,
                 builderPaid, ballots, pledges, ledger>>

-----------------------------------------------------------------------------
(***************************************************************************)
(* Refunds                                                                 *)
(***************************************************************************)

\* A share taken of the contributions still unclaimed, not of the raise.
ShareOfUnclaimed(contribution, pot) == (contribution * pot) \div unclaimed

\* A pro-rata share of an amount, truncated.
ShareOf(contribution, pot) == (contribution * pot) \div raised

RefundDue(c) ==
  IF EffectiveState = "Failed"
  THEN balance[c]
  ELSE ShareOf(balance[c], raised - releasedTotal) + ShareOf(balance[c], Bond)

\* No sweep: each claimant takes a truncated share, the last one too.
NeverSweeps(c) == FALSE

\* A sweep by the last claimant whichever way the project ended.
SweepsAlways(c) == unclaimed = balance[c]

\* Only in Refunding: in Failed the vault may still hold the builder's bond.
Sweeps(c) == unclaimed = balance[c] /\ EffectiveState = "Refunding"

ClaimRefund(c) ==
  LET paid == IF Sweeps(c) /\ tokens > RefundDue(c) THEN tokens ELSE RefundDue(c)
  IN  /\ EffectiveState \in {"Failed", "Refunding"}
      /\ balance[c] > 0
      /\ tokens >= paid
      /\ SyncState
      /\ balance' = [balance EXCEPT ![c] = 0]
      /\ unclaimed' = unclaimed - balance[c]
      /\ bondReturned' = IF Sweeps(c) THEN TRUE ELSE bondReturned
      /\ tokens' = tokens - paid
      /\ refunded' = [refunded EXCEPT ![c] = @ + paid]
      /\ UNCHANGED <<releasedTotal, attested, record, released, failed, builderPaid, ballots,
                     tracked, contributorCount, raised, contributed, now, trusted, donated>>

-----------------------------------------------------------------------------
(***************************************************************************)
(* The ledger around the vault                                             *)
(***************************************************************************)

others == <<state, lastActivity, unclaimed, releasedTotal, bondReturned, attested, record,
            released, failed, refunded, builderPaid, ballots, pledges>>

\* Consecutive ledgers close at later times.
Tick ==
  /\ now < MaxTime
  /\ now' = now + 1
  /\ UNCHANGED <<others, tokens, trusted, donated>>

\* A transfer to the vault's address that no entrypoint sees.
Donate ==
  /\ donated < MaxDonations
  /\ donated' = donated + 1
  /\ tokens' = tokens + 1
  /\ UNCHANGED <<others, now, trusted>>

\* The registry's disable_factory; a disabled factory may be added back.
DisableFactory == trusted /\ trusted' = FALSE /\ UNCHANGED <<others, now, tokens, donated>>
AddFactory     == ~trusted /\ trusted' = TRUE /\ UNCHANGED <<others, now, tokens, donated>>

-----------------------------------------------------------------------------
ContributorCall == \E c \in Contributors :
  \/ \E amount \in Amounts : Contribute(c, amount)
  \/ \E m \in Milestones : ApproveMilestone(c, m)
  \/ ClaimRefund(c)

BuilderCall == \E m \in Milestones : OpenMilestoneVote(m)

\* The calls that need nobody's authorisation.
AnyonesCall ==
  \/ Settle
  \/ ReturnBond
  \/ SettleStalled
  \/ \E m \in Milestones : ReleaseMilestone(m) \/ SettleLapsedMilestone(m)

Environment == Tick \/ Donate \/ DisableFactory \/ AddFactory

Next == ContributorCall \/ BuilderCall \/ AnyonesCall \/ Environment

Spec == Init /\ [][Next]_vars

-----------------------------------------------------------------------------
(***************************************************************************)
(* Properties                                                              *)
(***************************************************************************)

Backers == {c \in Contributors : contributed[c] > 0}

\* Every variable has its type; amounts never go below zero, the raise never
\* passes the goal and no more than four balances are tracked.
TypeOK ==
  /\ state \in VaultStates
  /\ balance \in [Contributors -> Nat] /\ contributed \in [Contributors -> Nat]
  /\ DOMAIN tracked \subseteq Contributors /\ tracked \in [DOMAIN tracked -> Nat]
  /\ Cardinality(DOMAIN tracked) <= LARGEST_TRACKED
  /\ contributorCount \in Nat
  /\ votes \in [Milestones -> SUBSET Contributors]
  /\ approvals \in [Milestones -> Nat]
  /\ approvedStake \in [Milestones -> Nat] /\ approvedWeight \in [Milestones -> Nat]
  /\ opensAt \in [Milestones -> Nat]
  /\ lastActivity \in Nat /\ now \in Nat
  /\ raised \in 0 .. Goal /\ unclaimed \in Nat /\ releasedTotal \in Nat
  /\ bondReturned \in BOOLEAN /\ attested \in BOOLEAN /\ trusted \in BOOLEAN
  /\ released \subseteq Milestones /\ failed \subseteq Milestones
  /\ tokens \in Nat /\ builderPaid \in Nat /\ donated \in Nat
  /\ record \in [outcome : Outcomes \cup {"none"}, approved : 0 .. NumMilestones]
  /\ refunded \in [Contributors -> Nat]

\* The tokens the vault holds cover all it still owes: the unreleased raise and
\* the bond while the project can be paid out; every unclaimed principal, and
\* the bond until it is returned, once the raise failed; and at least the exact
\* pro-rata share of those who have not claimed once the bond is forfeited,
\* whatever the order of the claims and however each was truncated.
Solvent ==
  LET owing == Total(balance, Contributors)
  IN  /\ state \in {"Raising", "Funded", "Active"} => tokens >= raised - releasedTotal + Bond
      /\ state = "Failed" => tokens >= owing + (IF bondReturned THEN 0 ELSE Bond)
      /\ state = "Refunding" => tokens * raised >= owing * (raised - releasedTotal + Bond)

\* What a wallet got back is what its stake was worth: all of it after a failed
\* raise, its truncated pro-rata share of the rest and of the bond after a
\* forfeiture (the last claimant's sweep adds truncation dust and stray
\* transfers only), and nothing while the project is alive or completed.
FairShares == \A c \in Contributors :
  LET back == contributed[c] - balance[c]
      due  == ShareOf(back, raised - releasedTotal) + ShareOf(back, Bond)
  IN  CASE state = "Failed"    -> refunded[c] = back
        [] state = "Refunding" -> /\ refunded[c] >= due
                                  /\ refunded[c] <= due + 2 * contributorCount + donated
        [] OTHER               -> refunded[c] = 0 /\ back = 0

\* When the last backer of a forfeited project claims, nothing is left behind
\* that no entrypoint could ever pay out.
NoDustStranded ==
  [][state' = "Refunding" /\ Total(balance, Contributors) > 0 /\ Total(balance', Contributors) = 0
     => tokens' = 0]_vars

\* The bond goes back to the builder once, with the last tranche or after a
\* failed raise, or to the backers, never both ways and never twice.
BondGoesOneWay ==
  /\ builderPaid = releasedTotal + (IF bondReturned /\ state # "Refunding" THEN Bond ELSE 0)
  /\ state = "Completed" => bondReturned
  /\ bondReturned => state \in {"Failed", "Refunding", "Completed"}

\* The registry's record, once there, tells what became of the project and how
\* many milestones were approved, and a project that paid out or forfeited
\* always has one.
RecordMatchesFate ==
  /\ attested <=> record # NoRecord
  /\ state = "Completed" => record = [outcome |-> "Completed", approved |-> NumMilestones]
  /\ state = "Refunding" =>
       record = [outcome |-> "FailedWithForfeiture", approved |-> Cardinality(released)]
  /\ record.outcome = "FailedToFund" => state = "Failed" /\ raised < Goal

\* The three tallies kept with each vote are what its voters add up to, counted
\* from what they put in: no wallet counts twice and no weight or stake shifts
\* between the first vote and the last, however the calls interleave.
VotesCounted == \A m \in Milestones :
  /\ approvals[m] = Cardinality(votes[m])
  /\ approvedStake[m] = Total(contributed, votes[m])
  /\ approvedWeight[m] =
       Total([c \in Contributors |-> EffectiveWeight(contributed[c], raised)], votes[m])

\* The capped total computed from the four largest balances is the sum of every
\* backer's capped weight, in whatever order and sizes the contributions came.
CappedTotalExact ==
  TotalWeight(tracked, raised) =
    Total([c \in Contributors |-> EffectiveWeight(contributed[c], raised)], Contributors)

\* No tranche leaves the vault without a mandate: three distinct backers, or all
\* of them, who put in more than half the raise and hold more than half of
\* everybody's capped weight, recounted from the votes themselves.
ReleaseMandate == \A m \in released :
  LET weight(S) == Total([c \in Contributors |-> EffectiveWeight(contributed[c], raised)], S)
  IN  /\ votes[m] \subseteq Backers
      /\ Cardinality(votes[m]) >= 3 \/ votes[m] = Backers
      /\ 2 * Total(contributed, votes[m]) > raised
      /\ 2 * weight(votes[m]) > weight(Backers)

\* A vote in which every backer approves can always be executed, however
\* concentrated the raise and however few the backers.
UnanimityCarries == \A m \in Milestones :
  Opened(m) /\ Paying /\ votes[m] = Backers => Carried(m)

\* The weight get_milestone_vote quotes as required is the smallest one that
\* carries the weight test.
QuotedWeightExact ==
  LET total == TotalWeight(tracked, raised)
  IN  raised > 0 => /\ ThresholdMet(RequiredWeight(total), total)
                    /\ ~ThresholdMet(RequiredWeight(total) - 1, total)

\* A vote that has carried is forfeited only when another milestone's vote has
\* lapsed: never for the builder's inactivity, and never by its own window.
OnlyALapseForfeitsACarriedVote ==
  [][(state # "Refunding" /\ state' = "Refunding" /\ \E m \in Milestones : Opened(m) /\ Carried(m))
     => \A k \in failed' : opensAt[k] # 0 /\ Elapsed(k) /\ ~Carried(k)]_vars

\* A milestone marked failed and a project that refunds go together, and all the
\* milestones are released exactly when the project is completed.
OneFate ==
  /\ failed # {} <=> state = "Refunding"
  /\ Cardinality(failed) <= 1
  /\ failed \cap released = {}
  /\ released = Milestones <=> state = "Completed"
  /\ releasedTotal = Total(Tranche, released)

\* No call that pays what is due is turned down for want of tokens: not the bond
\* after a missed goal, not the tranche of any open milestone (with the bond, when
\* it is the last), not the refund of any backer who has not claimed.
DuesCovered ==
  /\ BondDue => tokens >= Bond
  /\ Paying => \A m \in Milestones : Opened(m) =>
       tokens >= Tranche[m] + (IF released \cup {m} = Milestones THEN Bond ELSE 0)
  /\ EffectiveState \in {"Failed", "Refunding"} =>
       \A c \in Contributors : tokens >= RefundDue(c)

\* Every token is accounted for: what the vault holds, the builder was paid and
\* the backers took back is what they put in, the bond and the stray transfers.
TokensConserved ==
  tokens + builderPaid + Total(refunded, Contributors) =
    Bond + Total(contributed, Contributors) + donated

Successors(s) ==
  CASE s = "Raising" -> {"Funded", "Failed"}
    [] s = "Funded"  -> {"Active", "Completed", "Refunding"}
    [] s = "Active"  -> {"Completed", "Refunding"}
    [] OTHER         -> {}

\* A project only moves forward, by its clock as by its calls, and what became of
\* it is final: not the state, not the record, not a milestone's verdict changes
\* afterwards, and no opened vote is opened again.
FateIsFinal ==
  [][/\ EffectiveState' \in {EffectiveState} \cup Successors(EffectiveState)
     /\ attested => record' = record /\ attested'
     /\ released \subseteq released' /\ failed \subseteq failed'
     /\ EffectiveState \in {"Failed", "Refunding", "Completed"} => UNCHANGED <<released, failed>>
     /\ \A m \in Milestones : opensAt[m] # 0 => opensAt'[m] = opensAt[m]]_vars

\* A vote that has carried stays carried while the project can be paid: weights,
\* stakes and the number of wallets are settled when the raise is complete.
CarriedStaysCarried ==
  [][\A m \in Milestones : Paying /\ Carried(m) => Carried(m)']_vars

\* While its vote is the only one open, a carried milestone cannot be forfeited.
LoneCarriedVoteIsSafe ==
  [][\A m \in Milestones :
       Paying /\ Carried(m) /\ (\A k \in Milestones : Opened(k) <=> k = m)
       => state' # "Refunding"]_vars

\* A funded project is never wedged: once the builder has been silent for the
\* stall window and no vote is still running, either a carried milestone can be
\* released, and the tokens for it are there, or settle_stalled's test is met
\* (its record still needs a registry that trusts the factory).
NeverWedged ==
  Paying /\ now >= SyncedActivity + StallWindow /\ (\A m \in Milestones : Opened(m) => Elapsed(m)) =>
    \/ Stalled
    \/ \E m \in Milestones :
         /\ Opened(m) /\ Carried(m)
         /\ tokens >= Tranche[m] + (IF released \cup {m} = Milestones THEN Bond ELSE 0)

\* What happens to a milestone happens in order: no vote opens before the raise
\* is complete or at a time that has not come, nobody approves before the vote
\* is open, and no milestone is released without one.
VotesAreInOrder ==
  /\ \A m \in Milestones : opensAt[m] <= now /\ (opensAt[m] # 0 => raised >= Goal)
  /\ \A m \in released : opensAt[m] # 0
  /\ \A m \in Milestones : votes[m] # {} => opensAt[m] # 0

-----------------------------------------------------------------------------
(***************************************************************************)
(* What the documentation says and the contracts do not keep               *)
(***************************************************************************)

\* release_milestone's comment: once contributors have carried the vote, nobody
\* can withhold execution.
CarriedNeverForfeited ==
  [][\A m \in Milestones : Paying /\ Opened(m) /\ Carried(m) => state' # "Refunding"]_vars

=============================================================================
