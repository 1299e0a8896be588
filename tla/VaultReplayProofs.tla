------------------------- MODULE VaultReplayProofs -------------------------
(***************************************************************************)
(* The events of a vault are enough to rebuild it, for every set of        *)
(* backers, goal, bond, tranches and windows the contract accepts.         *)
(***************************************************************************)
EXTENDS VaultReplay, VaultProofs

\* A reading of a vault whose every figure agrees with its events.
View(st, ra, rt, br, un, re, fa, oa, aw, ap, ba) ==
  [state |-> st, raised |-> ra, releasedTotal |-> rt, bondReturned |-> br,
   unclaimed |-> un, released |-> re, failed |-> fa, opensAt |-> oa, approvedWeight |-> aw,
   approvals |-> ap, balances |-> ba, consistent |-> TRUE]

\* The entries of those who ever put something in.
Entries == [c \in Backers |-> balance[c]]

\* The inductive invariant: the replay is the vault, its clock left aside.  A
\* raise that has run out is still "Raising" in both until a call settles it,
\* which is why the events need not say when a deadline passed.
Rebuilt ==
  replayed = View(state, raised, releasedTotal, bondReturned, unclaimed, released, failed,
                  opensAt, approvedWeight, approvals, Entries)

-----------------------------------------------------------------------------
(***************************************************************************)
(* What one event does to a reading                                        *)
(***************************************************************************)

\* The events of the lifecycle and of the bond.
LEMMA PlaySilence ==
  ASSUME NEW st, NEW ra, NEW rt, NEW br, NEW un, NEW re, NEW fa, NEW oa, NEW aw, NEW ap, NEW ba
  PROVE  Play(View(st, ra, rt, br, un, re, fa, oa, aw, ap, ba), Silence) =
           View(st, ra, rt, br, un, re, fa, oa, aw, ap, ba)
BY DEF View, Play, Silence

LEMMA PlaySlashed ==
  ASSUME NEW st, NEW ra, NEW rt, NEW br, NEW un, NEW re, NEW fa, NEW oa, NEW aw, NEW ap, NEW ba
  PROVE  Play(View(st, ra, rt, br, un, re, fa, oa, aw, ap, ba), BondSlashed) =
           View(st, ra, rt, br, un, re, fa, oa, aw, ap, ba)
BY DEF View, Play, BondSlashed

LEMMA PlayFunded ==
  ASSUME NEW st, NEW ra, NEW rt, NEW br, NEW un, NEW re, NEW fa, NEW oa, NEW aw, NEW ap, NEW ba
  PROVE  Play(View(st, ra, rt, br, un, re, fa, oa, aw, ap, ba), VaultFunded) =
           View("Funded", ra, rt, br, un, re, fa, oa, aw, ap, ba)
BY DEF View, Play, VaultFunded

LEMMA PlayFailed ==
  ASSUME NEW st, NEW ra, NEW rt, NEW br, NEW un, NEW re, NEW fa, NEW oa, NEW aw, NEW ap, NEW ba
  PROVE  Play(View(st, ra, rt, br, un, re, fa, oa, aw, ap, ba), VaultFailed) =
           View("Failed", ra, rt, br, un, re, fa, oa, aw, ap, ba)
BY DEF View, Play, VaultFailed

\* The events of the votes.
LEMMA PlayVoteOpen ==
  ASSUME NEW st, NEW ra, NEW rt, NEW br, NEW un, NEW re, NEW fa, NEW oa, NEW aw, NEW ap, NEW ba,
         NEW m, NEW at
  PROVE  Play(View(st, ra, rt, br, un, re, fa, oa, aw, ap, ba), VoteOpen(m, at)) =
           View(st, ra, rt, br, un, re, fa, [oa EXCEPT ![m] = at], aw, ap, ba)
BY DEF View, Play, VoteOpen

LEMMA PlayApproved ==
  ASSUME NEW st, NEW ra, NEW rt, NEW br, NEW un, NEW re, NEW fa, NEW oa, NEW aw, NEW ap, NEW ba,
         NEW m, NEW w
  PROVE  Play(View(st, ra, rt, br, un, re, fa, oa, aw, ap, ba), Approved(m, w, aw[m] + w)) =
           View(st, ra, rt, br, un, re, fa, oa, [aw EXCEPT ![m] = @ + w], [ap EXCEPT ![m] = @ + 1], ba)
BY DEF View, Play, ReplayApprove, Approved

\* The events that decide a milestone: the last payout hands the bond back
\* whether or not an event has said so.
LEMMA PlayLastTranche ==
  ASSUME NEW st, NEW ra, NEW rt, NEW br \in BOOLEAN, NEW un, NEW re, NEW fa, NEW oa, NEW aw, NEW ap, NEW ba,
         NEW m, NEW a, re \cup {m} = Milestones
  PROVE  Play(Play(View(st, ra, rt, br, un, re, fa, oa, aw, ap, ba), BondReturned), Released(m, a, rt + a)) =
           Play(View(st, ra, rt, br, un, re, fa, oa, aw, ap, ba), Released(m, a, rt + a))
<1> DEFINE before == View(st, ra, rt, br, un, re, fa, oa, aw, ap, ba)
           after  == View(st, ra, rt, TRUE, un, re, fa, oa, aw, ap, ba)
           paid   == Released(m, a, rt + a)
<1>1. Play(before, BondReturned) = after
  BY DEF View, Play, BondReturned
<1>2. Play(after, paid) = Play(before, paid)
  <2>1. Play(after, paid) = View("Completed", ra, rt + a, TRUE, un, re \cup {m}, fa, oa, aw, ap, ba)
    BY DEF View, Play, ReplayRelease, Released
  <2>2. Play(before, paid) = View("Completed", ra, rt + a, TRUE, un, re \cup {m}, fa, oa, aw, ap, ba)
    BY DEF View, Play, ReplayRelease, Released
  <2> HIDE DEF before, after, paid
  <2> QED
    BY <2>1, <2>2
<1> HIDE DEF before, after, paid
<1>3. Play(Play(before, BondReturned), paid) = Play(before, paid)
  BY <1>1, <1>2
<1> QED
  BY <1>3 DEF before, paid

LEMMA PlayLapsed ==
  ASSUME NEW st, NEW ra, NEW rt, NEW br, NEW un, NEW re, NEW fa, NEW oa, NEW aw, NEW ap, NEW ba,
         NEW m
  PROVE  Play(View(st, ra, rt, br, un, re, fa, oa, aw, ap, ba), Lapsed(m)) =
           View("Refunding", ra, rt, br, un, re, fa \cup {m}, oa, aw, ap, ba)
BY DEF View, Play, Lapsed

FirstOpen(re, fa) ==
  {i \in Milestones \ (re \cup fa) : \A k \in Milestones \ (re \cup fa) : i <= k}

LEMMA PlayStalled ==
  ASSUME NEW st, NEW ra, NEW rt, NEW br, NEW un, NEW re, NEW fa, NEW oa, NEW aw, NEW ap, NEW ba
  PROVE  Play(View(st, ra, rt, br, un, re, fa, oa, aw, ap, ba), VaultStalled) =
           View("Refunding", ra, rt, br, un, re, fa \cup FirstOpen(re, fa), oa, aw, ap, ba)
BY DEF View, Play, ReplayStalled, VaultStalled, FirstOpen

\* The events of the money put in and taken out.
LEMMA PlayContrib ==
  ASSUME NEW st, NEW ra, NEW rt, NEW br, NEW un, NEW re, NEW fa, NEW oa, NEW aw, NEW ap, NEW ba,
         NEW c, NEW a, NEW b, b = HeldBy(View(st, ra, rt, br, un, re, fa, oa, aw, ap, ba), c)
  PROVE  Play(View(st, ra, rt, br, un, re, fa, oa, aw, ap, ba), Contrib(c, a, ra + a)) =
           View(st, ra + a, rt, br, un + a, re, fa, oa, aw, ap,
                Holding(View(st, ra, rt, br, un, re, fa, oa, aw, ap, ba), c, b + a))
BY DEF View, Play, ReplayContrib, Contrib, HeldBy, Holding

LEMMA PlayRefund ==
  ASSUME NEW st, NEW ra, NEW rt, NEW br \in BOOLEAN, NEW un, NEW re, NEW fa, NEW oa, NEW aw, NEW ap, NEW ba,
         NEW c, NEW a, NEW b, b = HeldBy(View(st, ra, rt, br, un, re, fa, oa, aw, ap, ba), c),
         st = "Failed" => a = b
  PROVE  Play(View(st, ra, rt, br, un, re, fa, oa, aw, ap, ba), Refund(c, a)) =
           View(st, ra, rt, br \/ (st = "Refunding" /\ un = b), un - b, re, fa, oa, aw, ap,
                Holding(View(st, ra, rt, br, un, re, fa, oa, aw, ap, ba), c, 0))
BY DEF View, Play, ReplayRefund, Refund, HeldBy, Holding

-----------------------------------------------------------------------------
(***************************************************************************)
(* What a call does: the transition it found due, then its own events      *)
(***************************************************************************)

\* The transition's event brings the replay to the state the call works in.
LEMMA SyncPlayed ==
  ASSUME IInv, Rebuilt
  PROVE  Play(replayed, Synced) =
           View(EffectiveState, raised, releasedTotal, bondReturned, unclaimed, released,
                failed, opensAt, approvedWeight, approvals, Entries)
<1>1. CASE EffectiveState = "Failed" /\ state # "Failed"
  <2>1. Synced = VaultFailed
    BY <1>1 DEF Synced
  <2> QED
    BY <1>1, <2>1, PlayFailed DEF Rebuilt
<1>2. CASE EffectiveState = state
  <2>1. Synced = Silence
    BY <1>2 DEF Synced
  <2> QED
    BY <1>2, <2>1, PlaySilence DEF Rebuilt
<1> QED
  BY <1>1, <1>2, StateFacts

\* The replay's entry for a wallet is the vault's, whatever the other figures.
LEMMA EntryHeld ==
  ASSUME IInv, Claims, NEW c \in Contributors,
         NEW st, NEW ra, NEW rt, NEW br, NEW un, NEW re, NEW fa, NEW oa, NEW aw, NEW ap
  PROVE  HeldBy(View(st, ra, rt, br, un, re, fa, oa, aw, ap, Entries), c) = balance[c]
<1>1. c \notin Backers => balance[c] = 0
  BY DEF Backers, Claims, IInv, TypeOK
<1>2. DOMAIN Entries = Backers /\ \A d \in Backers : Entries[d] = balance[d]
  BY DEF Entries
<1> QED
  BY <1>1, <1>2 DEF View, HeldBy

LEMMA EntryUpdated ==
  ASSUME NEW c \in Contributors, NEW amount, Backers' = Backers \cup {c},
         \A d \in Backers' : balance'[d] = IF d = c THEN amount ELSE balance[d],
         NEW st, NEW ra, NEW rt, NEW br, NEW un, NEW re, NEW fa, NEW oa, NEW aw, NEW ap
  PROVE  Holding(View(st, ra, rt, br, un, re, fa, oa, aw, ap, Entries), c, amount) = Entries'
<1>1. DOMAIN Entries = Backers /\ \A d \in Backers : Entries[d] = balance[d]
  BY DEF Entries
<1>2. Holding(View(st, ra, rt, br, un, re, fa, oa, aw, ap, Entries), c, amount) =
        [d \in Backers \cup {c} |-> IF d = c THEN amount ELSE balance[d]]
  BY <1>1 DEF View, Holding
<1> QED
  BY <1>2 DEF Entries

LEMMA ContributeRebuilt ==
  ASSUME IInv, Claims, Rebuilt, NEW c \in Contributors, NEW amount \in Amounts,
         Contribute(c, amount), Emit(Synced, GoalReached, Contrib(c, amount, raised'))
  PROVE  Rebuilt'
<1>1. state = "Raising" /\ EffectiveState = "Raising" /\ amount \in Nat \ {0}
  BY StateFacts, ConfigAccepted DEF Contribute, Accepts
<1>2. /\ raised' = raised + amount /\ unclaimed' = unclaimed + amount
      /\ balance' = [balance EXCEPT ![c] = @ + amount]
      /\ contributed' = [contributed EXCEPT ![c] = @ + amount]
      /\ state' = IF raised' >= Goal THEN "Funded" ELSE "Raising"
      /\ UNCHANGED <<releasedTotal, bondReturned, released, failed, opensAt, approvedWeight, approvals>>
  BY <1>1 DEF Contribute, SyncState, ballots
<1>3. bondReturned \in BOOLEAN
  BY DEF IInv, TypeOK
<1> DEFINE r == View(state', raised, releasedTotal, bondReturned, unclaimed, released, failed,
                     opensAt, approvedWeight, approvals, Entries)
<1>4. Play(Play(replayed, Synced), GoalReached) = r
  <2>1. CASE raised' >= Goal
    <3>1. GoalReached = VaultFunded /\ state' = "Funded"
      BY <1>2, <2>1 DEF GoalReached
    <3> QED
      BY <1>1, <3>1, SyncPlayed, PlayFunded
  <2>2. CASE ~(raised' >= Goal)
    <3>1. GoalReached = Silence /\ state' = "Raising"
      BY <1>2, <2>2 DEF GoalReached
    <3> QED
      BY <1>1, <3>1, SyncPlayed, PlaySilence
  <2> QED
    BY <2>1, <2>2
<1>4a. HeldBy(r, c) = balance[c]
  BY EntryHeld
<1>5. replayed' = View(state', raised', releasedTotal, bondReturned, unclaimed', released, failed,
                       opensAt, approvedWeight, approvals, Holding(r, c, balance[c] + amount))
  BY <1>2, <1>4, <1>4a, PlayContrib DEF Emit
<1>6. Holding(r, c, balance[c] + amount) = Entries'
  <2>1. Backers' = Backers \cup {c}
    BY <1>1, <1>2 DEF Backers, IInv, TypeOK
  <2>2. \A d \in Backers' : balance'[d] = IF d = c THEN balance[c] + amount ELSE balance[d]
    BY <1>2 DEF Backers, IInv, TypeOK
  <2> QED
    BY <2>1, <2>2, EntryUpdated
<1> QED
  BY <1>2, <1>5, <1>6 DEF Rebuilt

LEMMA ApproveRebuilt ==
  ASSUME IInv, Rebuilt, NEW c \in Contributors, NEW m \in Milestones, ApproveMilestone(c, m),
         Emit(Synced, Approved(m, EffectiveWeight(balance[c], raised), approvedWeight'[m]), Silence)
  PROVE  Rebuilt'
<1> DEFINE w == EffectiveWeight(balance[c], raised)
<1>1. /\ state' = EffectiveState /\ approvedWeight' = [approvedWeight EXCEPT ![m] = @ + w]
      /\ approvals' = [approvals EXCEPT ![m] = @ + 1]
      /\ UNCHANGED <<raised, releasedTotal, bondReturned, unclaimed, released, failed, opensAt,
                     balance, contributed>>
  BY DEF ApproveMilestone, SyncState, pledges
<1>2. approvedWeight'[m] = approvedWeight[m] + w
  BY <1>1 DEF IInv, TypeOK
<1>3. Entries' = Entries
  BY <1>1 DEF Entries, Backers
<1> HIDE DEF w
<1>4. replayed' = View(state', raised', releasedTotal', bondReturned', unclaimed', released', failed',
                       opensAt', approvedWeight', approvals', Entries)
  <2>1. Play(Play(replayed, Synced), Approved(m, w, approvedWeight'[m])) =
          View(EffectiveState, raised, releasedTotal, bondReturned, unclaimed, released, failed,
               opensAt, [approvedWeight EXCEPT ![m] = @ + w], [approvals EXCEPT ![m] = @ + 1], Entries)
    BY <1>2, SyncPlayed, PlayApproved
  <2> QED
    BY <1>1, <2>1, PlaySilence DEF Emit, w
<1> QED
  BY <1>3, <1>4 DEF Rebuilt

LEMMA ClaimRebuilt ==
  ASSUME IInv, Claims, Rebuilt, NEW c \in Contributors, ClaimRefund(c),
         Emit(Synced, Refund(c, refunded'[c] - refunded[c]), Silence)
  PROVE  Rebuilt'
<1> DEFINE amount == refunded'[c] - refunded[c]
           r == View(EffectiveState, raised, releasedTotal, bondReturned, unclaimed, released, failed,
                     opensAt, approvedWeight, approvals, Entries)
<1>1. /\ state' = EffectiveState /\ balance' = [balance EXCEPT ![c] = 0]
      /\ unclaimed' = unclaimed - balance[c] /\ balance[c] > 0
      /\ bondReturned' = IF Sweeps(c) THEN TRUE ELSE bondReturned
      /\ UNCHANGED <<raised, releasedTotal, released, failed, opensAt, approvedWeight, approvals, contributed>>
  BY DEF ClaimRefund, SyncState, ballots
<1>2. EffectiveState = "Failed" => amount = balance[c]
  <2> SUFFICES ASSUME EffectiveState = "Failed" PROVE amount = balance[c]
    OBVIOUS
  <2>1. refunded' = [refunded EXCEPT ![c] = @ + balance[c]]
    BY DEF ClaimRefund, RefundDue, Sweeps
  <2> QED
    BY <2>1 DEF IInv, TypeOK
<1>3. HeldBy(r, c) = balance[c] /\ Holding(r, c, 0) = Entries'
  <2>1. Backers' = Backers \cup {c}
    BY <1>1 DEF Backers, Claims, IInv, TypeOK
  <2>2. \A d \in Backers' : balance'[d] = IF d = c THEN 0 ELSE balance[d]
    BY <1>1 DEF Backers, IInv, TypeOK
  <2>3. HeldBy(r, c) = balance[c]
    BY EntryHeld
  <2> QED
    BY <2>1, <2>2, <2>3, EntryUpdated
<1>4. (bondReturned \/ (EffectiveState = "Refunding" /\ unclaimed = balance[c])) = bondReturned'
  BY <1>1 DEF Sweeps, IInv, TypeOK
<1>5. Play(Play(replayed, Synced), Refund(c, amount)) =
        View(EffectiveState, raised, releasedTotal,
             bondReturned \/ (EffectiveState = "Refunding" /\ unclaimed = balance[c]),
             unclaimed - balance[c], released, failed, opensAt, approvedWeight, approvals,
             Holding(r, c, 0))
  <2> HIDE DEF amount
  <2>1. bondReturned \in BOOLEAN
    BY DEF IInv, TypeOK
  <2> QED
    BY <2>1, <1>2, <1>3, SyncPlayed, PlayRefund
<1>6. Play(Play(replayed, Synced), Refund(c, amount)) =
        View(state', raised', releasedTotal', bondReturned', unclaimed', released', failed', opensAt',
             approvedWeight', approvals', Entries')
  BY <1>1, <1>3, <1>4, <1>5
<1> QED
  BY <1>6, PlaySilence DEF Emit, Rebuilt

LEMMA ReleaseRebuilt ==
  ASSUME IInv, Rebuilt, NEW m \in Milestones, ReleaseMilestone(m),
         Emit(Synced, LastTranche, Released(m, Tranche[m], releasedTotal'))
  PROVE  Rebuilt'
<1> DEFINE all == released \cup {m} = Milestones
<1>1. /\ released' = released \cup {m} /\ releasedTotal' = releasedTotal + Tranche[m]
      /\ state' = IF all THEN "Completed" ELSE "Active"
      /\ bondReturned' = (IF all THEN TRUE ELSE bondReturned)
      /\ UNCHANGED <<raised, unclaimed, failed, opensAt, approvedWeight, approvals, balance, contributed>>
  BY DEF ReleaseMilestone, pledges, ballots
<1>2. Entries' = Entries
  BY <1>1 DEF Entries, Backers
<1>3. bondReturned = FALSE
  BY PayingFacts DEF ReleaseMilestone
<1>4. bondReturned \in BOOLEAN
  BY <1>3
<1> DEFINE before == View(EffectiveState, raised, releasedTotal, bondReturned, unclaimed, released,
                         failed, opensAt, approvedWeight, approvals, Entries)
           paid   == Released(m, Tranche[m], releasedTotal + Tranche[m])
<1>5. replayed' = Play(before, paid)
  <2>1. CASE all /\ Bond > 0
    <3>1. LastTranche = BondReturned
      BY <1>1, <2>1 DEF LastTranche
    <3> QED
      BY <1>1, <1>4, <2>1, <3>1, SyncPlayed, PlayLastTranche DEF Emit
  <2>2. CASE ~(all /\ Bond > 0)
    <3>1. LastTranche = Silence
      BY <1>1, <2>2 DEF LastTranche
    <3> QED
      BY <1>1, <3>1, SyncPlayed, PlaySilence DEF Emit
  <2> QED
    BY <2>1, <2>2
<1>6. Play(before, paid) = View(state', raised, releasedTotal + Tranche[m], bondReturned \/ all, unclaimed,
                                released \cup {m}, failed, opensAt, approvedWeight, approvals, Entries)
  BY <1>1, <1>4 DEF View, Play, ReplayRelease, Released
<1>7. (bondReturned \/ all) = bondReturned'
  BY <1>1, <1>4
<1> QED
  BY <1>1, <1>2, <1>5, <1>6, <1>7 DEF Rebuilt

LEMMA ForfeitRebuilt ==
  ASSUME IInv, Rebuilt, Paying, state' = "Refunding", NEW e,
         UNCHANGED <<raised, releasedTotal, bondReturned, unclaimed, released, opensAt,
                     approvedWeight, approvals, balance, contributed>>,
         \/ \E m \in Milestones : e = Lapsed(m) /\ failed' = failed \cup {m}
         \/ e = VaultStalled /\ failed' = failed \cup FirstUndecided,
         Emit(Synced, e, BondSlashed)
  PROVE  Rebuilt'
<1>1. Entries' = Entries
  BY DEF Entries, Backers
<1>2. bondReturned \in BOOLEAN
  BY DEF IInv, TypeOK
<1>3. FirstUndecided = FirstOpen(released, failed)
  <2>1. \A i \in Milestones : Undecided(i) <=> i \in Milestones \ (released \cup failed)
    BY DEF Undecided
  <2>2. \A i, k \in Milestones : i <= k \/ k \in 1 .. i - 1
    BY ConfigAccepted DEF Milestones
  <2>3. \A i \in Milestones : \A k \in 1 .. i - 1 : k \in Milestones /\ ~(i <= k)
    BY ConfigAccepted DEF Milestones
  <2> QED
    BY <2>1, <2>2, <2>3 DEF FirstUndecided, FirstOpen
<1>4. Play(Play(replayed, Synced), e) =
        View("Refunding", raised, releasedTotal, bondReturned, unclaimed, released, failed',
             opensAt, approvedWeight, approvals, Entries)
  BY <1>2, <1>3, SyncPlayed, PlayLapsed, PlayStalled
<1> QED
  BY <1>1, <1>4, PlaySlashed DEF Emit, Rebuilt

-----------------------------------------------------------------------------
(***************************************************************************)
(* Every call of the vault, next to the replay of its events               *)
(***************************************************************************)

\* The replay never gets in the vault's way.
LEMMA ReplayIsVault == [ReplayNext]_<<vars, replayed>> => [Next]_vars
BY DEF ReplayNext, ContributorEmits, BuilderEmits, AnyoneEmits, Next, ContributorCall, BuilderCall,
       AnyonesCall

LEMMA InitRebuilt == ReplayInit => Rebuilt
<1> SUFFICES ASSUME ReplayInit PROVE Rebuilt
  OBVIOUS
<1>1. Backers = {}
  BY DEF ReplayInit, Init, Backers
<1>2. Entries = [c \in {} |-> 0]
  BY <1>1 DEF Entries
<1> QED
  BY <1>2 DEF ReplayInit, Init, Rebuilt, ReplayStart, View

\* A call with no event of its own but a transition's.
LEMMA SettleRebuilt ==
  ASSUME IInv, Rebuilt, Settle, Emit(Synced, Silence, Silence)
  PROVE  Rebuilt'
<1>1. Entries' = Entries
  BY DEF Settle, pledges, Entries, Backers
<1>2. replayed' = View(EffectiveState, raised, releasedTotal, bondReturned, unclaimed, released,
                       failed, opensAt, approvedWeight, approvals, Entries)
  BY SyncPlayed, PlaySilence DEF Emit
<1> QED
  BY <1>1, <1>2 DEF Settle, SyncState, pledges, ballots, Rebuilt

LEMMA ReturnRebuilt ==
  ASSUME IInv, Rebuilt, ReturnBond, Emit(Synced, BondReturned, Silence)
  PROVE  Rebuilt'
<1>1. Entries' = Entries
  BY DEF ReturnBond, pledges, Entries, Backers
<1>2. Play(Play(replayed, Synced), BondReturned) =
        View(EffectiveState, raised, releasedTotal, TRUE, unclaimed, released,
             failed, opensAt, approvedWeight, approvals, Entries)
  <2>1. Play(View(EffectiveState, raised, releasedTotal, bondReturned, unclaimed, released,
                  failed, opensAt, approvedWeight, approvals, Entries), BondReturned) =
        View(EffectiveState, raised, releasedTotal, TRUE, unclaimed, released,
             failed, opensAt, approvedWeight, approvals, Entries)
    BY DEF View, Play, BondReturned
  <2> QED
    BY <2>1, SyncPlayed
<1>3. replayed' = View(EffectiveState, raised, releasedTotal, TRUE, unclaimed, released,
                       failed, opensAt, approvedWeight, approvals, Entries)
  BY <1>2, PlaySilence DEF Emit
<1> QED
  BY <1>1, <1>3 DEF ReturnBond, SyncState, pledges, ballots, Rebuilt

LEMMA OpenRebuilt ==
  ASSUME IInv, Rebuilt, NEW m \in Milestones, OpenMilestoneVote(m),
         Emit(Synced, VoteOpen(m, now), Silence)
  PROVE  Rebuilt'
<1>1. Entries' = Entries
  BY DEF OpenMilestoneVote, pledges, Entries, Backers
<1>2. Play(Play(replayed, Synced), VoteOpen(m, now)) =
        View(EffectiveState, raised, releasedTotal, bondReturned, unclaimed, released,
             failed, [opensAt EXCEPT ![m] = now], approvedWeight, approvals, Entries)
  BY SyncPlayed, PlayVoteOpen
<1>3. replayed' = View(EffectiveState, raised, releasedTotal, bondReturned, unclaimed, released,
                       failed, [opensAt EXCEPT ![m] = now], approvedWeight, approvals, Entries)
  BY <1>2, PlaySilence DEF Emit
<1> QED
  BY <1>1, <1>3 DEF OpenMilestoneVote, SyncState, pledges, Rebuilt

LEMMA StillRebuilt ==
  ASSUME Rebuilt, UNCHANGED <<others, replayed>>
  PROVE  Rebuilt'
BY DEF Rebuilt, others, ballots, pledges, Entries, Backers

LEMMA ReplayStep ==
  IInv /\ Claims /\ Rebuilt /\ [ReplayNext]_<<vars, replayed>> => Rebuilt'
<1> SUFFICES ASSUME IInv, Claims, Rebuilt, [ReplayNext]_<<vars, replayed>> PROVE Rebuilt'
  OBVIOUS
<1>1. CASE ContributorEmits
  BY <1>1, ContributeRebuilt, ApproveRebuilt, ClaimRebuilt DEF ContributorEmits
<1>2. CASE BuilderEmits
  BY <1>2, OpenRebuilt DEF BuilderEmits
<1>3. CASE SettleStalled /\ Emit(Synced, VaultStalled, BondSlashed)
  BY <1>3, ForfeitRebuilt DEF SettleStalled, pledges, ballots
<1>4. ASSUME NEW m \in Milestones, SettleLapsedMilestone(m), Emit(Synced, Lapsed(m), BondSlashed)
      PROVE  Rebuilt'
  BY <1>4, ForfeitRebuilt DEF SettleLapsedMilestone, pledges, ballots
<1>5. CASE AnyoneEmits
  BY <1>3, <1>4, <1>5, SettleRebuilt, ReturnRebuilt, ReleaseRebuilt DEF AnyoneEmits
<1>6. CASE Environment /\ UNCHANGED replayed
  BY <1>6, StillRebuilt DEF Environment, Tick, Donate, DisableFactory, AddFactory
<1>7. CASE UNCHANGED <<vars, replayed>>
  BY <1>7, StillRebuilt DEF vars, others
<1> QED
  BY <1>1, <1>2, <1>5, <1>6, <1>7 DEF ReplayNext

\* A reading of the vault that is right up to the clock is what a reader
\* compares with the chain.
LEMMA RebuiltMatches == IInv /\ Polls /\ Rebuilt => ReplayMatchesVault
<1> SUFFICES ASSUME IInv, Polls, Rebuilt PROVE ReplayMatchesVault
  OBVIOUS
<1>1. /\ replayed.state = state /\ replayed.raised = raised
      /\ replayed.releasedTotal = releasedTotal
      /\ replayed.bondReturned = bondReturned
      /\ replayed.unclaimed = unclaimed
      /\ replayed.released = released /\ replayed.failed = failed
      /\ replayed.opensAt = opensAt
      /\ replayed.approvedWeight = approvedWeight /\ replayed.approvals = approvals
      /\ replayed.balances = Entries /\ replayed.consistent = TRUE
  BY DEF Rebuilt, View
<1>2. ReplayedState = EffectiveState
  BY <1>1, ConfigAccepted DEF ReplayedState, EffectiveState, IInv, TypeOK
<1>3. DOMAIN replayed.balances = Backers /\ \A c \in Backers : replayed.balances[c] = balance[c]
  BY <1>1 DEF Entries
<1>4. Cardinality(DOMAIN replayed.balances) = contributorCount
  BY <1>3 DEF Polls
<1> QED
  BY <1>1, <1>2, <1>3, <1>4 DEF ReplayMatchesVault

\* A vault can be rebuilt from its events alone, at any moment of any run.
THEOREM EventsRebuildTheVault == ReplaySpec => []ReplayMatchesVault
<1>1. ReplayInit => IInv /\ Polls /\ Claims /\ Rebuilt
  BY InitInvariant, InitPolls, InitClaims, InitRebuilt DEF ReplayInit
<1>2. IInv /\ Polls /\ Claims /\ Rebuilt /\ [ReplayNext]_<<vars, replayed>>
        => (IInv /\ Polls /\ Claims /\ Rebuilt)'
  BY ReplayIsVault, NextInvariant, NextPolls, NextClaims, ReplayStep
<1> QED
  BY <1>1, <1>2, RebuiltMatches, PTL DEF ReplaySpec

=============================================================================
