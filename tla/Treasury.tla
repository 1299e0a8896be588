------------------------------ MODULE Treasury ------------------------------
(***************************************************************************)
(* The fee treasury (contracts/blkfndr-treasury): listing fees pool here,  *)
(* the shareholders vote them out in cycles and claim their shares, they   *)
(* vote on the factory's settings and on the register itself, and a voted  *)
(* share of what is not promised goes to the operations vault each month.  *)
(* Every action is one call that succeeded; a call that panics reverts     *)
(* and is an action that is not enabled.                                   *)
(***************************************************************************)
EXTENDS Factory, TwoThirds, Totals, Functions, Sequences

CONSTANTS
  People,           \* everyone who is or may become a shareholder
  Tokens,           \* the tokens fees arrive in
  FirstRegister,    \* the constructor's shareholders
  Registers,        \* registers somebody may propose
  OwnerLists,       \* lists of owners somebody may propose
  FundingTerms,     \* operations funding somebody may propose
  SettingValues,    \* <<setting, value>> somebody may propose
  Successors,       \* addresses the factory may be handed to
  Fees,             \* sizes of a fee that arrives
  VOTE_WINDOW,           \* DEFAULT_VOTE_WINDOW
  MIN_RELEASE_INTERVAL,  \* between two releases, and between two fundings
  MAX_SHAREHOLDERS,
  MaxTime,          \* bound: the clock stops here
  MaxBalance,       \* bound: no fee arrives beyond it
  MaxCycles         \* bound: how many cycles are opened

Self    == "treasury"
Genesis == 1        \* the ledger time of the constructor; 0 stands for "never"

\* A register gives everyone their basis points, and those it does not list
\* none: an entry of zero, like a holder listed twice, is refused.
Holders(register) == {p \in People : register[p] > 0}

ValidRegister(register) ==
  /\ Cardinality(Holders(register)) \in 1 .. MAX_SHAREHOLDERS
  /\ Total(register, People) = BPS_TOTAL

ASSUME TreasuryConfig ==
  /\ BPS_TOTAL \in Nat \ {0} /\ MAX_SHAREHOLDERS \in 1 .. BPS_TOTAL
  /\ IsFiniteSet(People)
  /\ Fees \subseteq Nat
  /\ FirstRegister \in [People -> Nat] /\ ValidRegister(FirstRegister)
  /\ Registers \subseteq [People -> Nat]
  /\ OwnerLists \subseteq Seq(People)
  /\ FundingTerms \subseteq [token : Tokens, bps : Nat]
  /\ VOTE_WINDOW \in Nat \ {0} /\ MIN_RELEASE_INTERVAL \in Nat
  /\ MaxTime \in Nat /\ MaxBalance \in Nat /\ MaxCycles \in Nat

NoProposal == [action |-> <<"none">>, roster |-> [p \in People |-> 0], closesAt |-> 0,
               approvals |-> 0, voters |-> {}]
NoTerms    == [token |-> "none", bps |-> 0]

VARIABLES
  shareholders,      \* DataKey::Shareholders
  cycles,            \* DataKey::Cycle, with who voted, who claimed and the ClaimCount
  openCycle,         \* DataKey::OpenCycleId, 0 when there is none
  reserved,          \* DataKey::Reserved
  lastReleaseAt,     \* DataKey::LastReleaseAt, 0 before the first
  proposal,          \* DataKey::Proposal, with who voted on it
  opsFunding,        \* DataKey::OpsFunding
  lastOpsFundingAt,  \* DataKey::LastOpsFundingAt, 0 before the first
  balance,           \* what the treasury holds of each token
  now                \* the ledger timestamp

payouts    == <<cycles, openCycle, reserved, lastReleaseAt>>
governance == <<shareholders, proposal, opsFunding>>
vars       == <<payouts, governance, factory, lastOpsFundingAt, balance, now>>

Init ==
  /\ FactoryInit
  /\ shareholders = FirstRegister
  /\ cycles = <<>> /\ openCycle = 0
  /\ reserved = [t \in Tokens |-> 0]
  /\ lastReleaseAt = 0
  /\ proposal = NoProposal
  /\ opsFunding = NoTerms /\ lastOpsFundingAt = 0
  /\ balance = [t \in Tokens |-> 0]
  /\ now = Genesis

\* Half of the holders are enough.
HalfDecides(vote) == 2 * vote.approvals >= Cardinality(Holders(vote.roster))

Decided(vote) == Carried(vote.approvals, Cardinality(Holders(vote.roster)))

\* The same holder may approve as often as they like.
MayApproveAgain(vote, voter) == now < vote.closesAt /\ voter \in Holders(vote.roster)

\* A vote is still accepted at the second the window closes.
MayApproveAtClose(vote, voter) ==
  now <= vote.closesAt /\ voter \in Holders(vote.roster) \ vote.voters

\* One vote each, against the register of the moment the vote opened.
MayApprove(vote, voter) ==
  /\ now < vote.closesAt
  /\ voter \in Holders(vote.roster) \ vote.voters

Approved(vote, voter) ==
  [vote EXCEPT !.approvals = @ + 1, !.voters = @ \cup {voter}]

-----------------------------------------------------------------------------
(***************************************************************************)
(* Payout cycles                                                           *)
(***************************************************************************)

Available(t) == balance[t] - reserved[t]

\* A release may be opened at any time.
AnyTime(last) == TRUE

\* The monthly clock, measured from the release that carried.
MonthSince(last) == last = 0 \/ now >= last + MIN_RELEASE_INTERVAL

\* A cycle whose window is over no longer holds the slot, settled or not.
SlotTakenWhileLive ==
  openCycle # 0 /\ cycles[openCycle].state = "Voting" /\ now < cycles[openCycle].closesAt

\* The slot is held by a cycle under vote until somebody settles it.
SlotTaken == openCycle # 0 /\ cycles[openCycle].state = "Voting"

OpenCycle(opener, t) ==
  /\ opener \in Holders(shareholders)
  /\ ~SlotTaken
  /\ MonthSince(lastReleaseAt)
  /\ Available(t) > 0
  /\ Len(cycles) < MaxCycles
  /\ cycles' = Append(cycles,
       [token |-> t, amount |-> Available(t), roster |-> shareholders,
        closesAt |-> now + VOTE_WINDOW, approvals |-> 0, state |-> "Voting",
        voters |-> {}, claimants |-> {}, claims |-> 0])
  /\ openCycle' = Len(cycles')
  /\ UNCHANGED <<governance, factory, reserved, lastReleaseAt, lastOpsFundingAt, balance, now>>

\* The approval that carries reserves the amount, starts the monthly clock and
\* frees the slot for the next cycle.
ApproveCycle(voter) ==
  /\ SlotTaken
  /\ MayApprove(cycles[openCycle], voter)
  /\ LET next == Approved(cycles[openCycle], voter)
     IN  IF Decided(next)
         THEN /\ cycles' = [cycles EXCEPT ![openCycle] = [next EXCEPT !.state = "Payable"]]
              /\ reserved' = [reserved EXCEPT ![next.token] = @ + next.amount]
              /\ lastReleaseAt' = now
              /\ openCycle' = 0
         ELSE /\ cycles' = [cycles EXCEPT ![openCycle] = next]
              /\ UNCHANGED <<reserved, lastReleaseAt, openCycle>>
  /\ UNCHANGED <<governance, factory, lastOpsFundingAt, balance, now>>

SettleLapsedCycle ==
  /\ SlotTaken
  /\ now >= cycles[openCycle].closesAt
  /\ ~Decided(cycles[openCycle])
  /\ cycles' = [cycles EXCEPT ![openCycle].state = "Lapsed"]
  /\ openCycle' = 0
  /\ UNCHANGED <<governance, factory, reserved, lastReleaseAt, lastOpsFundingAt, balance, now>>

Share(amount, bps) == (amount * bps) \div BPS_TOTAL

Payout(cycle, holder) == Share(cycle.amount, cycle.roster[holder])

Distributed(cycle) ==
  Total([p \in People |-> Payout(cycle, p)], Holders(cycle.roster))

\* The remainder of the truncated shares stays reserved for ever.
PayoutOnly(cycle, holder) == Payout(cycle, holder)

\* The last claim frees the rest of the cycle a second time.
WholeAmountAtLast(cycle, holder) ==
  IF cycle.claims + 1 = Cardinality(Holders(cycle.roster))
  THEN cycle.amount - (Distributed(cycle) - 2 * Payout(cycle, holder))
  ELSE Payout(cycle, holder)

\* What a claim takes off the reservation: its own payout, and with the last
\* one what truncation left over.
Freed(cycle, holder) ==
  IF cycle.claims + 1 = Cardinality(Holders(cycle.roster))
  THEN cycle.amount - (Distributed(cycle) - Payout(cycle, holder))
  ELSE Payout(cycle, holder)

Claim(holder, id) ==
  LET cycle  == cycles[id]
      payout == Payout(cycle, holder)
  IN  /\ cycle.state = "Payable"
      /\ holder \in Holders(cycle.roster) \ cycle.claimants
      /\ balance[cycle.token] >= payout
      /\ cycles' = [cycles EXCEPT ![id].claimants = @ \cup {holder}, ![id].claims = @ + 1]
      /\ reserved' = [reserved EXCEPT ![cycle.token] = @ - Freed(cycle, holder)]
      /\ balance' = [balance EXCEPT ![cycle.token] = @ - payout]
      /\ UNCHANGED <<governance, factory, openCycle, lastReleaseAt, lastOpsFundingAt, now>>

-----------------------------------------------------------------------------
(***************************************************************************)
(* Governed actions: <<"Update", setting, value>> and                      *)
(* <<"TransferAdmin", address>> call the factory, <<"SetShareholders",     *)
(* register>>, <<"SetOwners", list>> and <<"SetOpsFunding", terms>> change *)
(* the treasury.                                                           *)
(***************************************************************************)

\* Equal shares, the remainder going one point at a time to the earliest.
EqualShares(owners) ==
  LET n == Len(owners)
  IN  [p \in People |->
        IF p \notin Range(owners) THEN 0
        ELSE BPS_TOTAL \div n + (IF \E i \in 1 .. BPS_TOTAL % n : owners[i] = p THEN 1 ELSE 0)]

ValidOwners(owners) ==
  /\ Len(owners) \in 1 .. MAX_SHAREHOLDERS
  /\ IsInjective(owners)
  /\ ValidRegister(EqualShares(owners))

\* What propose checks of a factory setting: less than its setter does.
WellFormedSetting(setting, value) ==
  CASE setting = "platform_fee"     -> value >= 0
    [] setting = "bond_percentage"  -> value <= BPS_TOTAL
    [] setting = "min_contribution" -> value >= 0
    [] OTHER                        -> TRUE

WellFormed(action) ==
  CASE action[1] = "Update"          -> WellFormedSetting(action[2], action[3])
    [] action[1] = "SetShareholders" -> ValidRegister(action[2])
    [] action[1] = "SetOwners"       -> ValidOwners(action[2])
    [] action[1] = "SetOpsFunding"   -> action[2].bps <= BPS_TOTAL
    [] OTHER                         -> TRUE

\* A proposal that carried or whose window closed gives way to the next.
SlotFree == proposal = NoProposal \/ now >= proposal.closesAt \/ Decided(proposal)

Propose(proposer, action) ==
  /\ WellFormed(action)
  /\ proposer \in Holders(shareholders)
  /\ SlotFree
  /\ proposal' = [action |-> action, roster |-> shareholders, closesAt |-> now + VOTE_WINDOW,
                  approvals |-> 0, voters |-> {}]
  /\ UNCHANGED <<payouts, factory, shareholders, opsFunding, lastOpsFundingAt, balance, now>>

ApproveProposal(voter) ==
  /\ proposal # NoProposal
  /\ ~Decided(proposal)
  /\ MayApprove(proposal, voter)
  /\ proposal' = Approved(proposal, voter)
  /\ UNCHANGED <<payouts, factory, shareholders, opsFunding, lastOpsFundingAt, balance, now>>

SetRegister(register) ==
  /\ ValidRegister(register)
  /\ shareholders' = register
  /\ UNCHANGED <<opsFunding, factory>>

\* However long after its window closed.
ExecuteProposal ==
  /\ proposal # NoProposal
  /\ Decided(proposal)
  /\ LET action == proposal.action
     IN  \/ /\ action[1] = "Update"
            /\ Update(Self, action[2], action[3])
            /\ UNCHANGED <<shareholders, opsFunding>>
         \/ /\ action[1] = "TransferAdmin"
            /\ TransferAdmin(Self, action[2])
            /\ UNCHANGED <<shareholders, opsFunding>>
         \/ action[1] = "SetShareholders" /\ SetRegister(action[2])
         \/ action[1] = "SetOwners" /\ SetRegister(EqualShares(action[2]))
         \/ /\ action[1] = "SetOpsFunding"
            /\ opsFunding' = action[2]
            /\ UNCHANGED <<shareholders, factory>>
  /\ proposal' = NoProposal
  /\ UNCHANGED <<payouts, lastOpsFundingAt, balance, now>>

-----------------------------------------------------------------------------
(***************************************************************************)
(* Operations funding, and the world around the treasury                   *)
(***************************************************************************)

\* No cycle is being voted on; one whose window closed unsettled cannot carry.
NoLiveVote == ~(SlotTaken /\ now < cycles[openCycle].closesAt)

FundOperations ==
  LET amount == Share(Available(opsFunding.token), opsFunding.bps)
  IN  /\ opsFunding # NoTerms
      /\ MonthSince(lastOpsFundingAt)
      /\ NoLiveVote
      /\ Available(opsFunding.token) > 0
      /\ amount > 0
      /\ lastOpsFundingAt' = now
      /\ balance' = [balance EXCEPT ![opsFunding.token] = @ - amount]
      /\ UNCHANGED <<payouts, governance, factory, now>>

\* A listing fee, or anybody's transfer to the treasury.
FeeArrives(t, fee) ==
  /\ balance[t] + fee <= MaxBalance
  /\ balance' = [balance EXCEPT ![t] = @ + fee]
  /\ UNCHANGED <<payouts, governance, factory, lastOpsFundingAt, now>>

\* Whoever else is the factory's admin hands it over.
HandOver(newAdmin) ==
  /\ admin # Self
  /\ TransferAdmin(admin, newAdmin)
  /\ UNCHANGED <<payouts, governance, lastOpsFundingAt, balance, now>>

Tick ==
  /\ now < MaxTime
  /\ now' = now + 1
  /\ UNCHANGED <<payouts, governance, factory, lastOpsFundingAt, balance>>

-----------------------------------------------------------------------------
CycleCall ==
  \/ \E p \in People, t \in Tokens : OpenCycle(p, t)
  \/ \E p \in People : ApproveCycle(p)
  \/ SettleLapsedCycle
  \/ \E p \in People, id \in DOMAIN cycles : Claim(p, id)

ProposeAny == \E p \in People :
  \/ \E choice \in SettingValues : Propose(p, <<"Update", choice[1], choice[2]>>)
  \/ \E who \in Successors : Propose(p, <<"TransferAdmin", who>>)
  \/ \E register \in Registers : Propose(p, <<"SetShareholders", register>>)
  \/ \E owners \in OwnerLists : Propose(p, <<"SetOwners", owners>>)
  \/ \E terms \in FundingTerms : Propose(p, <<"SetOpsFunding", terms>>)

ProposalCall ==
  \/ ProposeAny
  \/ \E p \in People : ApproveProposal(p)
  \/ ExecuteProposal

Environment ==
  \/ \E t \in Tokens, fee \in Fees : FeeArrives(t, fee)
  \/ \E who \in Successors : HandOver(who)
  \/ Tick

Next == CycleCall \/ ProposalCall \/ FundOperations \/ Environment

Spec == Init /\ [][Next]_vars

-----------------------------------------------------------------------------
(***************************************************************************)
(* Properties                                                              *)
(***************************************************************************)

CycleStates == {"Voting", "Payable", "Lapsed"}

CycleType ==
  [token : Tokens, amount : Nat \ {0}, roster : [People -> Nat], closesAt : Nat, approvals : Nat,
   state : CycleStates, voters : SUBSET People, claimants : SUBSET People, claims : Nat]

ActionType ==
  {<<"none">>}
  \cup {<<"Update", choice[1], choice[2]>> : choice \in SettingValues}
  \cup {<<"TransferAdmin", who>> : who \in Successors}
  \cup {<<"SetShareholders", register>> : register \in Registers}
  \cup {<<"SetOwners", owners>> : owners \in OwnerLists}
  \cup {<<"SetOpsFunding", terms>> : terms \in FundingTerms}

ProposalType ==
  [action : ActionType, roster : [People -> Nat], closesAt : Nat, approvals : Nat,
   voters : SUBSET People]

\* Every variable has its type: no amount, reservation or balance ever goes
\* below zero, and the register is always a valid one.
TypeOK ==
  /\ shareholders \in [People -> Nat] /\ ValidRegister(shareholders)
  /\ cycles \in Seq(CycleType) /\ openCycle \in 0 .. Len(cycles)
  /\ reserved \in [Tokens -> Nat] /\ balance \in [Tokens -> Nat]
  /\ lastReleaseAt \in Nat /\ lastOpsFundingAt \in Nat /\ now \in Nat
  /\ opsFunding \in FundingTerms \cup {NoTerms}
  /\ proposal \in ProposalType
  /\ DOMAIN settings = Settings

Unclaimed(cycle) == Holders(cycle.roster) \ cycle.claimants

Paid(cycle) == Total([p \in People |-> Payout(cycle, p)], cycle.claimants)

\* What a payable cycle keeps reserved.
Left(cycle) == IF Unclaimed(cycle) = {} THEN 0 ELSE cycle.amount - Paid(cycle)

Owes(cycle, t) == IF cycle.state = "Payable" /\ cycle.token = t THEN Left(cycle) ELSE 0

\* The reservation of each token is, to the unit, what the payable cycles have
\* not paid out, truncation included, and nothing once everybody has claimed:
\* no share is promised twice and no unit stays locked behind a finished cycle.
ReservedExact == \A t \in Tokens :
  reserved[t] = Total([id \in DOMAIN cycles |-> Owes(cycles[id], t)], DOMAIN cycles)

\* The treasury can pay every reservation, and as long as a vote can still
\* carry, the amount that vote would reserve as well, whatever claims, fees and
\* operations fundings come in between.
Covered == \A t \in Tokens :
  balance[t] >= reserved[t] + (IF SlotTaken /\ now < cycles[openCycle].closesAt /\ cycles[openCycle].token = t
                               THEN cycles[openCycle].amount ELSE 0)

\* One cycle at a time is under vote, the one in the slot; it has not carried,
\* so once its window is over it can always be settled and never pins the slot.
OneLiveVote ==
  /\ \A id \in DOMAIN cycles : cycles[id].state = "Voting" <=> id = openCycle
  /\ SlotTaken => ~Decided(cycles[openCycle])

\* A cycle pays only on the approval of two thirds of the holders it was opened
\* against, each of whom voted once.
CycleMandate == \A id \in DOMAIN cycles : cycles[id].state = "Payable" =>
  LET asked == Holders(cycles[id].roster)
  IN  /\ cycles[id].voters \subseteq asked
      /\ 3 * Cardinality(cycles[id].voters) >= 2 * Cardinality(asked)

\* No claim is turned down for want of tokens: the treasury holds the share of
\* everybody who has not claimed yet, in every payable cycle of the token at once.
ClaimsCovered == \A t \in Tokens :
  LET due(id) == IF cycles[id].token = t /\ cycles[id].state = "Payable"
                 THEN Total([p \in People |-> Payout(cycles[id], p)], Unclaimed(cycles[id])) ELSE 0
  IN  balance[t] >= Total([id \in DOMAIN cycles |-> due(id)], DOMAIN cycles)

\* A cycle everybody has claimed has paid out what was voted, up to less than one
\* unit of truncation for each holder.
DustBounded == \A id \in DOMAIN cycles :
  LET cycle == cycles[id]
  IN  cycle.state = "Payable" /\ Unclaimed(cycle) = {} =>
        /\ Paid(cycle) <= cycle.amount
        /\ cycle.amount < Paid(cycle) + Cardinality(Holders(cycle.roster))

\* What may become of a cycle in one step.
Continues(before, after) ==
  /\ after.token = before.token /\ after.amount = before.amount
  /\ after.roster = before.roster /\ after.closesAt = before.closesAt
  /\ before.voters \subseteq after.voters /\ before.claimants \subseteq after.claimants
  /\ before.state # "Voting" => after.state = before.state /\ after.voters = before.voters
  /\ before.state = "Voting" /\ now >= before.closesAt => after.state # "Payable"

\* What a cycle was opened with is never revised, whatever becomes of the register:
\* votes and claims only add up, a verdict stands, and none carries after the
\* window.
CyclesAreHistory ==
  [][\A id \in DOMAIN cycles : id \in DOMAIN cycles' /\ Continues(cycles[id], cycles'[id])]_vars

\* Two releases never carry within a month of each other, although the clock is
\* read when a cycle opens and set when it carries.
MonthlyReleases ==
  [][lastReleaseAt' # lastReleaseAt =>
       lastReleaseAt = 0 \/ now >= lastReleaseAt + MIN_RELEASE_INTERVAL]_vars

=============================================================================
