----------------------------- MODULE Operations -----------------------------
(***************************************************************************)
(* The operations vault (contracts/blkfndr-operations): the gas budget the *)
(* owners spend by vote.  One proposal at a time, decided by the owners of *)
(* the moment it opened, applied by anyone once it carried.  A call that   *)
(* panics reverts and is an action that is not enabled.                    *)
(***************************************************************************)
EXTENDS TwoThirds, Totals, Functions, Sequences

CONSTANTS
  People,        \* everyone who is or may become an owner
  Tokens,        \* the tokens the vault may hold
  Destinations,  \* the wallets it may pay, itself not among them
  FirstOwners,   \* the constructor's owners
  Batches,       \* lists of ReleaseTerms somebody may propose; one entry is a Release
  OwnerLists,    \* lists of owners somebody may propose
  Windows,       \* voting windows somebody may propose
  Deposits,      \* sizes of a top-up
  DEFAULT_VOTE_WINDOW, MAX_OWNERS, MAX_RELEASE_BATCH,
  MAX_U64,       \* the largest ledger timestamp; a later one panics
  MaxTime,       \* bound: the clock stops here
  MaxIncome      \* bound: no more than this ever arrives

Genesis == 1

ASSUME OperationsConfig ==
  /\ IsFiniteSet(People) /\ IsFiniteSet(Destinations)
  /\ FirstOwners \in SUBSET People /\ FirstOwners # {}
  /\ Cardinality(FirstOwners) <= MAX_OWNERS
  /\ OwnerLists \subseteq Seq(People)
  /\ Batches \subseteq Seq([token : Tokens, amount : Int, to : Destinations])
  /\ Windows \subseteq Nat /\ Deposits \subseteq Nat
  /\ DEFAULT_VOTE_WINDOW \in Nat \ {0} /\ MAX_OWNERS \in Nat /\ MAX_RELEASE_BATCH \in Nat
  /\ MAX_U64 \in Nat /\ MaxTime \in Nat /\ MaxIncome \in Nat

NoProposal == [action |-> <<"none">>, owners |-> {}, openedAt |-> 0, closesAt |-> 0,
               approvals |-> 0, voters |-> {}]

VARIABLES
  owners,      \* DataKey::Owners
  voteWindow,  \* DataKey::VoteWindow
  proposal,    \* DataKey::Proposal, with who voted on it
  balance,     \* what the vault holds of each token
  now,         \* the ledger timestamp
  paid         \* history: what each destination was paid

vars == <<owners, voteWindow, proposal, balance, now, paid>>

Init ==
  /\ owners = FirstOwners
  /\ voteWindow = DEFAULT_VOTE_WINDOW
  /\ proposal = NoProposal
  /\ balance = [t \in Tokens |-> 0]
  /\ now = Genesis
  /\ paid = [to \in Destinations |-> [t \in Tokens |-> 0]]

Decided == Carried(proposal.approvals, Cardinality(proposal.owners))

ValidOwners(list) == list # <<>> /\ Len(list) <= MAX_OWNERS /\ IsInjective(list)

WellFormed(action) ==
  CASE action[1] = "Release"   -> /\ Len(action[2]) \in 1 .. MAX_RELEASE_BATCH
                                  /\ \A i \in DOMAIN action[2] : action[2][i].amount > 0
    [] action[1] = "SetOwners" -> ValidOwners(action[2])
    [] OTHER                   -> TRUE

\* A carried proposal gives way to the next as an expired one does.
SlotFree == proposal = NoProposal \/ now >= proposal.closesAt \/ Decided

Propose(proposer, action) ==
  /\ WellFormed(action)
  /\ proposer \in owners
  /\ SlotFree
  /\ now + voteWindow <= MAX_U64
  /\ proposal' = [action |-> action, owners |-> owners, openedAt |-> now,
                  closesAt |-> now + voteWindow, approvals |-> 0, voters |-> {}]
  /\ UNCHANGED <<owners, voteWindow, balance, now, paid>>

\* An owner's second approval counts again.
MayVoteAgain(voter) == voter \in proposal.owners

MayVote(voter) == voter \in proposal.owners \ proposal.voters

Approve(voter) ==
  /\ proposal # NoProposal
  /\ now < proposal.closesAt
  /\ ~Decided
  /\ MayVote(voter)
  /\ proposal' = [proposal EXCEPT !.approvals = @ + 1, !.voters = @ \cup {voter}]
  /\ UNCHANGED <<owners, voteWindow, balance, now, paid>>

-----------------------------------------------------------------------------
\* The amounts of a batch that are in one token, and those to one destination.
Due(batch, t) ==
  Total([i \in DOMAIN batch |-> batch[i].amount], {i \in DOMAIN batch : batch[i].token = t})
DueTo(batch, to, t) ==
  Total([i \in DOMAIN batch |-> batch[i].amount],
        {i \in DOMAIN batch : batch[i].token = t /\ batch[i].to = to})

\* Each entry is compared with the balance before the batch.
EachEntryCovered(batch) == \A i \in DOMAIN batch : balance[batch[i].token] >= batch[i].amount

\* The balance is read again before every entry, so it covers them together.
BatchCovered(batch) == \A t \in Tokens : balance[t] >= Due(batch, t)

\* An entry the balance cannot cover is skipped.
PayTheCovered(batch) ==
  LET fits == SelectSeq(batch, LAMBDA terms : balance[terms.token] >= terms.amount)
  IN  /\ balance' = [t \in Tokens |-> balance[t] - Due(fits, t)]
      /\ paid' = [to \in Destinations |-> [t \in Tokens |-> paid[to][t] + DueTo(fits, to, t)]]

Pay(batch) ==
  /\ BatchCovered(batch)
  /\ balance' = [t \in Tokens |-> balance[t] - Due(batch, t)]
  /\ paid' = [to \in Destinations |-> [t \in Tokens |-> paid[to][t] + DueTo(batch, to, t)]]

\* The proposal is cleared before it is run, and kept when it cannot be.
Execute ==
  /\ proposal # NoProposal
  /\ Decided
  /\ LET action == proposal.action
     IN  \/ action[1] = "Release" /\ Pay(action[2]) /\ UNCHANGED <<owners, voteWindow>>
         \/ /\ action[1] = "SetOwners"
            /\ ValidOwners(action[2])
            /\ owners' = Range(action[2])
            /\ UNCHANGED <<voteWindow, balance, paid>>
         \/ /\ action[1] = "SetVotingWindow"
            /\ voteWindow' = action[2]
            /\ UNCHANGED <<owners, balance, paid>>
  /\ proposal' = NoProposal
  /\ UNCHANGED now

Income(t) == balance[t] + Total([to \in Destinations |-> paid[to][t]], Destinations)

\* The treasury's operations funding, or anybody's transfer.
TopUp(t, amount) ==
  /\ Income(t) + amount <= MaxIncome
  /\ balance' = [balance EXCEPT ![t] = @ + amount]
  /\ UNCHANGED <<owners, voteWindow, proposal, now, paid>>

Tick ==
  /\ now < MaxTime
  /\ now' = now + 1
  /\ UNCHANGED <<owners, voteWindow, proposal, balance, paid>>

ProposeAny == \E p \in People :
  \/ \E batch \in Batches : Propose(p, <<"Release", batch>>)
  \/ \E list \in OwnerLists : Propose(p, <<"SetOwners", list>>)
  \/ \E secs \in Windows : Propose(p, <<"SetVotingWindow", secs>>)

Next ==
  \/ ProposeAny
  \/ \E p \in People : Approve(p)
  \/ Execute
  \/ \E t \in Tokens, amount \in Deposits : TopUp(t, amount)
  \/ Tick

Spec == Init /\ [][Next]_vars

-----------------------------------------------------------------------------
(***************************************************************************)
(* Properties                                                              *)
(***************************************************************************)

\* Every variable has its type; no balance goes below zero, there is always an
\* owner, and never more than MAX_OWNERS.
TypeOK ==
  /\ owners \in SUBSET People /\ owners # {} /\ Cardinality(owners) <= MAX_OWNERS
  /\ voteWindow \in Nat
  /\ balance \in [Tokens -> Nat] /\ paid \in [Destinations -> [Tokens -> Nat]]
  /\ now \in Nat
  /\ proposal.owners \in SUBSET People
  /\ proposal.voters \in SUBSET proposal.owners
  /\ proposal.approvals \in Nat /\ proposal.closesAt \in Nat

\* Money leaves only for the destinations and in the amounts of the one
\* proposal being applied, all of them or none, and that proposal is then gone:
\* a carried vote pays once.
PaysTheMandateOnce ==
  [][paid' # paid =>
       /\ proposal' = NoProposal
       /\ \A to \in Destinations, t \in Tokens :
            paid'[to][t] - paid[to][t] = DueTo(proposal.action[2], to, t)
       /\ \A t \in Tokens : balance[t] - balance'[t] = Due(proposal.action[2], t)]_vars

\* A stalled vote never wedges the vault: every proposal is opened with some
\* time to vote on it.
VoteCanBeHeld == proposal # NoProposal => proposal.openedAt < proposal.closesAt

\* The vault's money moves only between it and the destinations it pays: all it
\* ever had changes by a transfer to it, never by a payment, however the batch
\* is split over tokens and wallets (run_action's Release).
PaymentsConserveMoney ==
  [][\A t \in Tokens : Income(t)' # Income(t) => \E amount \in Deposits : TopUp(t, amount)]_vars

\* Whatever two sets of owners carried a vote, a third of all the owners are in
\* both: two contradictory proposals need somebody who approved both
\* (carried).
MandatesOverlap ==
  \A asked \in SUBSET People :
    \A one, other \in SUBSET asked :
      /\ Carried(Cardinality(one), Cardinality(asked))
      /\ Carried(Cardinality(other), Cardinality(asked))
      => 3 * Cardinality(one \cap other) >= Cardinality(asked)

=============================================================================
