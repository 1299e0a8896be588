-------------------------- MODULE OperationsProofs --------------------------
(***************************************************************************)
(* Safety of the operations vault for every set of people, tokens, batches *)
(* and voting windows.                                                     *)
(***************************************************************************)
EXTENDS OperationsMandate, TotalTheorems, SequenceTheorems

ActionType ==
  {<<"none">>}
  \cup {<<"Release", batch>> : batch \in Batches}
  \cup {<<"SetOwners", list>> : list \in OwnerLists}
  \cup {<<"SetVotingWindow", secs>> : secs \in Windows}

ProposalType ==
  [action : ActionType, owners : SUBSET People, openedAt : Nat, closesAt : Nat,
   approvals : Nat, voters : SUBSET People]

(***************************************************************************)
(* The inductive invariant: the proposal in the slot asks the present      *)
(* owners, its counter counts, and what it asks was checked.               *)
(***************************************************************************)
IInv ==
  /\ TypeOK
  /\ proposal \in ProposalType
  /\ proposal # NoProposal => proposal.owners = owners
  /\ proposal.approvals = Cardinality(proposal.voters)
  /\ WellFormed(proposal.action)

\* What the argument of a governed action is.
LEMMA ActionArgument ==
  ASSUME NEW action \in ActionType
  PROVE  /\ action[1] = "Release" => action[2] \in Batches
         /\ action[1] = "SetOwners" => action[2] \in OwnerLists
         /\ action[1] = "SetVotingWindow" => action[2] \in Windows
BY DEF ActionType

\* The sums of a well-formed batch are naturals.
LEMMA DueType ==
  ASSUME NEW batch \in Batches, WellFormed(<<"Release", batch>>), NEW t, NEW to
  PROVE  Due(batch, t) \in Nat /\ DueTo(batch, to, t) \in Nat
<1> DEFINE amounts == [i \in DOMAIN batch |-> batch[i].amount]
           inToken == {i \in DOMAIN batch : batch[i].token = t}
           toOne   == {i \in DOMAIN batch : batch[i].token = t /\ batch[i].to = to}
<1>1. batch \in Seq([token : Tokens, amount : Int, to : Destinations])
  BY OperationsConfig
<1>2. DOMAIN batch = 1 .. Len(batch) /\ Len(batch) \in Nat
  BY <1>1, LenProperties
<1>3. \A i \in DOMAIN batch : batch[i].amount \in Int
  <2> DEFINE Terms_ == [token : Tokens, amount : Int, to : Destinations]
  <2>1. \A terms \in Terms_ : terms.amount \in Int
    OBVIOUS
  <2>2. batch \in Seq(Terms_)
    BY <1>1
  <2> HIDE DEF Terms_
  <2>3. \A i \in DOMAIN batch : batch[i] \in Terms_
    BY <1>2, <2>2, ElementOfSeq
  <2> QED
    BY <2>1, <2>3
<1>4. \A i \in DOMAIN batch : batch[i].amount > 0
  BY DEF WellFormed
<1>5. \A i \in DOMAIN batch : amounts[i] \in Nat
  BY <1>3, <1>4
<1>6. IsFiniteSet(inToken) /\ IsFiniteSet(toOne)
  <2>1. IsFiniteSet(DOMAIN batch)
    BY <1>2, FS_Interval
  <2> QED
    BY <2>1, FS_Subset
<1> HIDE DEF amounts
<1>7. Total(amounts, inToken) \in Nat /\ Total(amounts, toOne) \in Nat
  BY <1>5, <1>6, TotalType
<1> QED
  BY <1>7 DEF Due, DueTo, amounts

\* An approval keeps the count of a vote exact.
LEMMA CountedOnce ==
  ASSUME NEW voters \in SUBSET People, NEW voter \in People \ voters
  PROVE  Cardinality(voters \cup {voter}) = Cardinality(voters) + 1
<1>1. IsFiniteSet(voters)
  BY OperationsConfig, FS_Subset
<1> QED
  BY <1>1, FS_AddElement, FS_CardinalityType

LEMMA NothingProposed ==
  /\ NoProposal \in ProposalType /\ WellFormed(NoProposal.action)
  /\ NoProposal.owners = {} /\ NoProposal.voters = {} /\ NoProposal.approvals = 0
BY DEF NoProposal, ProposalType, ActionType, WellFormed

\* Distinct owners are as many as the list that names them.
LEMMA ListedOwners ==
  ASSUME NEW list \in OwnerLists, ValidOwners(list)
  PROVE  /\ Range(list) \in SUBSET People /\ Range(list) # {}
         /\ Cardinality(Range(list)) <= MAX_OWNERS
<1>1. list \in Seq(People)
  BY OperationsConfig
<1>2. /\ DOMAIN list = 1 .. Len(list) /\ Len(list) \in Nat
      /\ list \in [1 .. Len(list) -> People]
  BY <1>1, LenProperties
<1>3. Len(list) # 0 /\ Len(list) <= MAX_OWNERS
  BY <1>1, EmptySeq DEF ValidOwners
<1>4. Range(list) \in SUBSET People /\ Range(list) # {}
  <2>1. 1 \in DOMAIN list
    BY <1>2, <1>3
  <2> QED
    BY <1>2, <2>1 DEF Range
<1>5. Cardinality(Range(list)) <= Len(list)
  <2>1. list \in Surjection(1 .. Len(list), Range(list))
    BY <1>2 DEF Surjection, Range
  <2>2. IsFiniteSet(1 .. Len(list)) /\ Cardinality(1 .. Len(list)) = Len(list)
    BY <1>2, FS_Interval
  <2> QED
    BY <2>1, <2>2, FS_Surjection
<1>6. Cardinality(Range(list)) \in Nat
  <2>1. IsFiniteSet(Range(list))
    BY <1>4, OperationsConfig, FS_Subset
  <2> QED
    BY <2>1, FS_CardinalityType
<1> QED
  BY <1>2, <1>3, <1>4, <1>5, <1>6, OperationsConfig

-----------------------------------------------------------------------------
(***************************************************************************)
(* The calls                                                               *)
(***************************************************************************)

\* Every action somebody may propose is one the vault knows.
LEMMA ProposedActionType ==
  /\ \A batch \in Batches : <<"Release", batch>> \in ActionType
  /\ \A list \in OwnerLists : <<"SetOwners", list>> \in ActionType
  /\ \A secs \in Windows : <<"SetVotingWindow", secs>> \in ActionType
BY DEF ActionType

LEMMA ProposeStep ==
  ASSUME IInv, NEW p \in People, NEW action \in ActionType, Propose(p, action)
  PROVE  IInv'
<1>1. /\ WellFormed(action)
      /\ proposal' = [action |-> action, owners |-> owners, openedAt |-> now,
                      closesAt |-> now + voteWindow, approvals |-> 0, voters |-> {}]
      /\ UNCHANGED <<owners, voteWindow, balance, now, paid>>
  BY DEF Propose
<1>2. now \in Nat /\ now + voteWindow \in Nat
  BY DEF IInv, TypeOK
<1>3. proposal' \in ProposalType
  BY <1>1, <1>2 DEF ProposalType, IInv, TypeOK
<1>4. TypeOK'
  BY <1>1, <1>2 DEF IInv, TypeOK
<1> QED
  BY <1>1, <1>3, <1>4, FS_EmptySet DEF IInv

LEMMA ApproveStep ==
  ASSUME IInv, NEW p \in People, Approve(p)
  PROVE  /\ IInv'
         /\ proposal'.voters = proposal.voters \cup {p}
         /\ proposal'.owners = proposal.owners
<1> DEFINE n   == proposal.approvals + 1
           who == proposal.voters \cup {p}
<1>1. /\ proposal # NoProposal /\ p \in proposal.owners \ proposal.voters
      /\ proposal' = [proposal EXCEPT !.approvals = n, !.voters = who]
      /\ UNCHANGED <<owners, voteWindow, balance, now, paid>>
  BY DEF Approve, MayVote
<1>2. proposal \in ProposalType /\ proposal.voters \in SUBSET People /\ proposal.approvals \in Nat
  BY DEF IInv, ProposalType
<1>3. n \in Nat /\ who \in SUBSET People
  BY <1>2
<1>4. Cardinality(who) = n
  BY <1>1, <1>2, CountedOnce DEF IInv
<1>5. who \in SUBSET proposal.owners
  BY <1>1 DEF IInv, TypeOK
<1> HIDE DEF n, who
<1>6. /\ proposal' \in ProposalType /\ proposal'.approvals = n /\ proposal'.voters = who
      /\ proposal'.owners = proposal.owners /\ proposal'.action = proposal.action
      /\ proposal'.closesAt = proposal.closesAt
  BY <1>1, <1>2, <1>3 DEF ProposalType
<1>7. TypeOK'
  BY <1>1, <1>3, <1>5, <1>6 DEF IInv, TypeOK
<1> QED
  BY <1>1, <1>4, <1>6, <1>7 DEF IInv, who

\* The carried proposal is a batch of payments.
ExecuteRelease == Execute /\ proposal.action[1] = "Release" /\ Pay(proposal.action[2])

\* A batch is paid whole, in the amounts it names, and nothing else is.
LEMMA PayStep ==
  ASSUME IInv, ExecuteRelease
  PROVE  /\ balance' \in [Tokens -> Nat] /\ paid' \in [Destinations -> [Tokens -> Nat]]
         /\ \A to \in Destinations, t \in Tokens :
              paid'[to][t] - paid[to][t] = DueTo(proposal.action[2], to, t)
         /\ \A t \in Tokens : balance[t] - balance'[t] = Due(proposal.action[2], t)
<1> DEFINE batch == proposal.action[2]
<1>1. batch \in Batches /\ WellFormed(<<"Release", batch>>)
  BY ActionArgument DEF IInv, ProposalType, ExecuteRelease, WellFormed
<1>2. /\ BatchCovered(batch)
      /\ balance' = [t \in Tokens |-> balance[t] - Due(batch, t)]
      /\ paid' = [to \in Destinations |-> [t \in Tokens |-> paid[to][t] + DueTo(batch, to, t)]]
  BY DEF ExecuteRelease, Pay
<1> HIDE DEF batch
<1>3. \A t \in Tokens : balance[t] \in Nat /\ balance[t] >= Due(batch, t) /\ Due(batch, t) \in Nat
  BY <1>1, <1>2, DueType DEF IInv, TypeOK, BatchCovered
<1>4. \A to \in Destinations, t \in Tokens : paid[to][t] \in Nat /\ DueTo(batch, to, t) \in Nat
  BY <1>1, DueType DEF IInv, TypeOK
<1>5. \A t \in Tokens : balance[t] - Due(batch, t) \in Nat
  BY <1>3
<1>6. \A to \in Destinations, t \in Tokens : paid[to][t] + DueTo(batch, to, t) \in Nat
  BY <1>4
<1>7. balance' \in [Tokens -> Nat] /\ paid' \in [Destinations -> [Tokens -> Nat]]
  BY <1>2, <1>5, <1>6
<1>8. \A t \in Tokens : balance[t] - balance'[t] = Due(batch, t)
  BY <1>2, <1>3
<1>9. \A to \in Destinations, t \in Tokens : paid'[to][t] - paid[to][t] = DueTo(batch, to, t)
  BY <1>2, <1>4
<1> QED
  BY <1>7, <1>8, <1>9 DEF batch

\* What was voted is applied as it was checked when it was proposed, and the
\* slot is empty again.
LEMMA ExecuteStep ==
  ASSUME IInv, Execute
  PROVE  IInv'
<1> DEFINE action == proposal.action
<1>1. action \in ActionType /\ WellFormed(action)
  BY DEF IInv, ProposalType
<1>2. proposal' = NoProposal /\ now' = now
  BY DEF Execute
<1>3. /\ proposal' \in ProposalType /\ WellFormed(proposal'.action)
      /\ proposal'.owners = {} /\ proposal'.voters = {} /\ proposal'.approvals = 0
      /\ proposal'.closesAt \in Nat
  BY <1>2, NothingProposed DEF ProposalType
<1>4. /\ owners' \in SUBSET People /\ owners' # {} /\ Cardinality(owners') <= MAX_OWNERS
      /\ voteWindow' \in Nat
      /\ balance' \in [Tokens -> Nat] /\ paid' \in [Destinations -> [Tokens -> Nat]]
  <2>1. CASE action[1] = "Release" /\ Pay(action[2]) /\ UNCHANGED <<owners, voteWindow>>
    <3>1. ExecuteRelease
      BY <2>1 DEF ExecuteRelease
    <3> QED
      BY <2>1, <3>1, PayStep DEF IInv, TypeOK
  <2>2. CASE action[1] = "SetOwners" /\ ValidOwners(action[2]) /\ owners' = Range(action[2])
             /\ UNCHANGED <<voteWindow, balance, paid>>
    <3>1. action[2] \in OwnerLists /\ ValidOwners(action[2])
      BY <1>1, <2>2, ActionArgument DEF WellFormed
    <3> QED
      BY <2>2, <3>1, ListedOwners DEF IInv, TypeOK
  <2>3. CASE action[1] = "SetVotingWindow" /\ voteWindow' = action[2]
             /\ UNCHANGED <<owners, balance, paid>>
    <3>1. action[2] \in Nat
      BY <1>1, <2>3, ActionArgument, OperationsConfig
    <3> QED
      BY <2>3, <3>1 DEF IInv, TypeOK
  <2> QED
    BY <2>1, <2>2, <2>3 DEF Execute
<1>5. TypeOK'
  BY <1>2, <1>3, <1>4 DEF IInv, TypeOK
<1> QED
  BY <1>2, <1>3, <1>5, FS_EmptySet DEF IInv

\* Income and the clock leave the vote alone.
LEMMA WorldStep ==
  ASSUME IInv, (\E t \in Tokens, amount \in Deposits : TopUp(t, amount)) \/ Tick \/ UNCHANGED vars
  PROVE  IInv' /\ UNCHANGED <<owners, voteWindow, proposal, paid>>
<1>1. UNCHANGED <<owners, voteWindow, proposal, paid>>
  BY DEF TopUp, Tick, vars
<1>2. balance' \in [Tokens -> Nat] /\ now' \in Nat
  <2>1. ASSUME NEW t \in Tokens, NEW amount \in Deposits, TopUp(t, amount)
        PROVE  balance' \in [Tokens -> Nat] /\ now' \in Nat
    <3>1. amount \in Nat
      BY OperationsConfig
    <3> QED
      BY <2>1, <3>1 DEF TopUp, IInv, TypeOK
  <2>2. CASE Tick
    BY <2>2 DEF Tick, IInv, TypeOK
  <2>3. CASE UNCHANGED vars
    BY <2>3 DEF vars, IInv, TypeOK
  <2> QED
    BY <2>1, <2>2, <2>3
<1>3. TypeOK'
  BY <1>1, <1>2 DEF IInv, TypeOK
<1> QED
  BY <1>1, <1>3 DEF IInv

-----------------------------------------------------------------------------
(***************************************************************************)
(* The theorems                                                            *)
(***************************************************************************)

LEMMA InitInvariant == Init => IInv
<1> SUFFICES ASSUME Init PROVE IInv
  OBVIOUS
<1>1. proposal.closesAt = 0
  BY DEF Init, NoProposal
<1>2. TypeOK
  BY <1>1, NothingProposed, OperationsConfig DEF Init, TypeOK, Genesis
<1> QED
  BY <1>2, NothingProposed, FS_EmptySet DEF Init, IInv

LEMMA NextInvariant == IInv /\ [Next]_vars => IInv'
<1> SUFFICES ASSUME IInv, [Next]_vars PROVE IInv'
  OBVIOUS
<1>1. CASE ProposeAny
  <2>1. PICK p \in People, action \in ActionType : Propose(p, action)
    BY <1>1, ProposedActionType DEF ProposeAny
  <2> QED
    BY <2>1, ProposeStep
<1>2. ASSUME NEW p \in People, Approve(p) PROVE IInv'
  BY <1>2, ApproveStep
<1>3. CASE Execute
  BY <1>3, ExecuteStep
<1>4. CASE (\E t \in Tokens, amount \in Deposits : TopUp(t, amount)) \/ Tick \/ UNCHANGED vars
  BY <1>4, WorldStep
<1> QED
  BY <1>1, <1>2, <1>3, <1>4 DEF Next

THEOREM Invariant == Spec => []IInv
BY InitInvariant, NextInvariant, PTL DEF Spec

\* The operations vault is type correct: no batch overdraws a balance, and
\* there is always an owner to vote.
THEOREM TypeCorrect == Spec => []TypeOK
<1>1. IInv => TypeOK
  BY DEF IInv
<1> QED
  BY <1>1, Invariant, PTL

\* Money leaves only as the carried proposal says, whole, and only once.
THEOREM PaysOnce == Spec => PaysTheMandateOnce
<1> DEFINE AsMandated == paid' # paid =>
             /\ proposal' = NoProposal
             /\ \A to \in Destinations, t \in Tokens :
                  paid'[to][t] - paid[to][t] = DueTo(proposal.action[2], to, t)
             /\ \A t \in Tokens : balance[t] - balance'[t] = Due(proposal.action[2], t)
<1>1. IInv /\ [Next]_vars => [AsMandated]_vars
  <2> SUFFICES ASSUME IInv, Next, paid' # paid PROVE AsMandated
    OBVIOUS
  <2>1. Execute
    BY DEF Next, ProposeAny, Propose, Approve, TopUp, Tick
  <2>2. ExecuteRelease
    BY <2>1 DEF Execute, ExecuteRelease
  <2>3. proposal' = NoProposal
    BY <2>1 DEF Execute
  <2> QED
    BY <2>2, <2>3, PayStep
<1> QED
  BY <1>1, Invariant, PTL DEF Spec, PaysTheMandateOnce

\* The vote the vault counts is the one the mandate counts.
LEMMA SameDecision ==
  ASSUME IInv
  PROVE  Decided <=> Promise!Decided
<1>1. proposal.approvals = Cardinality(proposal.voters)
  BY DEF IInv
<1>2. Promise!Decided <=> Carried(Cardinality(proposal.voters), Cardinality(proposal.owners))
  BY DEF Promise!Decided, Promise!Carried, Carried, Promise!Cardinality, Cardinality,
         APPROVAL_NUMERATOR, APPROVAL_DENOMINATOR,
         Promise!APPROVAL_NUMERATOR, Promise!APPROVAL_DENOMINATOR
<1> QED
  BY <1>1, <1>2 DEF Decided

\* Every call of the vault is a step of the mandate, or none of its business.
LEMMA StepImplements == IInv /\ IInv' /\ [Next]_vars => [Promise!Next]_Promise!vars
<1> SUFFICES ASSUME IInv, IInv', [Next]_vars PROVE [Promise!Next]_Promise!vars
  OBVIOUS
<1>1. ASSUME NEW p \in People, NEW action, Propose(p, action) PROVE Promise!Next
  <2>1. Promise!Open
    BY <1>1 DEF Propose, Promise!Open
  <2> QED
    BY <2>1 DEF Promise!Next
<1>2. ASSUME NEW p \in People, Approve(p) PROVE Promise!Next
  <2>1. p \in proposal.owners \ proposal.voters /\ ~Promise!Decided
    BY <1>2, SameDecision DEF Approve, MayVote
  <2>2. proposal'.voters = proposal.voters \cup {p} /\ proposal'.owners = proposal.owners
    BY <1>2, ApproveStep
  <2>3. UNCHANGED <<owners, voteWindow, paid>>
    BY <1>2 DEF Approve
  <2>4. Promise!Approve(p)
    BY <2>1, <2>2, <2>3 DEF Promise!Approve
  <2> QED
    BY <2>4 DEF Promise!Next
<1>3. ASSUME Execute PROVE Promise!Next
  <2>1. proposal.owners = owners /\ Promise!Decided
    BY <1>3, SameDecision DEF Execute, IInv
  <2>2. proposal'.owners = {} /\ proposal'.voters = {}
    BY <1>3, NothingProposed DEF Execute
  <2>3. owners' \in (SUBSET People) \ {{}}
    BY DEF IInv, TypeOK
  <2>4. Promise!Apply
    BY <2>1, <2>2, <2>3 DEF Promise!Apply
  <2> QED
    BY <2>4 DEF Promise!Next
<1>4. CASE (\E t \in Tokens, amount \in Deposits : TopUp(t, amount)) \/ Tick \/ UNCHANGED vars
  <2>1. UNCHANGED <<owners, voteWindow, proposal, paid>>
    BY <1>4, WorldStep
  <2> QED
    BY <2>1 DEF Promise!vars
<1> QED
  BY <1>1, <1>2, <1>3, <1>4 DEF Next, ProposeAny

\* The owners, the voting window and the payments change only by a proposal that
\* two thirds of the present owners approved, each of them once.
THEOREM GovernsByMandate == Spec => ImplementsMandate
<1>1. Init => Promise!Init
  BY NothingProposed, OperationsConfig DEF Init, Promise!Init
<1> QED
  BY <1>1, Invariant, StepImplements, PTL DEF Spec, ImplementsMandate, Promise!Spec

-----------------------------------------------------------------------------
(***************************************************************************)
(* Money                                                                   *)
(***************************************************************************)

\* What a batch pays the destinations in one token is what it is due in it.
LEMMA DuesByDestination ==
  ASSUME NEW batch \in Batches, WellFormed(<<"Release", batch>>), NEW t \in Tokens
  PROVE  Total([to \in Destinations |-> DueTo(batch, to, t)], Destinations) = Due(batch, t)
<1> DEFINE amounts == [i \in DOMAIN batch |-> batch[i].amount]
           wallet  == [i \in DOMAIN batch |-> batch[i].to]
           entries == {i \in DOMAIN batch : batch[i].token = t}
           Terms_  == [token : Tokens, amount : Int, to : Destinations]
<1>1. batch \in Seq(Terms_)
  BY OperationsConfig
<1>2. DOMAIN batch = 1 .. Len(batch) /\ Len(batch) \in Nat
  BY <1>1, LenProperties
<1>3. \A i \in DOMAIN batch : batch[i] \in Terms_
  <2> HIDE DEF Terms_
  <2> QED
    BY <1>1, <1>2, ElementOfSeq
<1>4. \A i \in DOMAIN batch : batch[i].amount \in Int /\ batch[i].to \in Destinations
  <2>1. \A terms \in Terms_ : terms.amount \in Int /\ terms.to \in Destinations
    OBVIOUS
  <2> HIDE DEF Terms_
  <2> QED
    BY <1>3, <2>1
<1>5. \A i \in entries : amounts[i] \in Nat
  <2>1. \A i \in DOMAIN batch : batch[i].amount > 0
    BY DEF WellFormed
  <2> QED
    BY <1>4, <2>1
<1>6. IsFiniteSet(entries)
  <2>1. IsFiniteSet(DOMAIN batch)
    BY <1>2, FS_Interval
  <2> QED
    BY <2>1, FS_Subset
<1>7. \A i \in entries : wallet[i] \in Destinations
  BY <1>4
<1>8. \A to : {i \in entries : wallet[i] = to} = {i \in DOMAIN batch : batch[i].token = t /\ batch[i].to = to}
  OBVIOUS
<1>9. IsFiniteSet(Destinations)
  BY OperationsConfig
<1> DEFINE byWallet == [to \in Destinations |-> Total(amounts, {i \in entries : wallet[i] = to})]
<1>10. byWallet = [to \in Destinations |-> DueTo(batch, to, t)]
  <2>1. \A to \in Destinations : byWallet[to] = DueTo(batch, to, t)
    BY <1>8 DEF DueTo
  <2> QED
    BY <2>1
<1>11. Due(batch, t) = Total(amounts, entries)
  BY DEF Due
<1>12. Total(byWallet, Destinations) = Total(amounts, entries)
  <2> HIDE DEF amounts, wallet, entries, Terms_
  <2> QED
    BY <1>5, <1>6, <1>7, <1>9, TotalByClass
<1> QED
  BY <1>10, <1>11, <1>12

\* A batch moves money and makes none.
LEMMA PayingKeepsIncome ==
  ASSUME IInv, ExecuteRelease, NEW t \in Tokens
  PROVE  Income(t)' = Income(t)
<1> DEFINE batch  == proposal.action[2]
           before == [to \in Destinations |-> paid[to][t]]
           after  == [to \in Destinations |-> paid'[to][t]]
           dues   == [to \in Destinations |-> DueTo(batch, to, t)]
<1>1. batch \in Batches /\ WellFormed(<<"Release", batch>>)
  BY ActionArgument DEF IInv, ProposalType, ExecuteRelease, WellFormed
<1>2. \A to \in Destinations : DueTo(batch, to, t) \in Nat /\ Due(batch, t) \in Nat
  BY <1>1, DueType
<1>3. \A to \in Destinations :
        before[to] \in Nat /\ dues[to] \in Nat /\ after[to] = before[to] + dues[to]
  <2> TAKE to \in Destinations
  <2>1. paid[to][t] \in Nat /\ paid'[to][t] \in Nat
    BY PayStep DEF IInv, TypeOK
  <2>2. paid'[to][t] - paid[to][t] = DueTo(batch, to, t)
    BY PayStep
  <2>3. before[to] = paid[to][t] /\ after[to] = paid'[to][t] /\ dues[to] = DueTo(batch, to, t)
    OBVIOUS
  <2> HIDE DEF before, after, dues, batch
  <2> QED
    BY <1>2, <2>1, <2>2, <2>3
<1>4. IsFiniteSet(Destinations)
  BY OperationsConfig
<1>5. Total(dues, Destinations) = Due(batch, t)
  BY <1>1, DuesByDestination
<1>6. balance[t] - balance'[t] = Due(batch, t) /\ balance[t] \in Nat /\ balance'[t] \in Nat
  BY PayStep DEF IInv, TypeOK
<1>7. Income(t) = balance[t] + Total(before, Destinations)
  BY DEF Income
<1>8. Income(t)' = balance'[t] + Total(after, Destinations)
  BY DEF Income
<1> HIDE DEF before, after, dues, batch
<1>9. Total(after, Destinations) = Total(before, Destinations) + Total(dues, Destinations)
  BY <1>3, <1>4, TotalAdds
<1>10. Total(before, Destinations) \in Nat /\ Total(dues, Destinations) \in Nat
  BY <1>3, <1>4, TotalType
<1> QED
  BY <1>5, <1>6, <1>7, <1>8, <1>9, <1>10

\* All the vault ever had changes only by a transfer to it.
THEOREM PaymentsConserve == Spec => PaymentsConserveMoney
<1> DEFINE Conserved == \A t \in Tokens :
             Income(t)' # Income(t) => \E amount \in Deposits : TopUp(t, amount)
<1>1. IInv /\ [Next]_vars => [Conserved]_vars
  <2> SUFFICES ASSUME IInv, Next, NEW t \in Tokens, Income(t)' # Income(t)
               PROVE  \E amount \in Deposits : TopUp(t, amount)
    OBVIOUS
  <2>1. ~ UNCHANGED <<balance, paid>>
    BY DEF Income
  <2>2. ASSUME NEW other \in Tokens, NEW amount \in Deposits, TopUp(other, amount)
        PROVE  other = t
    <3>1. other # t => balance'[t] = balance[t] /\ paid' = paid
      BY <2>2 DEF TopUp, IInv, TypeOK
    <3> QED
      BY <3>1 DEF Income
  <2>3. ~Execute
    <3>1. ~ExecuteRelease
      BY PayingKeepsIncome
    <3> QED
      BY <2>1, <3>1 DEF Execute, ExecuteRelease
  <2>4. ~ProposeAny /\ ~(\E p \in People : Approve(p)) /\ ~Tick
    BY <2>1 DEF ProposeAny, Propose, Approve, Tick
  <2> QED
    BY <2>2, <2>3, <2>4 DEF Next
<1> QED
  BY <1>1, Invariant, PTL DEF Spec, PaymentsConserveMoney

-----------------------------------------------------------------------------
(***************************************************************************)
(* Votes                                                                   *)
(***************************************************************************)

\* Two carried votes of one electorate have a third of it in common.
THEOREM CarriedVotesOverlap == MandatesOverlap
<1> SUFFICES ASSUME NEW asked \in SUBSET People,
                    NEW one \in SUBSET asked, NEW other \in SUBSET asked,
                    Carried(Cardinality(one), Cardinality(asked)),
                    Carried(Cardinality(other), Cardinality(asked))
             PROVE  3 * Cardinality(one \cap other) >= Cardinality(asked)
  BY DEF MandatesOverlap
<1>1. IsFiniteSet(asked)
  BY OperationsConfig, FS_Subset
<1>2. IsFiniteSet(one) /\ IsFiniteSet(other) /\ IsFiniteSet(one \cap other)
  BY <1>1, FS_Subset
<1>3. Cardinality(one \cup other)
        = Cardinality(one) + Cardinality(other) - Cardinality(one \cap other)
  BY <1>2, FS_Union
<1>4. Cardinality(one \cup other) <= Cardinality(asked)
  <2>1. one \cup other \in SUBSET asked
    OBVIOUS
  <2> QED
    BY <1>1, <2>1, FS_Subset
<1>5. /\ Cardinality(one) \in Nat /\ Cardinality(other) \in Nat
      /\ Cardinality(one \cap other) \in Nat /\ Cardinality(asked) \in Nat
  BY <1>1, <1>2, FS_CardinalityType
<1>6. 3 * Cardinality(one) >= 2 * Cardinality(asked) /\ 3 * Cardinality(other) >= 2 * Cardinality(asked)
  BY <1>5 DEF Carried, APPROVAL_NUMERATOR, APPROVAL_DENOMINATOR
<1> QED
  BY <1>3, <1>4, <1>5, <1>6

\* Where nobody proposes a voting window of no seconds, every proposal is
\* opened with some time to vote on it: the vault is wedged by that window and
\* by nothing else.
THEOREM OnlyAnEmptyWindowWedges ==
  ASSUME 0 \notin Windows
  PROVE  Spec => []VoteCanBeHeld
<1> DEFINE Lasting == IInv /\ voteWindow # 0 /\ VoteCanBeHeld
<1>1. Init => Lasting
  BY InitInvariant, OperationsConfig DEF Init, VoteCanBeHeld
<1>2. Lasting /\ [Next]_vars => Lasting'
  <2> SUFFICES ASSUME Lasting, [Next]_vars PROVE voteWindow' # 0 /\ VoteCanBeHeld'
    BY NextInvariant
  <2>1. ASSUME NEW p \in People, NEW action, Propose(p, action)
        PROVE  voteWindow' # 0 /\ VoteCanBeHeld'
    <3>1. proposal'.openedAt = now /\ proposal'.closesAt = now + voteWindow /\ voteWindow' = voteWindow
      BY <2>1 DEF Propose
    <3>2. now < now + voteWindow
      BY DEF IInv, TypeOK
    <3> QED
      BY <3>1, <3>2 DEF VoteCanBeHeld
  <2>2. ASSUME NEW p \in People, Approve(p)
        PROVE  voteWindow' # 0 /\ VoteCanBeHeld'
    <3>1. proposal'.openedAt = proposal.openedAt /\ proposal'.closesAt = proposal.closesAt
      BY <2>2 DEF Approve, IInv, ProposalType
    <3>2. proposal # NoProposal /\ voteWindow' = voteWindow
      BY <2>2 DEF Approve
    <3> QED
      BY <3>1, <3>2 DEF VoteCanBeHeld
  <2>3. CASE Execute
    <3>1. voteWindow' = voteWindow
          \/ (proposal.action[1] = "SetVotingWindow" /\ voteWindow' = proposal.action[2])
      BY <2>3 DEF Execute
    <3>2. proposal.action[1] = "SetVotingWindow" => proposal.action[2] \in Windows
      BY ActionArgument DEF IInv, ProposalType
    <3>3. proposal' = NoProposal
      BY <2>3 DEF Execute
    <3> QED
      BY <3>1, <3>2, <3>3 DEF VoteCanBeHeld
  <2>4. CASE (\E t \in Tokens, amount \in Deposits : TopUp(t, amount)) \/ Tick \/ UNCHANGED vars
    BY <2>4 DEF TopUp, Tick, vars, VoteCanBeHeld
  <2> QED
    BY <2>1, <2>2, <2>3, <2>4 DEF Next, ProposeAny
<1>3. Lasting => VoteCanBeHeld
  OBVIOUS
<1> QED
  BY <1>1, <1>2, <1>3, PTL DEF Spec

=============================================================================
