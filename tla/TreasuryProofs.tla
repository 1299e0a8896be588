--------------------------- MODULE TreasuryProofs ---------------------------
(***************************************************************************)
(* Safety of the treasury for every set of people, tokens, registers and   *)
(* governed actions, every fee, and every voting window and interval.      *)
(***************************************************************************)
EXTENDS TreasuryMandate, TotalTheorems, SequenceTheorems

(***************************************************************************)
(* The inductive invariant.  That the treasury covers what it reserved is  *)
(* not inductive: the last claim frees the remainder of the cycle, which   *)
(* covers that claimant only because the truncated shares of the others    *)
(* left enough, and an approval reserves money that only the live vote     *)
(* kept from the operations funding.                                       *)
(***************************************************************************)

\* One cycle, whatever happens to the others: its counters count, it pays on a
\* mandate only, and what is left of it is worth the shares not yet claimed.
CycleInv(cycle) ==
  /\ ValidRegister(cycle.roster)
  /\ cycle.voters \subseteq Holders(cycle.roster)
  /\ cycle.approvals = Cardinality(cycle.voters)
  /\ cycle.claimants \subseteq Holders(cycle.roster)
  /\ cycle.claims = Cardinality(cycle.claimants)
  /\ IF cycle.state = "Payable" THEN Decided(cycle) ELSE cycle.claimants = {}
  /\ (cycle.amount - Paid(cycle)) * BPS_TOTAL
       >= cycle.amount * Total(cycle.roster, People \ cycle.claimants)

\* The proposal in the slot asks the present shareholders, and what it asks was
\* checked.
ProposalInv ==
  /\ proposal # NoProposal => proposal.roster = shareholders
  /\ proposal.voters \subseteq Holders(proposal.roster)
  /\ proposal.approvals = Cardinality(proposal.voters)
  /\ WellFormed(proposal.action)
  /\ opsFunding.bps <= BPS_TOTAL

IInv ==
  /\ TypeOK
  /\ \A id \in DOMAIN cycles : CycleInv(cycles[id])
  /\ ProposalInv
  /\ OneLiveVote
  /\ SlotTaken => MonthSince(lastReleaseAt)
  /\ ReservedExact
  /\ Covered

-----------------------------------------------------------------------------
(***************************************************************************)
(* Arithmetic of one share                                                 *)
(***************************************************************************)

\* A share in basis points is at most the exact product, and no more than the
\* whole when the points are no more than the whole.
LEMMA ShareBound ==
  ASSUME NEW amount \in Nat, NEW bps \in Nat
  PROVE  /\ Share(amount, bps) \in Nat
         /\ Share(amount, bps) * BPS_TOTAL <= amount * bps
<1>1. amount * bps \in Nat
  OBVIOUS
<1> DEFINE product == amount * bps
<1> HIDE DEF product
<1>2. BPS_TOTAL \in Nat \ {0}
  BY TreasuryConfig
<1>3. product \div BPS_TOTAL \in Nat /\ (product \div BPS_TOTAL) * BPS_TOTAL <= product
  BY <1>1, <1>2 DEF product
<1> QED
  BY <1>3 DEF Share, product

\* A common positive factor can be cancelled from a comparison.
LEMMA Cancel ==
  ASSUME NEW x \in Int, NEW y \in Int, NEW k \in Nat \ {0}, x * k >= y * k
  PROVE  x >= y
<1>1. SUFFICES ASSUME y >= x + 1 PROVE FALSE
  OBVIOUS
<1>2. (y - x) * k >= k
  <2>1. y - x - 1 \in Nat
    BY <1>1
  <2>2. (y - x) * k = (y - x - 1) * k + k
    OBVIOUS
  <2>3. (y - x - 1) * k \in Nat
    BY <2>1
  <2> QED
    BY <2>2, <2>3
<1>3. (y - x) * k = y * k - x * k /\ x * k \in Int /\ y * k \in Int
  OBVIOUS
<1> QED
  BY <1>2, <1>3

LEMMA ShareWithinWhole ==
  ASSUME NEW amount \in Nat, NEW bps \in Nat, bps <= BPS_TOTAL
  PROVE  Share(amount, bps) <= amount
<1>1. BPS_TOTAL \in Nat \ {0}
  BY TreasuryConfig
<1>2. amount * BPS_TOTAL >= amount * bps
  <2>1. BPS_TOTAL - bps \in Nat
    BY <1>1
  <2>2. amount * (BPS_TOTAL - bps) \in Nat
    BY <2>1
  <2> QED
    BY <1>1, <2>2
<1> DEFINE share == Share(amount, bps)
<1>3. share \in Nat /\ share * BPS_TOTAL <= amount * bps
  BY ShareBound
<1> HIDE DEF share
<1>4. amount * BPS_TOTAL >= share * BPS_TOTAL
  <2>1. amount * BPS_TOTAL \in Nat /\ share * BPS_TOTAL \in Nat /\ amount * bps \in Nat
    BY <1>1, <1>3
  <2> QED
    BY <2>1, <1>2, <1>3
<1>5. amount >= share
  BY <1>1, <1>3, <1>4, Cancel
<1> QED
  BY <1>3, <1>5 DEF share

-----------------------------------------------------------------------------
(***************************************************************************)
(* One cycle                                                               *)
(***************************************************************************)

\* The truncated payouts are naturals, and so is any sum of them.
LEMMA PaidType ==
  ASSUME NEW cycle \in CycleType
  PROVE  /\ \A p \in People : Payout(cycle, p) \in Nat
         /\ Paid(cycle) \in Nat
         /\ cycle.claimants = {} => Paid(cycle) = 0
<1> DEFINE payouts_ == [p \in People |-> Payout(cycle, p)]
<1>1. cycle.roster \in [People -> Nat] /\ cycle.amount \in Nat /\ cycle.claimants \subseteq People
  BY DEF CycleType
<1>2. \A p \in People : payouts_[p] \in Nat
  BY <1>1, ShareBound DEF Payout
<1>3. IsFiniteSet(cycle.claimants)
  BY <1>1, TreasuryConfig, FS_Subset
<1>4. \A p \in cycle.claimants : payouts_[p] \in Nat
  BY <1>1, <1>2
<1> HIDE DEF payouts_
<1>5. Total(payouts_, cycle.claimants) \in Nat
  BY <1>3, <1>4, TotalType
<1>6. cycle.claimants = {} => Total(payouts_, cycle.claimants) = 0
  BY TotalZero
<1> QED
  BY <1>2, <1>5, <1>6 DEF Paid, payouts_

\* What is left of a cycle is a natural number, and more than each payout that
\* is still due.
LEMMA LeftCovers ==
  ASSUME NEW cycle \in CycleType, CycleInv(cycle)
  PROVE  /\ cycle.amount - Paid(cycle) \in Nat
         /\ Left(cycle) \in Nat
         /\ \A p \in People \ cycle.claimants : Payout(cycle, p) <= cycle.amount - Paid(cycle)
<1> DEFINE rest == cycle.amount - Paid(cycle)
           due  == Total(cycle.roster, People \ cycle.claimants)
<1>1. cycle.roster \in [People -> Nat] /\ cycle.amount \in Nat
  BY DEF CycleType
<1>2. BPS_TOTAL \in Nat \ {0} /\ IsFiniteSet(People)
  BY TreasuryConfig
<1>3. rest \in Int
  BY <1>1, PaidType
<1>4. IsFiniteSet(People \ cycle.claimants)
  BY <1>2, FS_Difference
<1>5. due \in Nat
  BY <1>1, <1>4, TotalType
<1>6. rest * BPS_TOTAL >= cycle.amount * due
  BY DEF CycleInv
<1> HIDE DEF rest, due
<1>7. rest \in Nat
  <2>1. cycle.amount * due \in Nat
    BY <1>1, <1>5
  <2>2. 0 * BPS_TOTAL = 0 /\ rest * BPS_TOTAL \in Int
    BY <1>2, <1>3
  <2>3. rest * BPS_TOTAL >= 0 * BPS_TOTAL
    BY <2>1, <2>2, <1>6
  <2>4. rest >= 0
    BY <2>3, <1>2, <1>3, Cancel
  <2> QED
    BY <2>4, <1>3
<1>8. ASSUME NEW p \in People \ cycle.claimants
      PROVE  Payout(cycle, p) <= rest
  <2> DEFINE bps    == cycle.roster[p]
             payout == Payout(cycle, p)
  <2>1. bps \in Nat /\ bps <= due
    BY <1>1, <1>4, TotalBoundsEntry DEF due
  <2>2. payout \in Nat /\ payout * BPS_TOTAL <= cycle.amount * bps
    BY <1>1, <2>1, ShareBound DEF Payout
  <2> HIDE DEF bps, payout
  <2>3. cycle.amount * bps <= cycle.amount * due
    <3>1. due - bps \in Nat
      BY <2>1, <1>5
    <3>2. cycle.amount * (due - bps) \in Nat
      BY <3>1, <1>1
    <3>3. cycle.amount * (due - bps) = cycle.amount * due - cycle.amount * bps
      BY <2>1, <1>1, <1>5
    <3>4. cycle.amount * due \in Int /\ cycle.amount * bps \in Int
      BY <2>1, <1>1, <1>5
    <3> QED
      BY <3>2, <3>3, <3>4
  <2>4. rest * BPS_TOTAL >= payout * BPS_TOTAL
    <3>1. /\ rest * BPS_TOTAL \in Int /\ payout * BPS_TOTAL \in Int
          /\ cycle.amount * bps \in Int /\ cycle.amount * due \in Int
      BY <1>1, <1>2, <1>3, <1>5, <2>1, <2>2
    <3> QED
      BY <3>1, <2>2, <2>3, <1>6
  <2>5. rest >= payout
    BY <2>2, <2>4, <1>2, <1>3, Cancel
  <2> QED
    BY <2>5, <2>2, <1>3 DEF payout
<1> QED
  BY <1>7, <1>8 DEF Left, rest

\* What a cycle owes is a natural number.
LEMMA OwesType ==
  ASSUME NEW cycle \in CycleType, CycleInv(cycle), NEW t
  PROVE  Owes(cycle, t) \in Nat
BY LeftCovers DEF Owes

\* A cycle that was just opened satisfies the cycle's part of the invariant.
LEMMA FreshCycle ==
  ASSUME NEW register \in [People -> Nat], ValidRegister(register),
         NEW t \in Tokens, NEW amount \in Nat \ {0}, NEW closes \in Nat,
         NEW cycle,
         cycle = [token |-> t, amount |-> amount, roster |-> register, closesAt |-> closes,
                  approvals |-> 0, state |-> "Voting", voters |-> {}, claimants |-> {},
                  claims |-> 0]
  PROVE  cycle \in CycleType /\ CycleInv(cycle) /\ ~Decided(cycle)
<1>1. cycle \in CycleType
  BY DEF CycleType, CycleStates
<1>2. Cardinality({}) = 0
  BY FS_EmptySet
<1>3. Paid(cycle) = 0
  BY <1>1, PaidType
<1>4. Total(register, People) = BPS_TOTAL /\ BPS_TOTAL \in Nat
  BY TreasuryConfig DEF ValidRegister
<1>5. People \ cycle.claimants = People /\ cycle.roster = register /\ cycle.amount = amount
  OBVIOUS
<1>6. (cycle.amount - Paid(cycle)) * BPS_TOTAL
        >= cycle.amount * Total(cycle.roster, People \ cycle.claimants)
  <2>1. amount * BPS_TOTAL \in Nat
    BY <1>4
  <2>2. cycle.amount - Paid(cycle) = amount
    BY <1>3, <1>5
  <2> QED
    BY <2>1, <2>2, <1>4, <1>5
<1>7. ~Decided(cycle)
  <2>1. Cardinality(Holders(register)) \in Nat \ {0}
    BY TreasuryConfig DEF ValidRegister
  <2> DEFINE headcount == Cardinality(Holders(register))
  <2> HIDE DEF headcount
  <2>2. ~ (0 * 3 >= headcount * 2)
    BY <2>1 DEF headcount
  <2> QED
    BY <2>2 DEF Decided, Carried, APPROVAL_NUMERATOR, APPROVAL_DENOMINATOR, headcount
<1>8. cycle.voters = {} /\ cycle.approvals = 0 /\ cycle.claimants = {} /\ cycle.claims = 0
      /\ cycle.state = "Voting"
  OBVIOUS
<1> QED
  BY <1>1, <1>2, <1>5, <1>6, <1>7, <1>8 DEF CycleInv

\* An approval keeps the count of a vote exact.
LEMMA CountedOnce ==
  ASSUME NEW voters \in SUBSET People, NEW voter \in People \ voters
  PROVE  /\ Cardinality(voters) \in Nat
         /\ Cardinality(voters \cup {voter}) = Cardinality(voters) + 1
<1>1. IsFiniteSet(voters)
  BY TreasuryConfig, FS_Subset
<1> QED
  BY <1>1, FS_AddElement, FS_CardinalityType

\* A cycle approved once more, the vote decided by it or not.
LEMMA VotedCycle ==
  ASSUME NEW cycle \in CycleType, CycleInv(cycle), cycle.state = "Voting",
         NEW voter \in Holders(cycle.roster) \ cycle.voters
  PROVE  LET next    == Approved(cycle, voter)
             payable == [next EXCEPT !.state = "Payable"]
         IN  /\ next \in CycleType /\ CycleInv(next) /\ next.state = "Voting"
             /\ next.token = cycle.token /\ next.amount = cycle.amount
             /\ next.closesAt = cycle.closesAt
             /\ payable \in CycleType /\ payable.state = "Payable"
             /\ payable.token = cycle.token /\ Left(payable) = cycle.amount
             /\ Decided(next) => CycleInv(payable)
<1> DEFINE next    == Approved(cycle, voter)
           payable == [next EXCEPT !.state = "Payable"]
<1>1. voter \in People
  BY DEF Holders
<1>2. cycle.voters \in SUBSET People /\ cycle.approvals \in Nat
  BY DEF CycleType
<1> DEFINE n   == cycle.approvals + 1
           who == cycle.voters \cup {voter}
<1>3. n \in Nat /\ who \in SUBSET People
  BY <1>1, <1>2
<1>4. next = [cycle EXCEPT !.approvals = n, !.voters = who]
  BY DEF Approved, n, who
<1>0. payable = [next EXCEPT !.state = "Payable"]
  OBVIOUS
<1> HIDE DEF n, who, next, payable
<1>5. /\ next \in CycleType
      /\ next.amount = cycle.amount /\ next.roster = cycle.roster /\ next.token = cycle.token
      /\ next.claimants = cycle.claimants /\ next.claims = cycle.claims
      /\ next.state = "Voting" /\ next.closesAt = cycle.closesAt
      /\ next.approvals = n /\ next.voters = who
  <2>1. /\ next \in CycleType /\ next.approvals = n /\ next.voters = who
        /\ next.token = cycle.token /\ next.amount = cycle.amount
        /\ next.roster = cycle.roster /\ next.state = cycle.state
        /\ next.claimants = cycle.claimants /\ next.claims = cycle.claims
        /\ next.closesAt = cycle.closesAt
    BY <1>3, <1>4 DEF CycleType
  <2> QED
    BY <2>1
<1>6. /\ payable \in CycleType
      /\ payable.amount = next.amount /\ payable.roster = next.roster
      /\ payable.token = next.token
      /\ payable.claimants = next.claimants /\ payable.claims = next.claims
      /\ payable.state = "Payable"
      /\ payable.approvals = next.approvals /\ payable.voters = next.voters
  BY <1>0, <1>5 DEF CycleType, CycleStates
<1>7. Paid(next) = Paid(cycle) /\ Paid(payable) = Paid(cycle)
  <2>1. Paid(next) = Paid(cycle)
    BY <1>5 DEF Paid, Payout
  <2>2. Paid(payable) = Paid(next)
    BY <1>6 DEF Paid, Payout
  <2> QED
    BY <2>1, <2>2
<1>8. next.approvals = Cardinality(next.voters)
  BY <1>1, <1>2, <1>5, CountedOnce DEF CycleInv, n, who
<1>9. next.voters \subseteq Holders(cycle.roster)
  BY <1>5 DEF CycleInv, who
<1>10. Decided(payable) <=> Decided(next)
  BY <1>5, <1>6 DEF Decided
<1>11. CycleInv(next)
  BY <1>5, <1>7, <1>8, <1>9 DEF CycleInv
<1>12. Decided(next) => CycleInv(payable)
  BY <1>5, <1>6, <1>7, <1>8, <1>9, <1>10 DEF CycleInv
<1>13. Left(payable) = cycle.amount
  <2>1. cycle.claimants = {} /\ Paid(cycle) = 0
    BY PaidType DEF CycleInv
  <2>2. Holders(cycle.roster) # {} /\ cycle.amount \in Nat
    BY DEF CycleType
  <2>3. Unclaimed(payable) # {}
    BY <1>5, <1>6, <2>1, <2>2 DEF Unclaimed
  <2> QED
    BY <1>5, <1>6, <1>7, <2>1, <2>2, <2>3 DEF Left
<1> QED
  BY <1>5, <1>6, <1>11, <1>12, <1>13 DEF next, payable

\* A cycle settled as lapsed.
LEMMA LapsedCycle ==
  ASSUME NEW cycle \in CycleType, CycleInv(cycle), cycle.state = "Voting"
  PROVE  LET lapsed == [cycle EXCEPT !.state = "Lapsed"]
         IN  lapsed \in CycleType /\ CycleInv(lapsed) /\ lapsed.state = "Lapsed"
<1> DEFINE lapsed == [cycle EXCEPT !.state = "Lapsed"]
<1>2. /\ lapsed \in CycleType
      /\ lapsed.amount = cycle.amount /\ lapsed.roster = cycle.roster
      /\ lapsed.claimants = cycle.claimants /\ lapsed.claims = cycle.claims
      /\ lapsed.state = "Lapsed"
      /\ lapsed.approvals = cycle.approvals /\ lapsed.voters = cycle.voters
  BY DEF CycleType, CycleStates
<1> HIDE DEF lapsed
<1>3. Paid(lapsed) = Paid(cycle)
  BY <1>2 DEF Paid, Payout
<1>4. CycleInv(lapsed)
  BY <1>2, <1>3 DEF CycleInv
<1> QED
  BY <1>2, <1>4 DEF lapsed

\* A claim is counted once, and the last claimant is the one who makes the
\* claims as many as the holders.
LEMMA LastClaim ==
  ASSUME NEW holders \in SUBSET People, NEW claimants \in SUBSET holders,
         NEW holder \in holders \ claimants
  PROVE  /\ Cardinality(claimants \cup {holder}) = Cardinality(claimants) + 1
         /\ Cardinality(claimants) + 1 = Cardinality(holders)
              <=> holders \ (claimants \cup {holder}) = {}
<1> DEFINE after == claimants \cup {holder}
<1>1. IsFiniteSet(holders)
  BY TreasuryConfig, FS_Subset
<1>2. Cardinality(after) = Cardinality(claimants) + 1
  BY CountedOnce
<1>3. after \in SUBSET holders
  OBVIOUS
<1>4. Cardinality(holders) = Cardinality(after) => holders = after
  BY <1>1, <1>3, FS_Subset
<1>5. holders \ after = {} => holders = after
  BY <1>3
<1> QED
  BY <1>2, <1>4, <1>5

\* What a claim pays can be taken out of the sums over the register.
LEMMA ClaimedSums ==
  ASSUME NEW cycle \in CycleType, NEW holder \in People \ cycle.claimants
  PROVE  LET after == cycle.claimants \cup {holder}
         IN  /\ Total([p \in People |-> Payout(cycle, p)], after)
                  = Paid(cycle) + Payout(cycle, holder)
             /\ Total(cycle.roster, People \ cycle.claimants)
                  = cycle.roster[holder] + Total(cycle.roster, People \ after)
             /\ Total(cycle.roster, People \ after) \in Nat
<1> DEFINE payouts_ == [p \in People |-> Payout(cycle, p)]
           before   == People \ cycle.claimants
<1>1. cycle.roster \in [People -> Nat] /\ cycle.claimants \subseteq People
  BY DEF CycleType
<1>2. \A p \in People : payouts_[p] \in Nat
  BY PaidType
<1>3. IsFiniteSet(cycle.claimants) /\ IsFiniteSet(before)
  BY <1>1, TreasuryConfig, FS_Subset
<1>4. Total(payouts_, cycle.claimants \cup {holder})
        = Total(payouts_, cycle.claimants) + payouts_[holder]
  <2>1. \A y \in cycle.claimants \cup {holder} : payouts_[y] \in Nat
    BY <1>1, <1>2
  <2> HIDE DEF payouts_
  <2> QED
    BY <1>3, <2>1, TotalInsert
<1>6. Total(cycle.roster, before) = cycle.roster[holder] + Total(cycle.roster, before \ {holder})
  <2>1. \A y \in before : cycle.roster[y] \in Nat
    BY <1>1
  <2>2. holder \in before
    OBVIOUS
  <2> HIDE DEF before
  <2> QED
    BY <1>3, <2>1, <2>2, TotalSplit
<1>7. before \ {holder} = People \ (cycle.claimants \cup {holder})
  OBVIOUS
<1>8. IsFiniteSet(before \ {holder}) /\ \A y \in before \ {holder} : cycle.roster[y] \in Nat
  BY <1>1, <1>3, FS_Difference
<1>9. Total(cycle.roster, before \ {holder}) \in Nat
  BY <1>8, TotalType
<1> QED
  BY <1>4, <1>6, <1>7, <1>9 DEF Paid

\* A claim frees what the cycle's reservation shrinks by, at least the payout,
\* and leaves enough for the others.
LEMMA ClaimedCycle ==
  ASSUME NEW cycle \in CycleType, CycleInv(cycle), cycle.state = "Payable",
         NEW holder \in Holders(cycle.roster) \ cycle.claimants
  PROVE  LET next == [cycle EXCEPT !.claimants = @ \cup {holder}, !.claims = @ + 1]
         IN  /\ next \in CycleType /\ CycleInv(next) /\ next.state = "Payable"
             /\ next.token = cycle.token
             /\ Freed(cycle, holder) = Left(cycle) - Left(next)
             /\ Payout(cycle, holder) \in Nat /\ Payout(cycle, holder) <= Freed(cycle, holder)
<1> DEFINE n    == cycle.claims + 1
           who  == cycle.claimants \cup {holder}
           next == [cycle EXCEPT !.claimants = @ \cup {holder}, !.claims = @ + 1]
<1>1. holder \in People
  BY DEF Holders
<1>2. n \in Nat /\ who \in SUBSET People /\ cycle.claimants \in SUBSET People
  BY <1>1 DEF CycleType
<1>3. next = [cycle EXCEPT !.claimants = who, !.claims = n]
  OBVIOUS
<1> HIDE DEF n, who, next
<1>4. /\ next \in CycleType /\ next.claims = n /\ next.claimants = who
      /\ next.token = cycle.token /\ next.amount = cycle.amount
      /\ next.roster = cycle.roster /\ next.state = cycle.state
      /\ next.approvals = cycle.approvals /\ next.voters = cycle.voters
  BY <1>2, <1>3 DEF CycleType
<1>5. Holders(cycle.roster) \in SUBSET People /\ cycle.claimants \in SUBSET Holders(cycle.roster)
  BY DEF Holders, CycleInv
<1>6. /\ Cardinality(who) = cycle.claims + 1
      /\ cycle.claims + 1 = Cardinality(Holders(cycle.roster))
           <=> Holders(cycle.roster) \ who = {}
  <2> DEFINE holders   == Holders(cycle.roster)
             claimants == cycle.claimants
  <2>1. holders \in SUBSET People /\ claimants \in SUBSET holders
        /\ holder \in holders \ claimants
    BY <1>5
  <2>2. cycle.claims = Cardinality(claimants) /\ who = claimants \cup {holder}
    BY DEF CycleInv, who
  <2> HIDE DEF holders, claimants
  <2>3. /\ Cardinality(claimants \cup {holder}) = Cardinality(claimants) + 1
        /\ Cardinality(claimants) + 1 = Cardinality(holders)
             <=> holders \ (claimants \cup {holder}) = {}
    BY <2>1, LastClaim
  <2> QED
    BY <2>2, <2>3 DEF holders
<1> DEFINE payout == Payout(cycle, holder)
           rest   == cycle.amount - Paid(cycle)
           bps    == cycle.roster[holder]
           due    == Total(cycle.roster, People \ cycle.claimants)
           due_   == Total(cycle.roster, People \ next.claimants)
<1>7. Paid(next) = Paid(cycle) + payout /\ due = bps + due_ /\ due_ \in Nat
  <2>1. holder \in People \ cycle.claimants
    BY <1>1
  <2>2. next.claimants = cycle.claimants \cup {holder}
    BY <1>4 DEF who
  <2> HIDE DEF payout, bps, due, due_
  <2>3. /\ Total([p \in People |-> Payout(cycle, p)], cycle.claimants \cup {holder})
             = Paid(cycle) + Payout(cycle, holder)
        /\ Total(cycle.roster, People \ cycle.claimants)
             = cycle.roster[holder] + Total(cycle.roster, People \ (cycle.claimants \cup {holder}))
        /\ Total(cycle.roster, People \ (cycle.claimants \cup {holder})) \in Nat
    BY <2>1, ClaimedSums
  <2>4. Paid(next) = Total([p \in People |-> Payout(cycle, p)], cycle.claimants \cup {holder})
    BY <1>4, <2>2 DEF Paid, Payout
  <2> QED
    BY <2>2, <2>3, <2>4 DEF payout, bps, due, due_
<1>8. payout \in Nat /\ Paid(cycle) \in Nat /\ cycle.amount \in Nat /\ bps \in Nat
  BY <1>1, PaidType DEF CycleType
<1>9. payout * BPS_TOTAL <= cycle.amount * bps
  BY <1>8, ShareBound DEF Payout
<1>10. rest \in Nat /\ payout <= rest
  BY <1>1, LeftCovers
<1>11. rest * BPS_TOTAL >= cycle.amount * due
  BY DEF CycleInv
<1>12. (rest - payout) * BPS_TOTAL >= cycle.amount * due_
  <2>1. BPS_TOTAL \in Nat
    BY TreasuryConfig
  <2> HIDE DEF rest, payout, bps, due, due_
  <2>2. (rest - payout) * BPS_TOTAL = rest * BPS_TOTAL - payout * BPS_TOTAL
    BY <1>8, <1>10, <2>1
  <2>3. cycle.amount * due = cycle.amount * bps + cycle.amount * due_
    BY <1>7, <1>8
  <2>4. /\ rest * BPS_TOTAL \in Int /\ payout * BPS_TOTAL \in Int
        /\ cycle.amount * bps \in Int /\ cycle.amount * due_ \in Int
    BY <1>7, <1>8, <1>10, <2>1
  <2> QED
    BY <2>2, <2>3, <2>4, <1>9, <1>11
<1>13. cycle.amount - Paid(next) = rest - payout
  BY <1>7, <1>8
<1>14. Decided(next)
  BY <1>4 DEF CycleInv, Decided
<1>15. CycleInv(next)
  <2>1. next.claimants \subseteq Holders(next.roster)
    BY <1>4, <1>5 DEF who
  <2>2. next.claims = Cardinality(next.claimants)
    BY <1>4, <1>6 DEF n
  <2>3. (next.amount - Paid(next)) * BPS_TOTAL
          >= next.amount * Total(next.roster, People \ next.claimants)
    BY <1>4, <1>12, <1>13
  <2> QED
    BY <2>1, <2>2, <2>3, <1>4, <1>14 DEF CycleInv
<1>16. Left(cycle) = rest
  BY DEF Left, Unclaimed
<1> DEFINE Claimed == /\ Freed(cycle, holder) = Left(cycle) - Left(next)
                      /\ payout \in Nat /\ payout <= Freed(cycle, holder)
<1>17. ASSUME Holders(cycle.roster) \ who = {}
       PROVE  Claimed
  <2>1. Left(next) = 0
    BY <1>4, <1>17 DEF Left, Unclaimed
  <2>2. Holders(cycle.roster) = who
    BY <1>17, <1>5 DEF who
  <2>3. Distributed(cycle) = Paid(cycle) + payout
    BY <2>2, <1>4, <1>7 DEF Distributed, Paid, Payout
  <2>4. Freed(cycle, holder) = rest
    BY <2>3, <1>6, <1>8, <1>17 DEF Freed
  <2> QED
    BY <2>1, <2>4, <1>8, <1>10, <1>16
<1>18. ASSUME Holders(cycle.roster) \ who # {}
       PROVE  Claimed
  <2>1. Left(next) = rest - payout
    BY <1>4, <1>13, <1>18 DEF Left, Unclaimed
  <2>2. Freed(cycle, holder) = payout
    BY <1>6, <1>18 DEF Freed
  <2> HIDE DEF rest, payout
  <2>3. Freed(cycle, holder) = Left(cycle) - Left(next)
    BY <2>1, <2>2, <1>8, <1>10, <1>16
  <2> QED
    BY <2>2, <2>3, <1>8 DEF payout
<1>19. /\ Freed(cycle, holder) = Left(cycle) - Left(next)
       /\ Payout(cycle, holder) \in Nat /\ Payout(cycle, holder) <= Freed(cycle, holder)
  BY <1>17, <1>18
<1> QED
  BY <1>4, <1>15, <1>19 DEF next

-----------------------------------------------------------------------------
(***************************************************************************)
(* All cycles                                                              *)
(***************************************************************************)

\* What the cycles of a sequence owe in one token.
Owed(list, t) == Total([id \in DOMAIN list |-> Owes(list[id], t)], DOMAIN list)

\* A sequence with the cycle at i rewritten.
Rewritten(list, i, cycle) == [list EXCEPT ![i] = cycle]

\* Rewriting one cycle leaves the others, and changes what is owed by the
\* difference.
LEMMA OneCycleChanges ==
  ASSUME NEW list \in Seq(CycleType), \A id \in DOMAIN list : CycleInv(list[id]),
         NEW i \in DOMAIN list, NEW cycle \in CycleType, CycleInv(cycle)
  PROVE  LET after == Rewritten(list, i, cycle)
         IN  /\ after \in Seq(CycleType) /\ Len(after) = Len(list) /\ DOMAIN after = DOMAIN list
             /\ after[i] = cycle /\ \A id \in DOMAIN list \ {i} : after[id] = list[id]
             /\ \A id \in DOMAIN after : CycleInv(after[id])
             /\ \A t : Owed(after, t) = Owed(list, t) - Owes(list[i], t) + Owes(cycle, t)
<1> DEFINE after == Rewritten(list, i, cycle)
<1>1. DOMAIN list = 1 .. Len(list) /\ Len(list) \in Nat
  BY LenProperties
<1>2. after \in Seq(CycleType) /\ Len(after) = Len(list)
  BY <1>1, ExceptSeq DEF Rewritten
<1>3. DOMAIN after = DOMAIN list
  BY DEF Rewritten
<1>4. after[i] = cycle /\ \A id \in DOMAIN list \ {i} : after[id] = list[id]
  BY DEF Rewritten
<1> HIDE DEF after
<1>5. \A id \in DOMAIN after : CycleInv(after[id])
  BY <1>3, <1>4
<1>6. \A id \in DOMAIN list : list[id] \in CycleType /\ after[id] \in CycleType
  BY <1>1, <1>2, ElementOfSeq
<1>7. IsFiniteSet(DOMAIN list)
  BY <1>1, FS_Interval
<1>8. ASSUME NEW t
      PROVE  Owed(after, t) = Owed(list, t) - Owes(list[i], t) + Owes(cycle, t)
  <2> DEFINE f == [id \in DOMAIN list |-> Owes(list[id], t)]
             g == [id \in DOMAIN list |-> Owes(after[id], t)]
  <2>1. \A id \in DOMAIN list : f[id] \in Nat /\ g[id] \in Nat
    BY <1>3, <1>5, <1>6, OwesType
  <2>2. \A id \in DOMAIN list \ {i} : f[id] = g[id]
    BY <1>4
  <2>3. f[i] = Owes(list[i], t) /\ g[i] = Owes(cycle, t)
    BY <1>4
  <2>4. Owed(after, t) = Total(g, DOMAIN list) /\ Owed(list, t) = Total(f, DOMAIN list)
    BY <1>3 DEF Owed
  <2> HIDE DEF f, g
  <2>5. Total(g, DOMAIN list) = Total(f, DOMAIN list) - f[i] + g[i]
    BY <1>7, <2>1, <2>2, TotalUpdate
  <2> QED
    BY <2>3, <2>4, <2>5
<1> QED
  BY <1>2, <1>3, <1>4, <1>5, <1>8 DEF after

\* A cycle that owes nothing yet can be appended.
LEMMA OneCycleMore ==
  ASSUME NEW list \in Seq(CycleType), \A id \in DOMAIN list : CycleInv(list[id]),
         NEW cycle \in CycleType, CycleInv(cycle), cycle.state = "Voting"
  PROVE  LET after == Append(list, cycle)
         IN  /\ after \in Seq(CycleType) /\ Len(after) = Len(list) + 1 /\ Len(list) \in Nat
             /\ DOMAIN list = 1 .. Len(list) /\ DOMAIN after = 1 .. Len(after)
             /\ after[Len(after)] = cycle /\ \A id \in DOMAIN list : after[id] = list[id]
             /\ \A id \in DOMAIN after : CycleInv(after[id])
             /\ \A t : Owed(after, t) = Owed(list, t)
<1> DEFINE after == Append(list, cycle)
<1>1. DOMAIN list = 1 .. Len(list) /\ Len(list) \in Nat
  BY LenProperties
<1> DEFINE last == Len(list) + 1
<1>2. /\ after \in Seq(CycleType) /\ Len(after) = last
      /\ \A id \in 1 .. Len(list) : after[id] = list[id]
      /\ after[last] = cycle
  BY AppendProperties
<1> HIDE DEF after
<1>3. DOMAIN after = 1 .. last
  BY <1>2, LenProperties
<1>4. DOMAIN after = DOMAIN list \cup {last} /\ last \notin DOMAIN list
  BY <1>1, <1>3
<1>5. \A id \in DOMAIN after : CycleInv(after[id])
  BY <1>1, <1>2, <1>4
<1>6. \A id \in DOMAIN after : after[id] \in CycleType
  BY <1>2, <1>3, ElementOfSeq
<1>7. IsFiniteSet(DOMAIN list)
  BY <1>1, FS_Interval
<1>8. ASSUME NEW t
      PROVE  Owed(after, t) = Owed(list, t)
  <2> DEFINE f == [id \in DOMAIN list |-> Owes(list[id], t)]
             g == [id \in DOMAIN after |-> Owes(after[id], t)]
  <2>1. \A id \in DOMAIN after : g[id] \in Nat
    BY <1>5, <1>6, OwesType
  <2>2. \A id \in DOMAIN list : f[id] = g[id]
    BY <1>1, <1>2, <1>4
  <2>3. g[last] = 0
    BY <1>2, <1>4 DEF Owes
  <2>4. Owed(after, t) = Total(g, DOMAIN list \cup {last}) /\ Owed(list, t) = Total(f, DOMAIN list)
    BY <1>4 DEF Owed
  <2> HIDE DEF f, g, last
  <2>5. Total(f, DOMAIN list) = Total(g, DOMAIN list)
    BY <2>2, TotalSame
  <2>6. Total(g, DOMAIN list \cup {last}) = Total(g, DOMAIN list) + g[last]
    BY <1>4, <1>7, <2>1, TotalInsert
  <2>7. Total(g, DOMAIN list) \in Nat
    BY <1>4, <1>7, <2>1, TotalType
  <2> QED
    BY <2>3, <2>4, <2>5, <2>6, <2>7
<1> QED
  BY <1>1, <1>2, <1>3, <1>5, <1>8 DEF after

-----------------------------------------------------------------------------
(***************************************************************************)
(* The calls on cycles                                                     *)
(***************************************************************************)

\* In the slot there is a cycle under vote, or nothing.
LEMMA Slot ==
  ASSUME TypeOK, OneLiveVote
  PROVE  /\ SlotTaken <=> openCycle # 0
         /\ openCycle # 0 => /\ openCycle \in DOMAIN cycles
                             /\ cycles[openCycle] \in CycleType
                             /\ cycles[openCycle].state = "Voting"
<1>1. DOMAIN cycles = 1 .. Len(cycles) /\ Len(cycles) \in Nat
  BY LenProperties DEF TypeOK
<1>2. openCycle # 0 => openCycle \in DOMAIN cycles
  BY <1>1 DEF TypeOK
<1>3. openCycle # 0 => cycles[openCycle] \in CycleType
  BY <1>1, <1>2, ElementOfSeq DEF TypeOK
<1> QED
  BY <1>2, <1>3 DEF OneLiveVote, SlotTaken

\* The balance covers what is reserved, whatever the vote in the slot asks for.
LEMMA ReservationCovered ==
  ASSUME TypeOK, OneLiveVote, Covered, NEW t \in Tokens
  PROVE  balance[t] \in Nat /\ reserved[t] \in Nat /\ balance[t] >= reserved[t]
<1> DEFINE live == IF SlotTaken /\ now < cycles[openCycle].closesAt /\ cycles[openCycle].token = t
                   THEN cycles[openCycle].amount ELSE 0
<1>1. live \in Nat
  <2>1. SlotTaken => cycles[openCycle].amount \in Nat
    BY Slot DEF CycleType
  <2> QED
    BY <2>1
<1>2. balance[t] >= reserved[t] + live
  BY DEF Covered
<1> HIDE DEF live
<1>3. balance[t] \in Nat /\ reserved[t] \in Nat
  BY DEF TypeOK
<1> QED
  BY <1>1, <1>2, <1>3

LEMMA OpenCycleStep ==
  ASSUME IInv, NEW p \in People, NEW t \in Tokens, OpenCycle(p, t)
  PROVE  IInv'
<1> DEFINE cycle == [token |-> t, amount |-> Available(t), roster |-> shareholders,
                     closesAt |-> now + VOTE_WINDOW, approvals |-> 0, state |-> "Voting",
                     voters |-> {}, claimants |-> {}, claims |-> 0]
<1>1. Available(t) \in Nat \ {0} /\ Available(t) = balance[t] - reserved[t]
  BY DEF IInv, TypeOK, OpenCycle, Available
<1>2. now \in Nat /\ now + VOTE_WINDOW \in Nat /\ now < now + VOTE_WINDOW
  BY TreasuryConfig DEF IInv, TypeOK
<1>3. shareholders \in [People -> Nat] /\ ValidRegister(shareholders)
  BY DEF IInv, TypeOK
<1>4. cycle \in CycleType /\ CycleInv(cycle) /\ ~Decided(cycle)
  BY <1>1, <1>2, <1>3, FreshCycle
<1>5. cycles \in Seq(CycleType) /\ \A id \in DOMAIN cycles : CycleInv(cycles[id])
  BY DEF IInv, TypeOK
<1>6. /\ cycle.token = t /\ cycle.amount = Available(t) /\ cycle.state = "Voting"
      /\ cycle.closesAt = now + VOTE_WINDOW
  OBVIOUS
<1>7. /\ cycles' = Append(cycles, cycle) /\ openCycle' = Len(cycles')
      /\ UNCHANGED <<governance, factory, reserved, lastReleaseAt, lastOpsFundingAt, balance, now>>
      /\ ~SlotTaken /\ MonthSince(lastReleaseAt)
  BY DEF OpenCycle
<1> HIDE DEF cycle
<1>8. /\ cycles' \in Seq(CycleType) /\ Len(cycles') = Len(cycles) + 1 /\ Len(cycles) \in Nat
      /\ DOMAIN cycles = 1 .. Len(cycles) /\ DOMAIN cycles' = 1 .. Len(cycles')
      /\ cycles'[Len(cycles')] = cycle /\ \A id \in DOMAIN cycles : cycles'[id] = cycles[id]
      /\ \A id \in DOMAIN cycles' : CycleInv(cycles'[id])
      /\ \A u : Owed(cycles', u) = Owed(cycles, u)
  BY <1>4, <1>5, <1>6, <1>7, OneCycleMore
<1>9. \A id \in DOMAIN cycles : cycles[id].state # "Voting"
  BY <1>7, Slot, <1>8 DEF IInv, OneLiveVote
<1>10. openCycle' \in 1 .. Len(cycles') /\ cycles'[openCycle'] = cycle /\ SlotTaken'
  BY <1>6, <1>7, <1>8 DEF SlotTaken
<1>11. TypeOK'
  BY <1>7, <1>8, <1>10 DEF IInv, TypeOK, governance, factory
<1>12. (\A id \in DOMAIN cycles : CycleInv(cycles[id]))'
  BY <1>8
<1>13. ProposalInv'
  BY <1>7 DEF IInv, ProposalInv, governance, Holders
<1>14. OneLiveVote'
  <2>1. ASSUME NEW id \in DOMAIN cycles'
        PROVE  cycles'[id].state = "Voting" <=> id = openCycle'
    <3>1. CASE id \in DOMAIN cycles
      <4>1. cycles'[id].state # "Voting" /\ id # openCycle'
        BY <1>7, <1>8, <1>9, <3>1
      <4> QED
        BY <4>1
    <3>2. CASE id \notin DOMAIN cycles
      <4>1. id = openCycle'
        BY <1>7, <1>8, <3>2
      <4> QED
        BY <4>1, <1>6, <1>10
    <3> QED
      BY <3>1, <3>2
  <2>2. ~Decided(cycles'[openCycle'])
    BY <1>4, <1>10
  <2> QED
    BY <2>1, <2>2 DEF OneLiveVote
<1>15. (SlotTaken => MonthSince(lastReleaseAt))'
  BY <1>7 DEF MonthSince
<1>16. ReservedExact'
  BY <1>7, <1>8 DEF IInv, ReservedExact, Owed
<1>17. Covered'
  <2>1. ASSUME NEW u \in Tokens
        PROVE  balance[u] >= reserved[u]
                 + (IF SlotTaken' /\ now < cycle.closesAt /\ cycle.token = u THEN cycle.amount ELSE 0)
    <3>1. balance[u] >= reserved[u] /\ balance[u] \in Nat /\ reserved[u] \in Nat
      BY <1>7 DEF IInv, TypeOK, Covered
    <3> QED
      BY <3>1, <1>1, <1>6
  <2> QED
    BY <2>1, <1>7, <1>10 DEF Covered
<1> QED
  BY <1>11, <1>12, <1>13, <1>14, <1>15, <1>16, <1>17 DEF IInv

\* An approval that does not decide the vote rewrites the cycle in the slot; one
\* that does reserves its amount, which the live vote kept in the balance.
LEMMA ApproveCycleStep ==
  ASSUME IInv, NEW p \in People, ApproveCycle(p)
  PROVE  IInv'
<1> DEFINE cycle   == cycles[openCycle]
           next    == Approved(cycle, p)
           payable == [next EXCEPT !.state = "Payable"]
<1>1. /\ SlotTaken /\ openCycle \in DOMAIN cycles /\ cycle \in CycleType
      /\ cycle.state = "Voting" /\ openCycle # 0
  BY Slot DEF IInv, ApproveCycle, SlotTaken
<1>2. cycles \in Seq(CycleType) /\ \A id \in DOMAIN cycles : CycleInv(cycles[id])
  BY DEF IInv, TypeOK
<1>3. p \in Holders(cycle.roster) \ cycle.voters /\ now < cycle.closesAt
  BY DEF ApproveCycle, MayApprove
<1>4. CycleInv(cycle)
  BY <1>1, <1>2
<1>5. /\ next \in CycleType /\ CycleInv(next) /\ next.state = "Voting"
      /\ next.token = cycle.token /\ next.amount = cycle.amount
      /\ next.closesAt = cycle.closesAt
      /\ payable \in CycleType /\ payable.state = "Payable"
      /\ payable.token = cycle.token /\ Left(payable) = cycle.amount
      /\ Decided(next) => CycleInv(payable)
  BY <1>1, <1>3, <1>4, VotedCycle
<1>6. /\ UNCHANGED <<governance, factory, lastOpsFundingAt, balance, now>>
      /\ \/ /\ Decided(next)
            /\ cycles' = Rewritten(cycles, openCycle, payable)
            /\ reserved' = [reserved EXCEPT ![next.token] = @ + next.amount]
            /\ lastReleaseAt' = now /\ openCycle' = 0
         \/ /\ ~Decided(next)
            /\ cycles' = Rewritten(cycles, openCycle, next)
            /\ UNCHANGED <<reserved, lastReleaseAt, openCycle>>
  BY DEF ApproveCycle, Rewritten
<1>7. \A t \in Tokens : balance[t] \in Nat /\ reserved[t] \in Nat
  BY DEF IInv, TypeOK
<1>8. cycle.token \in Tokens /\ cycle.amount \in Nat
  BY <1>1 DEF CycleType
<1>9. \A t : Owes(cycle, t) = 0
  BY <1>1 DEF Owes
<1>10. \A id \in DOMAIN cycles \ {openCycle} : cycles[id].state # "Voting"
  BY DEF IInv, OneLiveVote
<1>11. /\ \A t \in Tokens : reserved[t] = Owed(cycles, t)
       /\ \A t \in Tokens : balance[t] >= reserved[t] + (IF cycle.token = t THEN cycle.amount ELSE 0)
  BY <1>1, <1>3 DEF IInv, ReservedExact, Owed, Covered
<1> HIDE DEF cycle, next, payable
<1>12. ProposalInv'
  BY <1>6 DEF IInv, ProposalInv, governance, Holders
<1>13. CASE Decided(next)
  <2>1. /\ cycles' = Rewritten(cycles, openCycle, payable)
        /\ reserved' = [reserved EXCEPT ![cycle.token] = @ + cycle.amount]
        /\ lastReleaseAt' = now /\ openCycle' = 0
    BY <1>5, <1>6, <1>13
  <2>2. /\ cycles' \in Seq(CycleType) /\ Len(cycles') = Len(cycles) /\ DOMAIN cycles' = DOMAIN cycles
        /\ cycles'[openCycle] = payable
        /\ \A id \in DOMAIN cycles \ {openCycle} : cycles'[id] = cycles[id]
        /\ \A id \in DOMAIN cycles' : CycleInv(cycles'[id])
        /\ \A t : Owed(cycles', t) = Owed(cycles, t) - Owes(cycles[openCycle], t) + Owes(payable, t)
    BY <1>1, <1>2, <1>5, <1>13, <2>1, OneCycleChanges
  <2>3. \A t \in Tokens : reserved'[t] = reserved[t] + (IF cycle.token = t THEN cycle.amount ELSE 0)
    BY <1>7, <1>8, <2>1 DEF IInv, TypeOK
  <2>4. reserved' \in [Tokens -> Nat]
    BY <1>7, <1>8, <2>1 DEF IInv, TypeOK
  <2>5. TypeOK'
    <3>1. Len(cycles) \in Nat /\ now \in Nat
      BY <1>2, LenProperties DEF IInv, TypeOK
    <3> QED
      BY <1>6, <2>1, <2>2, <2>4, <3>1 DEF IInv, TypeOK, governance, factory
  <2>6. OneLiveVote' /\ ~SlotTaken'
    <3>1. DOMAIN cycles = 1 .. Len(cycles)
      BY <1>2, LenProperties
    <3>2. \A id \in DOMAIN cycles' : cycles'[id].state # "Voting" /\ id # 0
      BY <1>5, <1>10, <2>2, <3>1
    <3> QED
      BY <2>1, <3>2 DEF OneLiveVote, SlotTaken
  <2>7. ReservedExact'
    <3>1. ASSUME NEW t \in Tokens PROVE reserved'[t] = Owed(cycles', t)
      <4>1. Owes(payable, t) = IF cycle.token = t THEN cycle.amount ELSE 0
        BY <1>5 DEF Owes
      <4>2. Owes(cycles[openCycle], t) = 0
        BY <1>9 DEF cycle
      <4> QED
        BY <1>7, <1>8, <1>11, <2>2, <2>3, <4>1, <4>2
    <3> QED
      BY <3>1 DEF ReservedExact, Owed
  <2>8. Covered'
    BY <1>6, <1>7, <1>8, <1>11, <2>3, <2>6 DEF Covered
  <2> QED
    BY <1>12, <2>2, <2>5, <2>6, <2>7, <2>8 DEF IInv
<1>14. CASE ~Decided(next)
  <2>1. cycles' = Rewritten(cycles, openCycle, next)
        /\ UNCHANGED <<reserved, lastReleaseAt, openCycle>>
    BY <1>6, <1>14
  <2>2. /\ cycles' \in Seq(CycleType) /\ Len(cycles') = Len(cycles) /\ DOMAIN cycles' = DOMAIN cycles
        /\ cycles'[openCycle] = next
        /\ \A id \in DOMAIN cycles \ {openCycle} : cycles'[id] = cycles[id]
        /\ \A id \in DOMAIN cycles' : CycleInv(cycles'[id])
        /\ \A t : Owed(cycles', t) = Owed(cycles, t) - Owes(cycles[openCycle], t) + Owes(next, t)
    BY <1>1, <1>2, <1>5, <2>1, OneCycleChanges
  <2>3. TypeOK'
    BY <1>6, <2>1, <2>2 DEF IInv, TypeOK, governance, factory
  <2>4. OneLiveVote'
    BY <1>5, <1>10, <1>14, <2>1, <2>2 DEF OneLiveVote
  <2>5. ReservedExact'
    <3>1. ASSUME NEW t \in Tokens PROVE reserved'[t] = Owed(cycles', t)
      <4>1. Owes(next, t) = 0 /\ Owes(cycles[openCycle], t) = 0
        BY <1>5, <1>9 DEF Owes, cycle
      <4> QED
        BY <1>7, <1>11, <2>1, <2>2, <4>1
    <3> QED
      BY <3>1 DEF ReservedExact, Owed
  <2>6. Covered'
    BY <1>3, <1>5, <1>6, <1>7, <1>8, <1>11, <2>1, <2>2 DEF Covered
  <2>7. (SlotTaken => MonthSince(lastReleaseAt))'
    BY <1>1, <1>6, <2>1 DEF IInv, MonthSince
  <2> QED
    BY <1>12, <2>2, <2>3, <2>4, <2>5, <2>6, <2>7 DEF IInv
<1> QED
  BY <1>13, <1>14

\* A lapsed cycle held nothing, and frees the slot.
LEMMA SettleLapsedStep ==
  ASSUME IInv, SettleLapsedCycle
  PROVE  IInv'
<1> DEFINE cycle  == cycles[openCycle]
           lapsed == [cycle EXCEPT !.state = "Lapsed"]
<1>1. /\ openCycle \in DOMAIN cycles /\ cycle \in CycleType /\ cycle.state = "Voting"
  BY Slot DEF IInv, SettleLapsedCycle, SlotTaken
<1>2. cycles \in Seq(CycleType) /\ \A id \in DOMAIN cycles : CycleInv(cycles[id])
  BY DEF IInv, TypeOK
<1>3. lapsed \in CycleType /\ CycleInv(lapsed) /\ lapsed.state = "Lapsed"
  BY <1>1, <1>2, LapsedCycle
<1>4. /\ cycles' = Rewritten(cycles, openCycle, lapsed) /\ openCycle' = 0
      /\ UNCHANGED <<governance, factory, reserved, lastReleaseAt, lastOpsFundingAt, balance, now>>
  BY DEF SettleLapsedCycle, Rewritten
<1>5. \A t : Owes(cycle, t) = 0 /\ Owes(lapsed, t) = 0
  BY <1>1, <1>3 DEF Owes
<1> HIDE DEF lapsed
<1>6. /\ cycles' \in Seq(CycleType) /\ Len(cycles') = Len(cycles) /\ DOMAIN cycles' = DOMAIN cycles
      /\ cycles'[openCycle] = lapsed
      /\ \A id \in DOMAIN cycles \ {openCycle} : cycles'[id] = cycles[id]
      /\ \A id \in DOMAIN cycles' : CycleInv(cycles'[id])
      /\ \A t : Owed(cycles', t) = Owed(cycles, t) - Owes(cycles[openCycle], t) + Owes(lapsed, t)
  BY <1>1, <1>2, <1>3, <1>4, OneCycleChanges
<1>7. DOMAIN cycles = 1 .. Len(cycles) /\ Len(cycles) \in Nat
  BY <1>2, LenProperties
<1>8. TypeOK'
  BY <1>4, <1>6, <1>7 DEF IInv, TypeOK, governance, factory
<1>9. ProposalInv'
  BY <1>4 DEF IInv, ProposalInv, governance, Holders
<1>10. OneLiveVote' /\ ~SlotTaken'
  <2>1. \A id \in DOMAIN cycles' : cycles'[id].state # "Voting" /\ id # 0
    BY <1>3, <1>6, <1>7 DEF IInv, OneLiveVote
  <2> QED
    BY <1>4, <2>1 DEF OneLiveVote, SlotTaken
<1>11. ReservedExact'
  <2>1. ASSUME NEW t \in Tokens PROVE reserved'[t] = Owed(cycles', t)
    <3>1. reserved[t] = Owed(cycles, t) /\ reserved[t] \in Nat
      BY DEF IInv, TypeOK, ReservedExact, Owed
    <3> QED
      BY <1>4, <1>5, <1>6, <3>1
  <2> QED
    BY <2>1 DEF ReservedExact, Owed
<1>12. Covered'
  <2>1. \A t \in Tokens : balance[t] \in Nat /\ reserved[t] \in Nat /\ balance[t] >= reserved[t]
    BY ReservationCovered DEF IInv
  <2> QED
    BY <1>4, <1>10, <2>1 DEF Covered
<1> QED
  BY <1>6, <1>8, <1>9, <1>10, <1>11, <1>12 DEF IInv

\* A claim takes off the reservation what the cycle no longer owes, and off the
\* balance no more than that.
LEMMA ClaimStep ==
  ASSUME IInv, NEW holder \in People, NEW i \in DOMAIN cycles, Claim(holder, i)
  PROVE  IInv'
<1> DEFINE cycle  == cycles[i]
           payout == Payout(cycle, holder)
           freed  == Freed(cycle, holder)
           next   == [cycle EXCEPT !.claimants = @ \cup {holder}, !.claims = @ + 1]
<1>1. cycles \in Seq(CycleType) /\ \A id \in DOMAIN cycles : CycleInv(cycles[id])
  BY DEF IInv, TypeOK
<1>2. DOMAIN cycles = 1 .. Len(cycles) /\ Len(cycles) \in Nat
  BY <1>1, LenProperties
<1>3. cycle \in CycleType /\ CycleInv(cycle)
  BY <1>1, <1>2, ElementOfSeq
<1>4. /\ cycle.state = "Payable" /\ holder \in Holders(cycle.roster) \ cycle.claimants
      /\ balance[cycle.token] >= payout
      /\ reserved' = [reserved EXCEPT ![cycle.token] = @ - freed]
      /\ balance' = [balance EXCEPT ![cycle.token] = @ - payout]
      /\ UNCHANGED <<governance, factory, openCycle, lastReleaseAt, lastOpsFundingAt, now>>
  BY DEF Claim
<1>5. cycles' = Rewritten(cycles, i, next)
  BY DEF Claim, Rewritten
<1>6. /\ next \in CycleType /\ CycleInv(next) /\ next.state = "Payable"
      /\ next.token = cycle.token
      /\ Freed(cycle, holder) = Left(cycle) - Left(next)
      /\ Payout(cycle, holder) \in Nat /\ Payout(cycle, holder) <= Freed(cycle, holder)
  BY <1>3, <1>4, ClaimedCycle
<1>7. Left(cycle) \in Nat /\ Left(next) \in Nat
  BY <1>3, <1>6, LeftCovers
<1>8. cycle.token \in Tokens
  BY <1>3 DEF CycleType
<1> HIDE DEF next, freed, payout
<1>9. /\ cycles' \in Seq(CycleType) /\ Len(cycles') = Len(cycles) /\ DOMAIN cycles' = DOMAIN cycles
      /\ cycles'[i] = next
      /\ \A id \in DOMAIN cycles \ {i} : cycles'[id] = cycles[id]
      /\ \A id \in DOMAIN cycles' : CycleInv(cycles'[id])
      /\ \A t : Owed(cycles', t) = Owed(cycles, t) - Owes(cycles[i], t) + Owes(next, t)
  <2>1. next \in CycleType /\ CycleInv(next)
    BY <1>6 DEF next
  <2> HIDE DEF cycle
  <2> QED
    BY <1>1, <1>5, <2>1, OneCycleChanges
<1>10. payout \in Nat /\ freed \in Nat /\ payout <= freed /\ freed = Left(cycle) - Left(next)
  BY <1>6, <1>7 DEF payout, freed
<1>11. \A t \in Tokens : /\ balance[t] \in Nat /\ reserved[t] \in Nat
                         /\ reserved[t] = Owed(cycles, t)
                         /\ reserved[t] >= Owes(cycle, t)
  <2>1. ASSUME NEW t \in Tokens PROVE reserved[t] >= Owes(cycle, t)
    <3> DEFINE f == [id \in DOMAIN cycles |-> Owes(cycles[id], t)]
    <3>1. \A id \in DOMAIN cycles : f[id] \in Nat
      BY <1>1, <1>2, ElementOfSeq, OwesType
    <3>2. IsFiniteSet(DOMAIN cycles)
      BY <1>2, FS_Interval
    <3>3. f[i] = Owes(cycle, t) /\ reserved[t] = Total(f, DOMAIN cycles)
      BY DEF IInv, ReservedExact
    <3> HIDE DEF f
    <3>4. f[i] <= Total(f, DOMAIN cycles)
      BY <3>1, <3>2, TotalBoundsEntry
    <3>5. Total(f, DOMAIN cycles) \in Nat
      BY <3>1, <3>2, TotalType
    <3> QED
      BY <3>1, <3>3, <3>4, <3>5
  <2> QED
    BY <2>1 DEF IInv, TypeOK, ReservedExact, Owed
<1>12. \A t : /\ Owes(cycle, t) = IF cycle.token = t THEN Left(cycle) ELSE 0
              /\ Owes(next, t) = IF cycle.token = t THEN Left(next) ELSE 0
  BY <1>4, <1>6 DEF Owes
<1>13. \A t \in Tokens : /\ reserved'[t] = reserved[t] - (IF cycle.token = t THEN freed ELSE 0)
                         /\ balance'[t] = balance[t] - (IF cycle.token = t THEN payout ELSE 0)
  BY <1>4, <1>10, <1>11 DEF IInv, TypeOK, payout, freed
<1>14. \A t \in Tokens : reserved'[t] \in Nat /\ balance'[t] \in Nat
  <2> SUFFICES ASSUME NEW t \in Tokens PROVE reserved'[t] \in Nat /\ balance'[t] \in Nat
    OBVIOUS
  <2>1. CASE cycle.token = t
    <3>1. reserved[t] >= Left(cycle)
      BY <1>11, <1>12, <2>1
    <3> QED
      BY <1>4, <1>7, <1>10, <1>11, <1>13, <2>1, <3>1
  <2>2. CASE cycle.token # t
    BY <1>11, <1>13, <2>2
  <2> QED
    BY <2>1, <2>2
<1>15. TypeOK'
  <2>1. reserved' \in [Tokens -> Nat] /\ balance' \in [Tokens -> Nat]
    BY <1>4, <1>14 DEF IInv, TypeOK
  <2> QED
    BY <1>4, <1>9, <2>1 DEF IInv, TypeOK, governance, factory
<1>16. ProposalInv'
  BY <1>4 DEF IInv, ProposalInv, governance, Holders
<1>17. /\ \A id \in DOMAIN cycles : cycles'[id].state = cycles[id].state
       /\ openCycle # i
       /\ SlotTaken => openCycle \in DOMAIN cycles /\ cycles'[openCycle] = cycles[openCycle]
  <2>1. cycles[i].state = "Payable" /\ next.state = "Payable"
    BY <1>4, <1>6 DEF next
  <2>2. openCycle # i
    BY <2>1 DEF IInv, OneLiveVote
  <2>3. SlotTaken => openCycle \in DOMAIN cycles
    BY Slot DEF IInv
  <2> QED
    BY <1>9, <2>1, <2>2, <2>3
<1>18. SlotTaken' <=> SlotTaken
  <2>1. openCycle # 0 => openCycle \in DOMAIN cycles
    BY Slot DEF IInv
  <2> QED
    BY <1>4, <1>17, <2>1 DEF SlotTaken
<1>19. OneLiveVote'
  BY <1>4, <1>9, <1>17, <1>18 DEF IInv, OneLiveVote
<1>20. (SlotTaken => MonthSince(lastReleaseAt))'
  BY <1>4, <1>18 DEF IInv, MonthSince
<1>21. ReservedExact'
  <2>1. ASSUME NEW t \in Tokens PROVE reserved'[t] = Owed(cycles', t)
    <3>1. Owed(cycles', t) = reserved[t] - Owes(cycle, t) + Owes(next, t)
      BY <1>9, <1>11
    <3>2. CASE cycle.token = t
      BY <1>7, <1>10, <1>11, <1>12, <1>13, <3>1, <3>2
    <3>3. CASE cycle.token # t
      BY <1>11, <1>12, <1>13, <3>1, <3>3
    <3> QED
      BY <3>2, <3>3
  <2> QED
    BY <2>1 DEF ReservedExact, Owed
<1>22. Covered'
  <2> SUFFICES ASSUME NEW t \in Tokens
               PROVE  balance'[t] >= reserved'[t]
                        + (IF SlotTaken' /\ now' < cycles'[openCycle'].closesAt
                              /\ cycles'[openCycle'].token = t
                           THEN cycles'[openCycle'].amount ELSE 0)
    BY DEF Covered
  <2> DEFINE live == IF SlotTaken /\ now < cycles[openCycle].closesAt /\ cycles[openCycle].token = t
                     THEN cycles[openCycle].amount ELSE 0
  <2>1. live = IF SlotTaken' /\ now' < cycles'[openCycle'].closesAt
                  /\ cycles'[openCycle'].token = t
               THEN cycles'[openCycle'].amount ELSE 0
    BY <1>4, <1>17, <1>18
  <2>2. balance[t] >= reserved[t] + live
    BY DEF IInv, Covered
  <2>3. live \in Nat
    <3>1. SlotTaken => cycles[openCycle].amount \in Nat
      BY Slot DEF IInv, CycleType
    <3> QED
      BY <3>1
  <2> HIDE DEF live
  <2>4. CASE cycle.token = t
    <3>1. reserved'[t] = reserved[t] - freed /\ balance'[t] = balance[t] - payout
      BY <1>13, <2>4
    <3>2. balance'[t] >= reserved'[t] + live
      BY <1>10, <1>11, <2>2, <2>3, <3>1
    <3> QED
      BY <2>1, <3>2
  <2>5. CASE cycle.token # t
    <3>1. reserved'[t] = reserved[t] /\ balance'[t] = balance[t]
      BY <1>11, <1>13, <2>5
    <3> QED
      BY <2>1, <2>2, <3>1
  <2> QED
    BY <2>4, <2>5
<1> QED
  BY <1>9, <1>15, <1>16, <1>19, <1>20, <1>21, <1>22 DEF IInv

-----------------------------------------------------------------------------
(***************************************************************************)
(* The calls on proposals, the funding of operations and the environment   *)
(***************************************************************************)

\* A step that leaves the payouts, the balances and the clock alone disturbs
\* nothing of the cycles.
LEMMA PayoutsKept ==
  ASSUME IInv, UNCHANGED <<payouts, balance, now>>, TypeOK', ProposalInv'
  PROVE  IInv'
<1>1. UNCHANGED <<cycles, openCycle, reserved, lastReleaseAt, balance, now>>
  BY DEF payouts
<1>2. OneLiveVote' /\ (SlotTaken => MonthSince(lastReleaseAt))'
  BY <1>1 DEF IInv, OneLiveVote, SlotTaken, MonthSince
<1>3. ReservedExact'
  BY <1>1 DEF IInv, ReservedExact
<1>4. Covered'
  BY <1>1 DEF IInv, Covered, SlotTaken
<1>5. (\A id \in DOMAIN cycles : CycleInv(cycles[id]))'
  BY <1>1 DEF IInv
<1> QED
  BY <1>2, <1>3, <1>4, <1>5 DEF IInv

\* Every action somebody may propose is one the treasury knows.
LEMMA ProposedActionType ==
  /\ \A choice \in SettingValues : <<"Update", choice[1], choice[2]>> \in ActionType
  /\ \A who \in Successors : <<"TransferAdmin", who>> \in ActionType
  /\ \A register \in Registers : <<"SetShareholders", register>> \in ActionType
  /\ \A owners \in OwnerLists : <<"SetOwners", owners>> \in ActionType
  /\ \A terms \in FundingTerms : <<"SetOpsFunding", terms>> \in ActionType
BY DEF ActionType

\* What the argument of a governed action is.
LEMMA ActionArgument ==
  ASSUME NEW action \in ActionType
  PROVE  /\ action[1] = "SetShareholders" => action[2] \in Registers
         /\ action[1] = "SetOwners" => action[2] \in OwnerLists
         /\ action[1] = "SetOpsFunding" => action[2] \in FundingTerms
BY DEF ActionType

LEMMA ProposeStep ==
  ASSUME IInv, NEW p \in People, NEW action \in ActionType, Propose(p, action)
  PROVE  IInv'
<1>1. /\ WellFormed(action)
      /\ proposal' = [action |-> action, roster |-> shareholders, closesAt |-> now + VOTE_WINDOW,
                      approvals |-> 0, voters |-> {}]
      /\ UNCHANGED <<payouts, factory, shareholders, opsFunding, lastOpsFundingAt, balance, now>>
  BY DEF Propose
<1>2. now + VOTE_WINDOW \in Nat
  BY TreasuryConfig DEF IInv, TypeOK
<1>3. proposal' \in ProposalType
  BY <1>1, <1>2 DEF ProposalType, IInv, TypeOK
<1>4. TypeOK'
  BY <1>1, <1>3 DEF IInv, TypeOK, payouts, factory
<1>5. ProposalInv'
  BY <1>1, FS_EmptySet DEF IInv, ProposalInv
<1> QED
  BY <1>1, <1>4, <1>5, PayoutsKept

LEMMA ApproveProposalStep ==
  ASSUME IInv, NEW p \in People, ApproveProposal(p)
  PROVE  IInv'
<1> DEFINE n   == proposal.approvals + 1
           who == proposal.voters \cup {p}
<1>1. /\ proposal # NoProposal /\ p \in Holders(proposal.roster) \ proposal.voters
      /\ proposal' = [proposal EXCEPT !.approvals = n, !.voters = who]
      /\ UNCHANGED <<payouts, factory, shareholders, opsFunding, lastOpsFundingAt, balance, now>>
  BY DEF ApproveProposal, MayApprove, Approved
<1>2. proposal \in ProposalType /\ proposal.voters \in SUBSET People /\ proposal.approvals \in Nat
  BY DEF IInv, TypeOK, ProposalType
<1>3. n \in Nat /\ who \in SUBSET People
  BY <1>2
<1>4. Cardinality(who) = n
  BY <1>1, <1>2, CountedOnce DEF IInv, ProposalInv
<1>5. who \subseteq Holders(proposal.roster)
  BY <1>1 DEF IInv, ProposalInv
<1> HIDE DEF n, who
<1>6. /\ proposal' \in ProposalType /\ proposal'.approvals = n /\ proposal'.voters = who
      /\ proposal'.roster = proposal.roster /\ proposal'.action = proposal.action
  BY <1>1, <1>2, <1>3 DEF ProposalType
<1>7. TypeOK'
  BY <1>1, <1>6 DEF IInv, TypeOK, payouts, factory
<1>8. ProposalInv'
  BY <1>1, <1>4, <1>5, <1>6 DEF IInv, ProposalInv
<1> QED
  BY <1>1, <1>7, <1>8, PayoutsKept

\* Equal shares are naturals.
LEMMA EqualSharesType ==
  ASSUME NEW owners \in OwnerLists, ValidOwners(owners)
  PROVE  EqualShares(owners) \in [People -> Nat]
<1> DEFINE n == Len(owners)
<1>1. n \in Nat \ {0} /\ BPS_TOTAL \in Nat
  BY TreasuryConfig DEF ValidOwners
<1> HIDE DEF n
<1>2. BPS_TOTAL \div n \in Nat
  BY <1>1
<1> QED
  BY <1>2 DEF EqualShares, n

\* What was voted is applied as it was checked when it was proposed, and the
\* slot is empty again.
LEMMA ExecuteProposalStep ==
  ASSUME IInv, ExecuteProposal
  PROVE  IInv'
<1> DEFINE action == proposal.action
<1>1. action \in ActionType /\ WellFormed(action) /\ proposal # NoProposal
  BY DEF IInv, TypeOK, ProposalType, ProposalInv, ExecuteProposal
<1>2. proposal' = NoProposal /\ UNCHANGED <<payouts, lastOpsFundingAt, balance, now>>
  BY DEF ExecuteProposal
<1>3. NoProposal \in ProposalType
  BY DEF NoProposal, ProposalType, ActionType
<1>4. \/ /\ DOMAIN settings' = DOMAIN settings
         /\ UNCHANGED <<shareholders, opsFunding>>
      \/ /\ ValidRegister(shareholders') /\ UNCHANGED <<opsFunding, settings>>
         /\ shareholders' \in [People -> Nat]
      \/ /\ opsFunding' \in FundingTerms /\ opsFunding'.bps <= BPS_TOTAL
         /\ UNCHANGED <<shareholders, settings>>
  <2>1. CASE action[1] = "Update" /\ Update(Self, action[2], action[3])
             /\ UNCHANGED <<shareholders, opsFunding>>
    BY <2>1 DEF Update
  <2>2. CASE action[1] = "TransferAdmin" /\ TransferAdmin(Self, action[2])
             /\ UNCHANGED <<shareholders, opsFunding>>
    BY <2>2 DEF TransferAdmin
  <2>3. CASE action[1] = "SetShareholders" /\ SetRegister(action[2])
    <3>1. action[2] \in [People -> Nat]
      BY <1>1, <2>3, ActionArgument, TreasuryConfig
    <3> QED
      BY <2>3, <3>1 DEF SetRegister, factory
  <2>4. CASE action[1] = "SetOwners" /\ SetRegister(EqualShares(action[2]))
    <3>1. action[2] \in OwnerLists
      BY <1>1, <2>4, ActionArgument
    <3>2. ValidOwners(action[2])
      BY <1>1, <2>4 DEF WellFormed
    <3>3. EqualShares(action[2]) \in [People -> Nat]
      BY <3>1, <3>2, EqualSharesType
    <3> QED
      BY <2>4, <3>3 DEF SetRegister, factory
  <2>5. CASE action[1] = "SetOpsFunding" /\ opsFunding' = action[2]
             /\ UNCHANGED <<shareholders, factory>>
    <3>1. action[2] \in FundingTerms
      BY <1>1, <2>5, ActionArgument
    <3>2. action[2].bps <= BPS_TOTAL
      BY <1>1, <2>5 DEF WellFormed
    <3> QED
      BY <2>5, <3>1, <3>2 DEF factory
  <2> QED
    BY <2>1, <2>2, <2>3, <2>4, <2>5 DEF ExecuteProposal
<1>5. TypeOK'
  BY <1>2, <1>3, <1>4 DEF IInv, TypeOK, payouts
<1>6. ProposalInv'
  <2>1. NoProposal.voters = {} /\ NoProposal.approvals = 0 /\ WellFormed(NoProposal.action)
    BY DEF NoProposal, WellFormed
  <2> QED
    BY <1>2, <1>4, <2>1, FS_EmptySet DEF IInv, ProposalInv
<1> QED
  BY <1>2, <1>5, <1>6, PayoutsKept

\* Operations take a share of what is not promised, and only while no vote can
\* still promise it.
LEMMA FundOperationsStep ==
  ASSUME IInv, FundOperations
  PROVE  IInv'
<1> DEFINE token  == opsFunding.token
           amount == Share(Available(token), opsFunding.bps)
<1>1. opsFunding \in FundingTerms /\ token \in Tokens /\ opsFunding.bps \in Nat
  BY TreasuryConfig DEF IInv, TypeOK, FundOperations
<1>2. /\ NoLiveVote /\ Available(token) > 0
      /\ lastOpsFundingAt' = now
      /\ balance' = [balance EXCEPT ![token] = @ - amount]
      /\ UNCHANGED <<payouts, governance, factory, now>>
  BY DEF FundOperations
<1>3. UNCHANGED <<cycles, openCycle, reserved, lastReleaseAt, shareholders, proposal, opsFunding>>
  BY <1>2 DEF payouts, governance
<1>4. \A t \in Tokens : balance[t] \in Nat /\ reserved[t] \in Nat /\ balance[t] >= reserved[t]
  BY ReservationCovered DEF IInv
<1>5. Available(token) \in Nat /\ Available(token) = balance[token] - reserved[token]
  BY <1>1, <1>4 DEF Available
<1>6. amount \in Nat /\ amount <= balance[token] - reserved[token]
  <2>1. opsFunding.bps <= BPS_TOTAL
    BY DEF IInv, ProposalInv
  <2> HIDE DEF token
  <2> QED
    BY <1>1, <1>5, <2>1, ShareBound, ShareWithinWhole
<1> HIDE DEF amount, token
<1>7. \A t \in Tokens : balance'[t] \in Nat /\ balance'[t] >= reserved[t]
  BY <1>1, <1>2, <1>4, <1>6 DEF IInv, TypeOK
<1>8. balance' \in [Tokens -> Nat] /\ now \in Nat
  BY <1>2, <1>7 DEF IInv, TypeOK
<1>9. TypeOK'
  BY <1>2, <1>3, <1>8 DEF IInv, TypeOK, factory
<1>10. ProposalInv' /\ OneLiveVote' /\ (SlotTaken => MonthSince(lastReleaseAt))'
  BY <1>2, <1>3 DEF IInv, ProposalInv, OneLiveVote, SlotTaken, MonthSince
<1>11. ReservedExact' /\ (\A id \in DOMAIN cycles : CycleInv(cycles[id]))'
  BY <1>3 DEF IInv, ReservedExact
<1>12. Covered'
  <2>1. ~(SlotTaken' /\ now' < cycles'[openCycle'].closesAt)
    BY <1>2, <1>3 DEF NoLiveVote, SlotTaken
  <2>2. \A t \in Tokens : balance'[t] >= reserved'[t] + 0
    BY <1>3, <1>4, <1>7
  <2> QED
    BY <2>1, <2>2 DEF Covered
<1> QED
  BY <1>9, <1>10, <1>11, <1>12 DEF IInv

LEMMA FeeArrivesStep ==
  ASSUME IInv, NEW u \in Tokens, NEW fee \in Fees, FeeArrives(u, fee)
  PROVE  IInv'
<1>1. /\ balance' = [balance EXCEPT ![u] = @ + fee]
      /\ UNCHANGED <<payouts, governance, factory, lastOpsFundingAt, now>>
  BY DEF FeeArrives
<1>2. UNCHANGED <<cycles, openCycle, reserved, lastReleaseAt, shareholders, proposal, opsFunding>>
  BY <1>1 DEF payouts, governance
<1>3. fee \in Nat
  BY TreasuryConfig
<1>4. \A t \in Tokens : balance[t] \in Nat /\ reserved[t] \in Nat
  BY DEF IInv, TypeOK
<1>5. \A t \in Tokens : balance'[t] \in Nat /\ balance'[t] >= balance[t]
  BY <1>1, <1>3, <1>4 DEF IInv, TypeOK
<1>6. TypeOK'
  BY <1>1, <1>2, <1>5 DEF IInv, TypeOK, factory
<1>7. ProposalInv' /\ OneLiveVote' /\ (SlotTaken => MonthSince(lastReleaseAt))'
  BY <1>1, <1>2 DEF IInv, ProposalInv, OneLiveVote, SlotTaken, MonthSince
<1>8. ReservedExact' /\ (\A id \in DOMAIN cycles : CycleInv(cycles[id]))'
  BY <1>2 DEF IInv, ReservedExact
<1>9. Covered'
  <2> SUFFICES ASSUME NEW t \in Tokens
               PROVE  balance'[t] >= reserved[t]
                        + (IF SlotTaken /\ now < cycles[openCycle].closesAt
                              /\ cycles[openCycle].token = t
                           THEN cycles[openCycle].amount ELSE 0)
    BY <1>1, <1>2 DEF Covered, SlotTaken
  <2> DEFINE live == IF SlotTaken /\ now < cycles[openCycle].closesAt /\ cycles[openCycle].token = t
                     THEN cycles[openCycle].amount ELSE 0
  <2>1. live \in Nat
    <3>1. SlotTaken => cycles[openCycle].amount \in Nat
      BY Slot DEF IInv, CycleType
    <3> QED
      BY <3>1
  <2>2. balance[t] >= reserved[t] + live
    BY DEF IInv, Covered
  <2> HIDE DEF live
  <2>3. balance'[t] >= reserved[t] + live
    BY <1>4, <1>5, <2>1, <2>2
  <2> QED
    BY <2>3 DEF live
<1> QED
  BY <1>6, <1>7, <1>8, <1>9 DEF IInv

\* Time only closes votes and lets months go by.
LEMMA TickStep ==
  ASSUME IInv, Tick
  PROVE  IInv'
<1>1. now \in Nat /\ now' = now + 1
      /\ UNCHANGED <<payouts, governance, factory, lastOpsFundingAt, balance>>
  BY DEF Tick, IInv, TypeOK
<1>2. UNCHANGED <<cycles, openCycle, reserved, lastReleaseAt, shareholders, proposal, opsFunding>>
  BY <1>1 DEF payouts, governance
<1>3. TypeOK'
  BY <1>1, <1>2 DEF IInv, TypeOK, factory
<1>4. ProposalInv' /\ OneLiveVote'
  BY <1>1, <1>2 DEF IInv, ProposalInv, OneLiveVote, SlotTaken
<1>5. (SlotTaken => MonthSince(lastReleaseAt))'
  BY <1>1, <1>2, TreasuryConfig DEF IInv, TypeOK, SlotTaken, MonthSince
<1>6. ReservedExact' /\ (\A id \in DOMAIN cycles : CycleInv(cycles[id]))'
  BY <1>2 DEF IInv, ReservedExact
<1>7. Covered'
  <2> SUFFICES ASSUME NEW t \in Tokens
               PROVE  balance[t] >= reserved[t]
                        + (IF SlotTaken /\ now + 1 < cycles[openCycle].closesAt
                              /\ cycles[openCycle].token = t
                           THEN cycles[openCycle].amount ELSE 0)
    BY <1>1, <1>2 DEF Covered, SlotTaken
  <2>1. balance[t] \in Nat /\ reserved[t] \in Nat /\ balance[t] >= reserved[t]
    BY ReservationCovered DEF IInv
  <2>2. SlotTaken => cycles[openCycle].closesAt \in Nat
    BY Slot DEF IInv, CycleType
  <2>3. CASE SlotTaken /\ now + 1 < cycles[openCycle].closesAt /\ cycles[openCycle].token = t
    <3>1. now < cycles[openCycle].closesAt
      BY <1>1, <2>2, <2>3
    <3>2. balance[t] >= reserved[t] + cycles[openCycle].amount
      BY <2>3, <3>1 DEF IInv, Covered
    <3> QED
      BY <2>3, <3>2
  <2>4. CASE ~(SlotTaken /\ now + 1 < cycles[openCycle].closesAt /\ cycles[openCycle].token = t)
    BY <2>1, <2>4
  <2> QED
    BY <2>3, <2>4
<1> QED
  BY <1>3, <1>4, <1>5, <1>6, <1>7 DEF IInv

LEMMA HandOverStep ==
  ASSUME IInv, NEW who, HandOver(who)
  PROVE  IInv'
<1>1. UNCHANGED <<payouts, governance, lastOpsFundingAt, balance, now, settings>>
  BY DEF HandOver, TransferAdmin
<1>2. TypeOK' /\ ProposalInv'
  BY <1>1 DEF IInv, TypeOK, ProposalInv, payouts, governance
<1> QED
  BY <1>1, <1>2, PayoutsKept

-----------------------------------------------------------------------------
(***************************************************************************)
(* The theorems                                                            *)
(***************************************************************************)

LEMMA InitInvariant == Init => IInv
<1> SUFFICES ASSUME Init PROVE IInv
  OBVIOUS
<1>1. DOMAIN cycles = {} /\ cycles \in Seq(CycleType) /\ Len(cycles) = 0
  BY EmptySeq DEF Init
<1>2. NoProposal \in ProposalType
  BY DEF NoProposal, ProposalType, ActionType
<1>3. DOMAIN settings = Settings
  BY FirstSettingsAccepted DEF Init, FactoryInit
<1>4. TypeOK
  BY <1>1, <1>2, <1>3, TreasuryConfig DEF Init, TypeOK, Genesis
<1>5. ProposalInv
  <2>1. NoProposal.voters = {} /\ NoProposal.approvals = 0 /\ WellFormed(NoProposal.action)
    BY DEF NoProposal, WellFormed
  <2>2. NoTerms.bps <= BPS_TOTAL
    BY TreasuryConfig DEF NoTerms
  <2> QED
    BY <2>1, <2>2, FS_EmptySet DEF Init, ProposalInv
<1>6. ~SlotTaken /\ OneLiveVote
  BY <1>1 DEF Init, SlotTaken, OneLiveVote
<1>7. ReservedExact
  <2> SUFFICES ASSUME NEW t \in Tokens PROVE reserved[t] = Owed(cycles, t)
    BY DEF ReservedExact, Owed
  <2>1. Owed(cycles, t) = 0
    BY <1>1, TotalZero DEF Owed
  <2> QED
    BY <2>1 DEF Init
<1>8. Covered
  BY <1>6 DEF Init, Covered
<1> QED
  BY <1>1, <1>4, <1>5, <1>6, <1>7, <1>8 DEF IInv

LEMMA NextInvariant == IInv /\ [Next]_vars => IInv'
<1> SUFFICES ASSUME IInv, [Next]_vars PROVE IInv'
  OBVIOUS
<1>1. ASSUME NEW p \in People, NEW t \in Tokens, OpenCycle(p, t) PROVE IInv'
  BY <1>1, OpenCycleStep
<1>2. ASSUME NEW p \in People, ApproveCycle(p) PROVE IInv'
  BY <1>2, ApproveCycleStep
<1>3. CASE SettleLapsedCycle
  BY <1>3, SettleLapsedStep
<1>4. ASSUME NEW p \in People, NEW id \in DOMAIN cycles, Claim(p, id) PROVE IInv'
  BY <1>4, ClaimStep
<1>5. CASE ProposeAny
  <2>1. PICK p \in People, action \in ActionType : Propose(p, action)
    BY <1>5, ProposedActionType DEF ProposeAny
  <2> QED
    BY <2>1, ProposeStep
<1>6. ASSUME NEW p \in People, ApproveProposal(p) PROVE IInv'
  BY <1>6, ApproveProposalStep
<1>7. CASE ExecuteProposal
  BY <1>7, ExecuteProposalStep
<1>8. CASE FundOperations
  BY <1>8, FundOperationsStep
<1>9. ASSUME NEW t \in Tokens, NEW fee \in Fees, FeeArrives(t, fee) PROVE IInv'
  BY <1>9, FeeArrivesStep
<1>10. ASSUME NEW who \in Successors, HandOver(who) PROVE IInv'
  BY <1>10, HandOverStep
<1>11. CASE Tick
  BY <1>11, TickStep
<1>12. CASE UNCHANGED vars
  <2>1. UNCHANGED <<payouts, balance, now, shareholders, proposal, opsFunding, settings, lastOpsFundingAt>>
    BY <1>12 DEF vars, governance, factory
  <2>2. TypeOK' /\ ProposalInv'
    BY <2>1 DEF IInv, TypeOK, ProposalInv, payouts
  <2> QED
    BY <2>1, <2>2, PayoutsKept
<1> QED
  BY <1>1, <1>2, <1>3, <1>4, <1>5, <1>6, <1>7, <1>8, <1>9, <1>10, <1>11, <1>12
     DEF Next, CycleCall, ProposalCall, Environment

THEOREM Invariant == Spec => []IInv
BY InitInvariant, NextInvariant, PTL DEF Spec

\* The treasury is type correct: no amount, reservation or balance ever goes
\* below zero, whatever claims truncate and operations take.
THEOREM TypeCorrect == Spec => []TypeOK
<1>1. IInv => TypeOK
  BY DEF IInv
<1> QED
  BY <1>1, Invariant, PTL

\* The treasury holds what it reserved and what the live vote may reserve.
THEOREM Solvent == Spec => []Covered
<1>1. IInv => Covered
  BY DEF IInv
<1> QED
  BY <1>1, Invariant, PTL

\* What is reserved is what the payable cycles have not paid out, to the unit.
THEOREM ReservesWhatItOwes == Spec => []ReservedExact
<1>1. IInv => ReservedExact
  BY DEF IInv
<1> QED
  BY <1>1, Invariant, PTL

\* One undecided cycle is under vote at a time, the one in the slot.
THEOREM VotesOneCycle == Spec => []OneLiveVote
<1>1. IInv => OneLiveVote
  BY DEF IInv
<1> QED
  BY <1>1, Invariant, PTL

\* A cycle pays only what two thirds of its register approved, each once.
THEOREM PaysOnMandate == Spec => []CycleMandate
<1>1. IInv => CycleMandate
  <2> SUFFICES ASSUME IInv, NEW id \in DOMAIN cycles, cycles[id].state = "Payable"
               PROVE  /\ cycles[id].voters \subseteq Holders(cycles[id].roster)
                      /\ 3 * Cardinality(cycles[id].voters)
                           >= 2 * Cardinality(Holders(cycles[id].roster))
    BY DEF CycleMandate
  <2> DEFINE cycle == cycles[id]
  <2>1. CycleInv(cycle)
    BY DEF IInv
  <2> HIDE DEF cycle
  <2>2. cycle.approvals = Cardinality(cycle.voters) /\ cycle.voters \subseteq Holders(cycle.roster)
    BY <2>1 DEF CycleInv
  <2>3. Decided(cycle)
    BY <2>1 DEF CycleInv, cycle
  <2>4. Cardinality(cycle.voters) * 3 >= Cardinality(Holders(cycle.roster)) * 2
    BY <2>2, <2>3 DEF Decided, Carried, APPROVAL_NUMERATOR, APPROVAL_DENOMINATOR
  <2>5. Cardinality(cycle.voters) \in Nat /\ Cardinality(Holders(cycle.roster)) \in Nat
    <3>1. IsFiniteSet(Holders(cycle.roster))
      BY TreasuryConfig, FS_Subset DEF Holders
    <3> QED
      BY <2>2, <3>1, FS_Subset, FS_CardinalityType
  <2> QED
    BY <2>2, <2>4, <2>5 DEF cycle
<1> QED
  BY <1>1, Invariant, PTL

\* Two releases never carry within a month: the cycle in the slot was opened a
\* month after the last release, and nothing is released while it is there.
THEOREM ReleasesMonthly == Spec => MonthlyReleases
<1> DEFINE Waits == lastReleaseAt' # lastReleaseAt =>
                      lastReleaseAt = 0 \/ now >= lastReleaseAt + MIN_RELEASE_INTERVAL
<1>1. IInv /\ [Next]_vars => [Waits]_vars
  <2> SUFFICES ASSUME IInv, Next, lastReleaseAt' # lastReleaseAt
               PROVE  lastReleaseAt = 0 \/ now >= lastReleaseAt + MIN_RELEASE_INTERVAL
    OBVIOUS
  <2>1. SlotTaken
    BY DEF Next, CycleCall, ProposalCall, ProposeAny, Environment, OpenCycle, ApproveCycle,
           SettleLapsedCycle, Claim, Propose, ApproveProposal, ExecuteProposal, FundOperations,
           FeeArrives, HandOver, Tick, payouts
  <2> QED
    BY <2>1 DEF IInv, MonthSince
<1> QED
  BY <1>1, Invariant, PTL DEF Spec, MonthlyReleases

-----------------------------------------------------------------------------
(***************************************************************************)
(* The treasury implements Mandate                                         *)
(***************************************************************************)

\* A valid register has holders, and only people are holders.
LEMMA SomebodyHolds ==
  ASSUME NEW register, ValidRegister(register)
  PROVE  Holders(register) \in (SUBSET People) \ {{}}
<1>1. Cardinality(Holders(register)) # 0
  BY TreasuryConfig DEF ValidRegister
<1>2. Holders(register) # {}
  BY <1>1, FS_EmptySet
<1> QED
  BY <1>2 DEF Holders

LEMMA NobodyAsked == Holders(NoProposal.roster) = {} /\ NoProposal.voters = {}
BY DEF NoProposal, Holders

\* The vote the treasury counts is the one the mandate counts.
LEMMA SameDecision ==
  ASSUME ProposalInv
  PROVE  Decided(proposal) <=> Promise!Decided
<1>1. proposal.approvals = Cardinality(proposal.voters)
  BY DEF ProposalInv
<1>2. Promise!Decided <=> Carried(Cardinality(proposal.voters), Cardinality(Holders(proposal.roster)))
  BY DEF Promise!Decided, Promise!Carried, Carried, Promise!Cardinality, Cardinality,
         APPROVAL_NUMERATOR, APPROVAL_DENOMINATOR,
         Promise!APPROVAL_NUMERATOR, Promise!APPROVAL_DENOMINATOR
<1> QED
  BY <1>1, <1>2 DEF Decided

\* Every call of the treasury is a step of the mandate, or none of its business.
LEMMA StepImplements == IInv /\ IInv' /\ [Next]_vars => [Promise!Next]_Promise!vars
<1> SUFFICES ASSUME IInv, IInv', [Next]_vars PROVE [Promise!Next]_Promise!vars
  OBVIOUS
<1>1. CASE UNCHANGED governance
  BY <1>1 DEF governance, Promise!vars
<1>2. ASSUME NEW p \in People, NEW action, Propose(p, action) PROVE Promise!Next
  <2>1. Promise!Open
    BY <1>2 DEF Propose, Promise!Open
  <2> QED
    BY <2>1 DEF Promise!Next
<1>3. ASSUME NEW p \in People, ApproveProposal(p) PROVE Promise!Next
  <2>1. p \in Holders(proposal.roster) \ proposal.voters /\ ~Decided(proposal)
    BY <1>3 DEF ApproveProposal, MayApprove
  <2>2. ~Promise!Decided
    BY <2>1, SameDecision DEF IInv
  <2>3. proposal'.voters = proposal.voters \cup {p} /\ proposal'.roster = proposal.roster
        /\ UNCHANGED <<shareholders, opsFunding>>
    BY <1>3 DEF ApproveProposal, Approved, IInv, TypeOK, ProposalType
  <2>4. Promise!Approve(p)
    BY <2>1, <2>2, <2>3 DEF Promise!Approve
  <2> QED
    BY <2>4 DEF Promise!Next
<1>4. ASSUME ExecuteProposal PROVE Promise!Next
  <2>1. Holders(proposal.roster) = Holders(shareholders) /\ Decided(proposal)
    BY <1>4 DEF ExecuteProposal, IInv, ProposalInv
  <2>2. Promise!Decided
    BY <2>1, SameDecision DEF IInv
  <2>3. Holders(proposal'.roster) = {} /\ proposal'.voters = {}
    BY <1>4, NobodyAsked DEF ExecuteProposal
  <2>4. Holders(shareholders') \in (SUBSET People) \ {{}}
    BY SomebodyHolds DEF IInv, TypeOK
  <2>5. Promise!Apply
    BY <2>1, <2>2, <2>3, <2>4 DEF Promise!Apply
  <2> QED
    BY <2>5 DEF Promise!Next
<1>5. CASE ProposalCall
  BY <1>2, <1>3, <1>4, <1>5 DEF ProposalCall, ProposeAny
<1>6. CASE CycleCall
  BY <1>1, <1>6 DEF CycleCall, OpenCycle, ApproveCycle, SettleLapsedCycle, Claim
<1>7. CASE FundOperations \/ Environment
  BY <1>1, <1>7 DEF FundOperations, Environment, FeeArrives, HandOver, Tick
<1>8. CASE UNCHANGED vars
  BY <1>1, <1>8 DEF vars
<1> QED
  BY <1>5, <1>6, <1>7, <1>8 DEF Next

\* The register and the operations funding change only by a proposal that two
\* thirds of the present shareholders approved, each of them once.
THEOREM GovernsByMandate == Spec => ImplementsMandate
<1>1. Init => Promise!Init
  <2> SUFFICES ASSUME Init PROVE Promise!Init
    OBVIOUS
  <2>1. Holders(shareholders) \in (SUBSET People) \ {{}}
    BY SomebodyHolds, TreasuryConfig DEF Init
  <2> QED
    BY <2>1, NobodyAsked DEF Init, Promise!Init
<1> QED
  BY <1>1, Invariant, StepImplements, PTL DEF Spec, ImplementsMandate, Promise!Spec

-----------------------------------------------------------------------------
(***************************************************************************)
(* Truncation.  The shares of any of the holders sum to at most the exact  *)
(* part of the amount that is theirs, and fall short of it by less than    *)
(* one unit for each of them.                                              *)
(***************************************************************************)
LEMMA ShareLoses ==
  ASSUME NEW amount \in Nat, NEW bps \in Nat
  PROVE  amount * bps + 1 <= Share(amount, bps) * BPS_TOTAL + BPS_TOTAL
<1> DEFINE product == amount * bps
<1>1. product \in Nat /\ BPS_TOTAL \in Nat \ {0}
  BY TreasuryConfig
<1> HIDE DEF product
<1>2. product < (product \div BPS_TOTAL) * BPS_TOTAL + BPS_TOTAL
  BY <1>1
<1>3. (product \div BPS_TOTAL) * BPS_TOTAL \in Nat
  BY <1>1
<1> QED
  BY <1>1, <1>2, <1>3 DEF Share, product

LEMMA SharesBetween ==
  ASSUME NEW cycle \in CycleType, NEW T \in SUBSET People
  PROVE  LET shares == Total([p \in People |-> Payout(cycle, p)], T)
             bps    == Total(cycle.roster, T)
             n      == Cardinality(T)
         IN  /\ shares \in Nat /\ bps \in Nat /\ n \in Nat
             /\ shares * BPS_TOTAL <= cycle.amount * bps
             /\ cycle.amount * bps + n <= (shares + n) * BPS_TOTAL
<1> DEFINE pay       == [p \in People |-> Payout(cycle, p)]
           amount    == cycle.amount
           shares(U) == Total(pay, U)
           bps(U)    == Total(cycle.roster, U)
           n(U)      == Cardinality(U)
           Between(U) == /\ shares(U) * BPS_TOTAL <= amount * bps(U)
                         /\ amount * bps(U) + n(U) <= (shares(U) + n(U)) * BPS_TOTAL
           bad       == {U \in SUBSET People : ~Between(U)}
<1>1. /\ cycle.roster \in [People -> Nat] /\ amount \in Nat /\ BPS_TOTAL \in Nat \ {0}
      /\ IsFiniteSet(People)
  BY TreasuryConfig DEF CycleType
<1>2. \A p \in People : /\ pay[p] \in Nat /\ pay[p] = Share(amount, cycle.roster[p])
                        /\ pay[p] * BPS_TOTAL <= amount * cycle.roster[p]
                        /\ amount * cycle.roster[p] + 1 <= pay[p] * BPS_TOTAL + BPS_TOTAL
  BY <1>1, ShareBound, ShareLoses DEF Payout
<1> HIDE DEF pay, amount
<1>3. ASSUME NEW U \in SUBSET People
      PROVE  IsFiniteSet(U) /\ shares(U) \in Nat /\ bps(U) \in Nat /\ n(U) \in Nat
  <2>1. IsFiniteSet(U)
    BY <1>1, FS_Subset
  <2>2. \A p \in U : pay[p] \in Nat /\ cycle.roster[p] \in Nat
    BY <1>1, <1>2
  <2> QED
    BY <2>1, <2>2, TotalType, FS_CardinalityType
<1>4. ASSUME NEW U \in SUBSET People, NEW x \in U, Between(U \ {x})
      PROVE  Between(U)
  <2> DEFINE V == U \ {x}
             a == shares(V)
             b == bps(V)
             k == n(V)
             s == pay[x]
             r == cycle.roster[x]
  <2>1. V \in SUBSET People /\ x \in People
    OBVIOUS
  <2>2. a \in Nat /\ b \in Nat /\ k \in Nat
    BY <1>3, <2>1
  <2>3. s \in Nat /\ r \in Nat /\ s * BPS_TOTAL <= amount * r /\ amount * r + 1 <= s * BPS_TOTAL + BPS_TOTAL
    BY <1>1, <1>2, <2>1
  <2>4. shares(U) = s + a /\ bps(U) = r + b
    <3>1. \A p \in U : pay[p] \in Nat /\ cycle.roster[p] \in Nat
      BY <1>1, <1>2
    <3> QED
      BY <1>3, <3>1, TotalSplit
  <2>5. n(U) = k + 1
    <3>1. IsFiniteSet(V) /\ x \notin V /\ V \cup {x} = U
      BY <1>3, <2>1
    <3> HIDE DEF V
    <3> QED
      BY <3>1, <2>2, FS_AddElement
  <2>6. a * BPS_TOTAL <= amount * b /\ amount * b + k <= (a + k) * BPS_TOTAL
    BY <1>4
  <2> HIDE DEF V, a, b, k, s, r, shares, bps, n
  <2>7. (s + a) * BPS_TOTAL = s * BPS_TOTAL + a * BPS_TOTAL
        /\ amount * (r + b) = amount * r + amount * b
        /\ (s + a + (k + 1)) * BPS_TOTAL = s * BPS_TOTAL + BPS_TOTAL + (a + k) * BPS_TOTAL
    BY <1>1, <2>2, <2>3
  <2>8. /\ s * BPS_TOTAL \in Int /\ a * BPS_TOTAL \in Int /\ (a + k) * BPS_TOTAL \in Int
        /\ amount * r \in Int /\ amount * b \in Int
    BY <1>1, <2>2, <2>3
  <2>9. /\ (s + a) * BPS_TOTAL <= amount * (r + b)
        /\ amount * (r + b) + (k + 1) <= (s + a + (k + 1)) * BPS_TOTAL
    BY <1>1, <2>2, <2>3, <2>6, <2>7, <2>8
  <2> QED
    BY <2>4, <2>5, <2>9
<1>5. Between({})
  <2>1. shares({}) = 0 /\ bps({}) = 0 /\ n({}) = 0
    BY TotalZero, FS_EmptySet
  <2> HIDE DEF shares, bps, n
  <2> QED
    BY <1>1, <2>1
<1>6. bad = {}
  <2> SUFFICES ASSUME bad # {} PROVE FALSE
    OBVIOUS
  <2>1. bad \in SUBSET (SUBSET People)
    OBVIOUS
  <2> HIDE DEF bad
  <2>2. PICK U \in bad : \A x \in U : U \ {x} \notin bad
    BY <1>1, <2>1, SmallestFailure
  <2> USE DEF bad
  <2> HIDE DEF Between
  <2>3. U \in SUBSET People /\ ~Between(U)
    OBVIOUS
  <2>4. PICK x \in U : TRUE
    BY <1>5, <2>3
  <2>5. U \ {x} \in SUBSET People /\ Between(U \ {x})
    BY <2>2, <2>3
  <2> QED
    BY <1>4, <2>3, <2>5
<1>7. Between(T)
  <2> HIDE DEF Between
  <2> QED
    BY <1>6
<1> QED
  BY <1>3, <1>7 DEF pay, amount

\* What a payable cycle keeps reserved pays everybody who has not claimed.
LEMMA LeftPaysTheRest ==
  ASSUME NEW cycle \in CycleType, CycleInv(cycle)
  PROVE  LET due == Total([p \in People |-> Payout(cycle, p)], Unclaimed(cycle))
         IN  due \in Nat /\ due <= Left(cycle)
<1> DEFINE due   == Total([p \in People |-> Payout(cycle, p)], Unclaimed(cycle))
           rest  == cycle.amount - Paid(cycle)
           bps   == Total(cycle.roster, Unclaimed(cycle))
           whole == Total(cycle.roster, People \ cycle.claimants)
<1>1. /\ cycle.roster \in [People -> Nat] /\ cycle.amount \in Nat
      /\ BPS_TOTAL \in Nat \ {0} /\ IsFiniteSet(People)
  BY TreasuryConfig DEF CycleType
<1>2. Unclaimed(cycle) \in SUBSET (People \ cycle.claimants) /\ Unclaimed(cycle) \in SUBSET People
  BY DEF Unclaimed, Holders
<1>3. due \in Nat /\ bps \in Nat /\ due * BPS_TOTAL <= cycle.amount * bps
  BY <1>2, SharesBetween
<1>4. CASE Unclaimed(cycle) = {}
  BY <1>4, TotalZero DEF Left
<1>5. CASE Unclaimed(cycle) # {}
  <2>1. bps <= whole /\ whole \in Nat
    <3>1. IsFiniteSet(People \ cycle.claimants)
      BY <1>1, FS_Difference
    <3>2. \A p \in People \ cycle.claimants : cycle.roster[p] \in Nat
      BY <1>1
    <3> QED
      BY <1>2, <3>1, <3>2, TotalSubset, TotalType
  <2>2. rest \in Nat /\ rest * BPS_TOTAL >= cycle.amount * whole
    BY LeftCovers DEF CycleInv
  <2>3. Left(cycle) = rest
    BY <1>5 DEF Left
  <2> HIDE DEF due, rest, bps, whole
  <2>4. cycle.amount * bps <= cycle.amount * whole
    <3>1. whole - bps \in Nat /\ cycle.amount * (whole - bps) \in Nat
      BY <1>1, <1>3, <2>1
    <3>2. cycle.amount * (whole - bps) = cycle.amount * whole - cycle.amount * bps
      BY <1>1, <1>3, <2>1
    <3>3. cycle.amount * whole \in Int /\ cycle.amount * bps \in Int
      BY <1>1, <1>3, <2>1
    <3> QED
      BY <3>1, <3>2, <3>3
  <2>5. rest * BPS_TOTAL >= due * BPS_TOTAL
    <3>1. /\ rest * BPS_TOTAL \in Int /\ due * BPS_TOTAL \in Int
          /\ cycle.amount * whole \in Int /\ cycle.amount * bps \in Int
      BY <1>1, <1>3, <2>1, <2>2
    <3> QED
      BY <3>1, <1>3, <2>2, <2>4
  <2>6. rest >= due
    BY <1>1, <1>3, <2>2, <2>5, Cancel
  <2> QED
    BY <1>3, <2>2, <2>3, <2>6 DEF due
<1> QED
  BY <1>3, <1>4, <1>5

\* The treasury can pay, at any moment and all together, every share of every
\* payable cycle that has not been claimed.
THEOREM EveryClaimIsCovered == Spec => []ClaimsCovered
<1>1. ASSUME IInv, NEW t \in Tokens
      PROVE  LET due(id) == IF cycles[id].token = t /\ cycles[id].state = "Payable"
                            THEN Total([p \in People |-> Payout(cycles[id], p)], Unclaimed(cycles[id]))
                            ELSE 0
             IN  balance[t] >= Total([id \in DOMAIN cycles |-> due(id)], DOMAIN cycles)
  <2> DEFINE due(id) == IF cycles[id].token = t /\ cycles[id].state = "Payable"
                        THEN Total([p \in People |-> Payout(cycles[id], p)], Unclaimed(cycles[id]))
                        ELSE 0
             dues == [id \in DOMAIN cycles |-> due(id)]
             owes == [id \in DOMAIN cycles |-> Owes(cycles[id], t)]
  <2>1. IsFiniteSet(DOMAIN cycles) /\ \A id \in DOMAIN cycles : cycles[id] \in CycleType
    <3>1. DOMAIN cycles = 1 .. Len(cycles) /\ Len(cycles) \in Nat
      BY <1>1, LenProperties DEF IInv, TypeOK
    <3>2. IsFiniteSet(DOMAIN cycles)
      BY <3>1, FS_Interval
    <3> QED
      BY <1>1, <3>1, <3>2, ElementOfSeq DEF IInv, TypeOK
  <2>2. ASSUME NEW id \in DOMAIN cycles
        PROVE  dues[id] \in Nat /\ owes[id] \in Nat /\ dues[id] <= owes[id]
    <3>1. cycles[id] \in CycleType /\ CycleInv(cycles[id])
      BY <1>1, <2>1 DEF IInv
    <3>2. owes[id] = Owes(cycles[id], t) /\ dues[id] = due(id)
      OBVIOUS
    <3>3. Owes(cycles[id], t) \in Nat
      BY <3>1, OwesType
    <3>4. due(id) \in Nat /\ due(id) <= Owes(cycles[id], t)
      BY <3>1, LeftPaysTheRest DEF Owes
    <3> HIDE DEF dues, owes, due
    <3> QED
      BY <3>2, <3>3, <3>4
  <2> HIDE DEF dues, owes, due
  <2>3. Total(dues, DOMAIN cycles) <= Total(owes, DOMAIN cycles)
    BY <2>1, <2>2, TotalMonotone
  <2>4. Total(dues, DOMAIN cycles) \in Nat
    BY <2>1, <2>2, TotalType
  <2>5. reserved[t] = Total(owes, DOMAIN cycles)
    BY <1>1 DEF IInv, ReservedExact, owes
  <2>6. balance[t] \in Nat /\ reserved[t] \in Nat /\ balance[t] >= reserved[t]
    BY <1>1, ReservationCovered DEF IInv
  <2>7. balance[t] >= Total(dues, DOMAIN cycles)
    BY <2>3, <2>4, <2>5, <2>6
  <2> QED
    BY <2>7 DEF dues, due
<1>2. IInv => ClaimsCovered
  BY <1>1 DEF ClaimsCovered
<1> QED
  BY <1>2, Invariant, PTL

\* Truncation costs the holders of a cycle less than one unit each, all told.
THEOREM TruncationIsSmall == Spec => []DustBounded
<1>1. ASSUME NEW cycle \in CycleType, CycleInv(cycle), cycle.state = "Payable", Unclaimed(cycle) = {}
      PROVE  /\ Paid(cycle) <= cycle.amount
             /\ cycle.amount < Paid(cycle) + Cardinality(Holders(cycle.roster))
  <2> DEFINE paid    == Paid(cycle)
             holders == Holders(cycle.roster)
             n       == Cardinality(holders)
  <2>1. cycle.claimants = holders /\ holders \in SUBSET People
    BY <1>1 DEF Unclaimed, CycleInv, Holders
  <2>2. Total(cycle.roster, holders) = BPS_TOTAL
    <3>1. \A p \in People \ holders : cycle.roster[p] = 0
      BY DEF CycleType, Holders
    <3>2. Total(cycle.roster, People) = Total(cycle.roster, holders)
      BY <2>1, <3>1, TotalSupport
    <3> QED
      BY <1>1, <3>2 DEF CycleInv, ValidRegister
  <2>3. paid = Total([p \in People |-> Payout(cycle, p)], holders)
    BY <2>1 DEF Paid
  <2>4. /\ paid \in Nat /\ n \in Nat
        /\ paid * BPS_TOTAL <= cycle.amount * BPS_TOTAL
        /\ cycle.amount * BPS_TOTAL + n <= (paid + n) * BPS_TOTAL
    BY <2>1, <2>2, <2>3, SharesBetween
  <2>5. n >= 1 /\ cycle.amount \in Nat /\ BPS_TOTAL \in Nat \ {0}
    BY <1>1, TreasuryConfig DEF CycleInv, ValidRegister, CycleType
  <2> HIDE DEF paid, holders, n
  <2>6. paid <= cycle.amount
    BY <2>4, <2>5, Cancel
  <2>7. cycle.amount < paid + n
    <3>1. SUFFICES ASSUME cycle.amount >= paid + n PROVE FALSE
      BY <2>4, <2>5
    <3>2. cycle.amount * BPS_TOTAL >= (paid + n) * BPS_TOTAL
      <4>1. cycle.amount - (paid + n) \in Nat
        BY <2>4, <2>5, <3>1
      <4>2. (cycle.amount - (paid + n)) * BPS_TOTAL \in Nat
        BY <2>5, <4>1
      <4>3. (cycle.amount - (paid + n)) * BPS_TOTAL = cycle.amount * BPS_TOTAL - (paid + n) * BPS_TOTAL
        BY <2>4, <2>5
      <4>4. cycle.amount * BPS_TOTAL \in Int /\ (paid + n) * BPS_TOTAL \in Int
        BY <2>4, <2>5
      <4> QED
        BY <4>2, <4>3, <4>4
    <3>3. cycle.amount * BPS_TOTAL \in Int /\ (paid + n) * BPS_TOTAL \in Int
      BY <2>4, <2>5
    <3> QED
      BY <3>2, <3>3, <2>4, <2>5
  <2> QED
    BY <2>6, <2>7 DEF paid, n, holders
<1>2. ASSUME IInv, NEW id \in DOMAIN cycles
      PROVE  cycles[id] \in CycleType /\ CycleInv(cycles[id])
  <2>1. DOMAIN cycles = 1 .. Len(cycles) /\ Len(cycles) \in Nat
    BY <1>2, LenProperties DEF IInv, TypeOK
  <2> QED
    BY <1>2, <2>1, ElementOfSeq DEF IInv, TypeOK
<1>3. IInv => DustBounded
  BY <1>1, <1>2 DEF DustBounded
<1> QED
  BY <1>3, Invariant, PTL

-----------------------------------------------------------------------------
(***************************************************************************)
(* The past of a cycle                                                     *)
(***************************************************************************)
LEMMA CycleContinues ==
  ASSUME IInv, Next, NEW id \in DOMAIN cycles
  PROVE  id \in DOMAIN cycles' /\ Continues(cycles[id], cycles'[id])
<1>1. /\ cycles \in Seq(CycleType) /\ DOMAIN cycles = 1 .. Len(cycles) /\ Len(cycles) \in Nat
      /\ \A k \in DOMAIN cycles : cycles[k] \in CycleType
  <2>1. cycles \in Seq(CycleType)
    BY DEF IInv, TypeOK
  <2>2. DOMAIN cycles = 1 .. Len(cycles) /\ Len(cycles) \in Nat
    BY <2>1, LenProperties
  <2> QED
    BY <2>1, <2>2, ElementOfSeq
<1>2. ASSUME NEW cycle \in CycleType PROVE Continues(cycle, cycle)
  BY DEF Continues
<1>3. ASSUME UNCHANGED cycles
      PROVE  id \in DOMAIN cycles' /\ Continues(cycles[id], cycles'[id])
  BY <1>1, <1>2, <1>3
<1>4. ASSUME NEW i \in DOMAIN cycles, NEW cycle, cycles' = [cycles EXCEPT ![i] = cycle],
             Continues(cycles[i], cycle)
      PROVE  id \in DOMAIN cycles' /\ Continues(cycles[id], cycles'[id])
  <2>1. CASE id = i
    BY <1>4, <2>1
  <2>2. CASE id # i
    <3>1. cycles'[id] = cycles[id] /\ id \in DOMAIN cycles'
      BY <1>4, <2>2
    <3> QED
      BY <1>1, <1>2, <3>1
  <2> QED
    BY <2>1, <2>2
<1>5. ASSUME NEW p \in People, NEW t \in Tokens, OpenCycle(p, t)
      PROVE  id \in DOMAIN cycles' /\ Continues(cycles[id], cycles'[id])
  <2>1. PICK cycle : cycles' = Append(cycles, cycle)
    BY <1>5 DEF OpenCycle
  <2>2. id \in DOMAIN cycles' /\ cycles'[id] = cycles[id]
    BY <1>1, <2>1
  <2> QED
    BY <1>1, <1>2, <2>2
<1>6. ASSUME NEW p \in People, ApproveCycle(p)
      PROVE  id \in DOMAIN cycles' /\ Continues(cycles[id], cycles'[id])
  <2> DEFINE cycle   == cycles[openCycle]
             next    == Approved(cycle, p)
             payable == [next EXCEPT !.state = "Payable"]
  <2>1. openCycle \in DOMAIN cycles /\ cycle \in CycleType /\ cycle.state = "Voting"
    BY <1>6, Slot DEF IInv, ApproveCycle, SlotTaken
  <2>2. now < cycle.closesAt /\ now \in Nat
    BY <1>6 DEF ApproveCycle, MayApprove, IInv, TypeOK
  <2>3. /\ next.token = cycle.token /\ next.amount = cycle.amount /\ next.roster = cycle.roster
        /\ next.closesAt = cycle.closesAt /\ next.state = cycle.state
        /\ next.voters = cycle.voters \cup {p} /\ next.claimants = cycle.claimants
        /\ payable.token = cycle.token /\ payable.amount = cycle.amount
        /\ payable.roster = cycle.roster /\ payable.closesAt = cycle.closesAt
        /\ payable.voters = cycle.voters \cup {p} /\ payable.claimants = cycle.claimants
    BY <2>1 DEF Approved, CycleType
  <2>4. ~(now >= cycle.closesAt)
    BY <2>1, <2>2 DEF CycleType
  <2>5. Continues(cycle, next) /\ Continues(cycle, payable)
    <3> HIDE DEF next, payable, cycle
    <3> QED
      BY <2>1, <2>3, <2>4 DEF Continues
  <2>6. cycles' = [cycles EXCEPT ![openCycle] = next] \/ cycles' = [cycles EXCEPT ![openCycle] = payable]
    BY <1>6 DEF ApproveCycle
  <2> HIDE DEF next, payable
  <2> QED
    BY <1>4, <2>1, <2>5, <2>6
<1>7. ASSUME SettleLapsedCycle
      PROVE  id \in DOMAIN cycles' /\ Continues(cycles[id], cycles'[id])
  <2> DEFINE cycle  == cycles[openCycle]
             lapsed == [cycle EXCEPT !.state = "Lapsed"]
  <2>1. openCycle \in DOMAIN cycles /\ cycle \in CycleType /\ cycle.state = "Voting"
    BY <1>7, Slot DEF IInv, SettleLapsedCycle, SlotTaken
  <2>2. Continues(cycle, lapsed)
    BY <2>1 DEF Continues, CycleType
  <2>3. cycles' = [cycles EXCEPT ![openCycle] = lapsed]
    BY <1>7, <2>1 DEF SettleLapsedCycle
  <2> HIDE DEF lapsed
  <2> QED
    BY <1>4, <2>1, <2>2, <2>3
<1>8. ASSUME NEW holder \in People, NEW i \in DOMAIN cycles, Claim(holder, i)
      PROVE  id \in DOMAIN cycles' /\ Continues(cycles[id], cycles'[id])
  <2> DEFINE cycle == cycles[i]
             next  == [cycle EXCEPT !.claimants = @ \cup {holder}, !.claims = @ + 1]
  <2>1. cycle \in CycleType /\ cycle.state = "Payable"
    BY <1>1, <1>8 DEF Claim
  <2>2. Continues(cycle, next)
    BY <2>1 DEF Continues, CycleType
  <2>3. cycles' = [cycles EXCEPT ![i] = next]
    BY <1>8 DEF Claim
  <2> HIDE DEF next
  <2> QED
    BY <1>4, <2>2, <2>3
<1>9. CASE CycleCall
  BY <1>5, <1>6, <1>7, <1>8, <1>9 DEF CycleCall
<1>10. CASE ProposalCall \/ FundOperations \/ Environment
  <2>1. UNCHANGED cycles
    BY <1>10 DEF ProposalCall, ProposeAny, Propose, ApproveProposal, ExecuteProposal,
                 FundOperations, Environment, FeeArrives, HandOver, Tick, payouts
  <2> QED
    BY <1>3, <2>1
<1> QED
  BY <1>9, <1>10 DEF Next

\* Nobody's shares in a cycle move once it is opened, no matter what the register
\* becomes meanwhile, and no cycle carries late.
THEOREM CyclesAreKept == Spec => CyclesAreHistory
<1> DEFINE Kept == \A id \in DOMAIN cycles : id \in DOMAIN cycles' /\ Continues(cycles[id], cycles'[id])
<1>1. IInv /\ [Next]_vars => [Kept]_vars
  BY CycleContinues
<1>2. [][Kept]_vars <=> CyclesAreHistory
  BY PTL DEF CyclesAreHistory
<1> QED
  BY <1>1, <1>2, Invariant, PTL DEF Spec

=============================================================================
