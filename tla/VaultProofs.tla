---------------------------- MODULE VaultProofs ----------------------------
(***************************************************************************)
(* Safety of the funding vault for every set of backers, every goal, bond, *)
(* set of tranches and windows the contract accepts.                       *)
(***************************************************************************)
EXTENDS VaultEscrow, VaultKeeper, TotalTheorems

(***************************************************************************)
(* The inductive invariant.  Solvency alone is not inductive: a claim can  *)
(* be paid only because the counter of unclaimed contributions is the sum  *)
(* of the entries left, a tranche only because the raise is complete and   *)
(* no milestone is paid twice, and a forfeiture is covered only because    *)
(* nobody has claimed before it.                                           *)
(***************************************************************************)
Accounts ==
  /\ unclaimed = Total(balance, Contributors)
  /\ state \in {"Raising", "Funded", "Active", "Completed"} => unclaimed = raised
  /\ state \in {"Raising", "Failed"} => raised < Goal /\ released = {}
  /\ state \in {"Funded", "Active", "Refunding", "Completed"} => raised = Goal
  /\ attested => state \in {"Failed", "Refunding", "Completed"}

IInv ==
  /\ TypeOK
  /\ Accounts
  /\ OneFate
  /\ BondGoesOneWay
  /\ RecordMatchesFate
  /\ Solvent

-----------------------------------------------------------------------------
(***************************************************************************)
(* Arithmetic                                                              *)
(***************************************************************************)

\* Division truncates towards zero, so a share times its divisor never exceeds
\* what was shared out.
LEMMA Truncation ==
  ASSUME NEW a \in Nat, NEW r \in Nat \ {0}
  PROVE  a \div r \in Nat /\ (a \div r) * r <= a
OBVIOUS

\* A backer's share of a pot, times the raise, is at most the exact product.
LEMMA ShareBound ==
  ASSUME NEW b \in Nat, NEW pot \in Nat, raised \in Nat \ {0}
  PROVE  ShareOf(b, pot) \in Nat /\ ShareOf(b, pot) * raised <= b * pot
<1>1. b * pot \in Nat
  OBVIOUS
<1> DEFINE product == b * pot
<1> HIDE DEF product
<1>2. product \div raised \in Nat /\ (product \div raised) * raised <= product
  BY <1>1, Truncation DEF product
<1> QED
  BY <1>2 DEF ShareOf, product

\* Paying one claim keeps the exact shares of the other claimants covered.
LEMMA ClaimKeepsCover ==
  ASSUME NEW t \in Nat, NEW r \in Nat, NEW owing \in Nat, NEW k \in Nat,
         NEW b \in Nat, NEW paid \in Nat,
         t * r >= owing * k, paid * r <= b * k, b <= owing, paid <= t
  PROVE  (t - paid) * r >= (owing - b) * k
<1>1. (t - paid) * r = t * r - paid * r
  OBVIOUS
<1>2. (owing - b) * k = owing * k - b * k
  OBVIOUS
<1>3. t * r \in Int /\ paid * r \in Int /\ owing * k \in Int /\ b * k \in Int
  OBVIOUS
<1> QED
  BY <1>1, <1>2, <1>3

\* More tokens cover a product that fewer already covered.
LEMMA CoverGrows ==
  ASSUME NEW t \in Nat, NEW u \in Nat, NEW r \in Nat, u >= t
  PROVE  u * r >= t * r
OBVIOUS

\* A set of positive numbers that is not empty has a least member.
LEMMA LeastMember ==
  ASSUME NEW U \in SUBSET (Nat \ {0}), U # {}
  PROVE  \E m \in U : \A k \in U : m <= k
<1> DEFINE prefixes == {1 .. m : m \in U}
<1>1. prefixes \subseteq FiniteSubsetsOf(Nat) /\ prefixes # {}
  <2>1. ASSUME NEW m \in U
        PROVE  1 .. m \in FiniteSubsetsOf(Nat)
    <3>1. m \in Int /\ 1 \in Int
      OBVIOUS
    <3>2. IsFiniteSet(1 .. m)
      BY <3>1, FS_Interval
    <3>3. 1 .. m \subseteq Nat
      OBVIOUS
    <3> QED
      BY <3>2, <3>3 DEF FiniteSubsetsOf
  <2> QED
    BY <2>1
<1>2. IsWellFoundedOn(StrictSubsetOrdering(Nat), FiniteSubsetsOf(Nat))
  BY FS_StrictSubsetOrderingWellFounded
<1>3. PICK X \in prefixes : \A Y \in prefixes : ~ (<<Y, X>> \in StrictSubsetOrdering(Nat))
  <2> HIDE DEF prefixes
  <2> QED
    BY <1>1, <1>2, WFMin
<1>4. PICK m \in U : X = 1 .. m
  OBVIOUS
<1>5. ASSUME NEW k \in U, ~(m <= k)
      PROVE  FALSE
  <2>1. 1 .. k \subseteq 1 .. m /\ 1 .. k # 1 .. m
    <3>1. m \in 1 .. m /\ m \notin 1 .. k
      BY <1>5
    <3> QED
      BY <1>5, <3>1
  <2>2. 1 .. k \in prefixes
    OBVIOUS
  <2>3. <<1 .. k, 1 .. m>> \in StrictSubsetOrdering(Nat)
    BY <2>1 DEF StrictSubsetOrdering
  <2> QED
    BY <1>3, <1>4, <2>2, <2>3
<1> QED
  BY <1>5

\* A wallet's weight is a natural number.
LEMMA WeightType ==
  ASSUME NEW b \in Nat, NEW r \in Nat
  PROVE  EffectiveWeight(b, r) \in Nat
<1>1. (r * WEIGHT_CAP_BPS) \div BPS \in Nat
  BY DEF WEIGHT_CAP_BPS, BPS
<1> QED
  BY <1>1 DEF EffectiveWeight, WeightCap

-----------------------------------------------------------------------------
(***************************************************************************)
(* Facts about a state that satisfies the invariant                        *)
(***************************************************************************)

\* The raise ends early when it ends well, so the clock alone only fails it.
LEMMA ClockOnlyFails ==
  ASSUME TypeOK, Accounts
  PROVE  /\ EffectiveState = IF state = "Raising" /\ now >= Deadline THEN "Failed" ELSE state
         /\ SyncedActivity = lastActivity
BY ConfigAccepted DEF TypeOK, Accounts, EffectiveState, SyncedActivity

\* A set of milestones is finite and no larger than all of them.
LEMMA MilestoneCount ==
  ASSUME NEW S \in SUBSET Milestones
  PROVE  IsFiniteSet(S) /\ Cardinality(S) \in 0 .. NumMilestones
<1>1. IsFiniteSet(Milestones) /\ Cardinality(Milestones) = NumMilestones
  BY ConfigAccepted, FS_Interval DEF Milestones
<1>2. IsFiniteSet(S) /\ Cardinality(S) <= NumMilestones
  BY <1>1, FS_Subset
<1> QED
  BY <1>2, FS_CardinalityType, ConfigAccepted

\* The tranches of some milestones sum to at most the goal, and to the goal
\* only when they are all of them.
LEMMA TrancheSums ==
  ASSUME NEW S \in SUBSET Milestones
  PROVE  /\ Total(Tranche, S) \in Nat
         /\ Total(Tranche, S) <= Goal
         /\ Total(Tranche, S) = Goal => S = Milestones
         /\ \A m \in Milestones \ S : Total(Tranche, S \cup {m}) = Total(Tranche, S) + Tranche[m]
<1>1. \A m \in Milestones : Tranche[m] \in Nat /\ Tranche[m] # 0
  BY ConfigAccepted
<1>2. IsFiniteSet(Milestones) /\ IsFiniteSet(S)
  BY MilestoneCount
<1>3. Total(Tranche, S) \in Nat
  BY <1>1, <1>2, TotalType
<1>4. /\ Total(Tranche, S) <= Total(Tranche, Milestones)
      /\ Total(Tranche, S) = Total(Tranche, Milestones) => \A m \in Milestones \ S : Tranche[m] = 0
  BY <1>1, <1>2, TotalSubset
<1>5. ASSUME NEW m \in Milestones \ S
      PROVE  Total(Tranche, S \cup {m}) = Total(Tranche, S) + Tranche[m]
  BY <1>1, <1>2, TotalInsert
<1> QED
  BY <1>1, <1>3, <1>4, <1>5, ConfigAccepted

\* A backer's entry is part of the sum of all entries.
LEMMA BalanceSums ==
  ASSUME TypeOK
  PROVE  /\ Total(balance, Contributors) \in Nat
         /\ \A c \in Contributors : balance[c] <= Total(balance, Contributors)
<1>1. \A c \in Contributors : balance[c] \in Nat
  BY DEF TypeOK
<1>2. IsFiniteSet(Contributors)
  BY ConfigAccepted
<1> QED
  BY <1>1, <1>2, TotalType, TotalBoundsEntry

\* Writing one entry changes the sum of all entries by the difference.
LEMMA BalanceUpdate ==
  ASSUME TypeOK, NEW c \in Contributors, NEW amount \in Nat
  PROVE  Total([balance EXCEPT ![c] = amount], Contributors)
           = Total(balance, Contributors) - balance[c] + amount
<1> DEFINE after == [balance EXCEPT ![c] = amount]
<1>1. \A y \in Contributors : balance[y] \in Nat /\ after[y] \in Nat
  BY DEF TypeOK
<1>2. \A y \in Contributors \ {c} : balance[y] = after[y]
  BY DEF TypeOK
<1>3. after[c] = amount
  BY DEF TypeOK
<1>4. IsFiniteSet(Contributors)
  BY ConfigAccepted
<1> HIDE DEF after
<1>5. Total(after, Contributors) = Total(balance, Contributors) - balance[c] + after[c]
  BY <1>1, <1>2, <1>4, TotalUpdate
<1> QED
  BY <1>3, <1>5 DEF after

-----------------------------------------------------------------------------
LEMMA InitInvariant == Init => IInv
<1> SUFFICES ASSUME Init PROVE IInv
  OBVIOUS
<1>1. Total(balance, Contributors) = 0
  BY TotalZero DEF Init
<1>2. Total(Tranche, {}) = 0
  BY TotalZero
<1>3. Cardinality({}) = 0
  BY FS_EmptySet
<1>4. Milestones # {}
  BY ConfigAccepted DEF Milestones
<1>5. TypeOK
  <2>1. DOMAIN tracked = {} /\ tracked \in [DOMAIN tracked -> Nat]
    BY DEF Init
  <2>2. Cardinality(DOMAIN tracked) <= LARGEST_TRACKED
    BY <1>3, <2>1 DEF LARGEST_TRACKED
  <2>3. NumMilestones \in Nat
    BY ConfigAccepted DEF MAX_MILESTONES
  <2>4. record \in [outcome : Outcomes \cup {"none"}, approved : 0 .. NumMilestones]
    BY <2>3 DEF Init, Outcomes, NoRecord
  <2>5. raised \in 0 .. Goal /\ tokens \in Nat
    BY ConfigAccepted DEF Init
  <2>6. DOMAIN tracked \subseteq Contributors /\ released \subseteq Milestones /\ failed \subseteq Milestones
    BY <2>1 DEF Init
  <2>7. votes \in [Milestones -> SUBSET Contributors]
    BY DEF Init
  <2> QED
    BY <2>1, <2>2, <2>4, <2>5, <2>6, <2>7 DEF Init, TypeOK, VaultStates, Genesis
<1>6. Accounts
  BY ConfigAccepted, <1>1 DEF Init, Accounts
<1>7. OneFate
  BY <1>2, <1>3, <1>4 DEF Init, OneFate
<1>8. BondGoesOneWay /\ RecordMatchesFate
  BY DEF Init, BondGoesOneWay, RecordMatchesFate, NoRecord
<1>9. Solvent
  BY ConfigAccepted DEF Init, Solvent
<1> QED
  BY <1>5, <1>6, <1>7, <1>8, <1>9 DEF IInv

-----------------------------------------------------------------------------
(***************************************************************************)
(* Steps that leave the vault's storage alone                              *)
(***************************************************************************)

LEMMA StutterInvariant == IInv /\ UNCHANGED vars => IInv'
BY DEF IInv, TypeOK, Accounts, OneFate, BondGoesOneWay, RecordMatchesFate, Solvent,
       vars, ballots, pledges, ledger

LEMMA EnvironmentInvariant == IInv /\ Environment => IInv'
<1> SUFFICES ASSUME IInv, Environment PROVE IInv'
  OBVIOUS
<1> USE DEF IInv, others, ballots, pledges
<1>1. UNCHANGED others
  BY DEF Environment, Tick, Donate, DisableFactory, AddFactory
<1>2. tokens' \in Nat /\ tokens' >= tokens
  BY DEF Environment, Tick, Donate, DisableFactory, AddFactory, TypeOK
<1>3. now' \in Nat /\ trusted' \in BOOLEAN /\ donated' \in Nat
  <2>1. now \in Nat /\ donated \in Nat /\ trusted \in BOOLEAN
    BY DEF TypeOK
  <2>2. now' \in Nat /\ donated' \in Nat
    BY <2>1 DEF Environment, Tick, Donate, DisableFactory, AddFactory
  <2>3. trusted' \in BOOLEAN
    BY <2>1, Zenon DEF Environment, Tick, Donate, DisableFactory, AddFactory
  <2> QED
    BY <2>2, <2>3
<1>4. TypeOK'
  BY <1>1, <1>2, <1>3 DEF TypeOK
<1>5. Accounts' /\ OneFate' /\ BondGoesOneWay' /\ RecordMatchesFate'
  BY <1>1 DEF Accounts, OneFate, BondGoesOneWay, RecordMatchesFate
<1>6. Solvent'
  <2>1. tokens \in Nat /\ raised \in Nat /\ releasedTotal \in Nat /\ Bond \in Nat
    BY ConfigAccepted DEF TypeOK
  <2>2. Total(balance, Contributors) \in Nat
    BY BalanceSums
  <2>3. tokens' * raised >= tokens * raised
    BY <1>2, <2>1, CoverGrows
  <2>4. tokens' * raised \in Int /\ tokens * raised \in Int
    BY <1>2, <2>1
  <2>5. Total(balance, Contributors) * (raised - releasedTotal + Bond) \in Int
    BY <2>1, <2>2
  <2> QED
    BY <1>1, <1>2, <2>1, <2>2, <2>3, <2>4, <2>5 DEF Solvent
<1> QED
  BY <1>4, <1>5, <1>6

-----------------------------------------------------------------------------
(***************************************************************************)
(* The calls                                                               *)
(***************************************************************************)

\* What every state of the invariant gives an action to calculate with.
LEMMA StateFacts ==
  ASSUME IInv
  PROVE  /\ raised \in Nat /\ raised <= Goal /\ tokens \in Nat /\ unclaimed \in Nat
         /\ releasedTotal \in Nat /\ releasedTotal <= Goal /\ Goal \in Nat \ {0} /\ Bond \in Nat
         /\ released = {} => releasedTotal = 0
         /\ EffectiveState \in VaultStates
         /\ EffectiveState = "Failed" => state \in {"Raising", "Failed"}
         /\ EffectiveState # "Failed" => EffectiveState = state
         /\ SyncedActivity = lastActivity
<1>1. released \subseteq Milestones /\ releasedTotal = Total(Tranche, released)
  BY DEF IInv, TypeOK, OneFate
<1>2. releasedTotal \in Nat /\ releasedTotal <= Goal
  BY <1>1, TrancheSums
<1>3. released = {} => releasedTotal = 0
  BY <1>1, TotalZero
<1>4. /\ EffectiveState = IF state = "Raising" /\ now >= Deadline THEN "Failed" ELSE state
      /\ SyncedActivity = lastActivity
  BY ClockOnlyFails DEF IInv
<1>5. state \in VaultStates /\ raised \in 0 .. Goal /\ tokens \in Nat /\ unclaimed \in Nat
  BY DEF IInv, TypeOK
<1>6. Goal \in Nat \ {0} /\ Bond \in Nat
  BY ConfigAccepted
<1> QED
  BY <1>2, <1>3, <1>4, <1>5, <1>6 DEF VaultStates

LEMMA ClaimInvariant ==
  ASSUME IInv, NEW c \in Contributors, ClaimRefund(c)
  PROVE  IInv'
<1> DEFINE due  == RefundDue(c)
           paid == IF Sweeps(c) /\ tokens > due THEN tokens ELSE due
           b    == balance[c]
           k    == raised - releasedTotal + Bond
<1>1. /\ EffectiveState \in {"Failed", "Refunding"}
      /\ state' = EffectiveState /\ lastActivity' = lastActivity
  BY StateFacts DEF ClaimRefund, SyncState
<1>2. b \in Nat \ {0} /\ b <= Total(balance, Contributors) /\ Total(balance, Contributors) \in Nat
  BY BalanceSums DEF ClaimRefund, IInv, TypeOK
<1>3. Total(balance', Contributors) = Total(balance, Contributors) - b
  <2>1. Total([balance EXCEPT ![c] = 0], Contributors) = Total(balance, Contributors) - b + 0
    BY BalanceUpdate DEF IInv
  <2> QED
    BY <1>2, <2>1 DEF ClaimRefund
<1>4. unclaimed = Total(balance, Contributors) /\ unclaimed' = unclaimed - b
  BY DEF ClaimRefund, IInv, Accounts
<1>5. k \in Nat
  <2>1. EffectiveState = "Refunding" => raised = Goal
    BY StateFacts DEF IInv, Accounts
  <2>2. EffectiveState = "Failed" => releasedTotal = 0
    BY StateFacts DEF IInv, Accounts
  <2> QED
    BY <1>1, <2>1, <2>2, StateFacts
<1>6. /\ due \in Nat
      /\ EffectiveState = "Failed" => due = b
      /\ EffectiveState = "Refunding" => due * raised <= b * k
  <2>1. CASE EffectiveState = "Failed"
    BY <2>1, <1>2 DEF RefundDue
  <2>2. CASE EffectiveState = "Refunding"
    <3>1. raised = Goal /\ raised \in Nat \ {0} /\ raised - releasedTotal \in Nat /\ Bond \in Nat
      BY <2>2, StateFacts DEF IInv, Accounts
    <3> DEFINE principal == ShareOf(b, raised - releasedTotal)
               forfeit   == ShareOf(b, Bond)
    <3>2. principal \in Nat /\ principal * raised <= b * (raised - releasedTotal)
      BY <1>2, <3>1, ShareBound
    <3>3. forfeit \in Nat /\ forfeit * raised <= b * Bond
      BY <1>2, <3>1, ShareBound
    <3>4. due = principal + forfeit
      BY <2>2 DEF RefundDue
    <3> HIDE DEF principal, forfeit, due, b
    <3>5. (principal + forfeit) * raised = principal * raised + forfeit * raised
      BY <3>1, <3>2, <3>3
    <3>6. b * k = b * (raised - releasedTotal) + b * Bond
      BY <1>2, <3>1
    <3>7. /\ principal * raised \in Int /\ forfeit * raised \in Int
          /\ b * (raised - releasedTotal) \in Int /\ b * Bond \in Int
      BY <1>2, <3>1, <3>2, <3>3
    <3> HIDE DEF k
    <3> QED
      BY <2>2, <3>2, <3>3, <3>4, <3>5, <3>6, <3>7
  <2> QED
    BY <1>1, <2>1, <2>2
<1>7. paid \in Nat /\ paid <= tokens /\ tokens' = tokens - paid /\ tokens' \in Nat
  <2>1. tokens \in Nat
    BY StateFacts
  <2>2. tokens >= paid /\ tokens' = tokens - paid
    BY DEF ClaimRefund
  <2>3. paid \in Nat
    BY <2>1, <1>6
  <2> HIDE DEF paid
  <2> QED
    BY <2>1, <2>2, <2>3
<1>8. EffectiveState = "Failed" => paid = b
  BY <1>6 DEF Sweeps
<1>9. Sweeps(c) => b = Total(balance, Contributors) /\ EffectiveState = "Refunding"
  BY <1>4 DEF Sweeps
<1>10. TypeOK'
  <2>1. balance' \in [Contributors -> Nat] /\ refunded' \in [Contributors -> Nat]
    <3>1. refunded' = [refunded EXCEPT ![c] = @ + paid] /\ balance' = [balance EXCEPT ![c] = 0]
      BY DEF ClaimRefund
    <3> HIDE DEF paid
    <3> QED
      BY <3>1, <1>7 DEF IInv, TypeOK
  <2>2. unclaimed' \in Nat
    BY <1>2, <1>4
  <2>3. bondReturned' \in BOOLEAN
    BY DEF ClaimRefund, IInv, TypeOK
  <2>4. state' \in VaultStates /\ lastActivity' \in Nat
    BY <1>1 DEF IInv, TypeOK, VaultStates
  <2> QED
    BY <1>7, <2>1, <2>2, <2>3, <2>4 DEF ClaimRefund, IInv, TypeOK, ballots
<1>11. Accounts'
  <2>1. unclaimed' = Total(balance', Contributors)
    BY <1>3, <1>4
  <2> QED
    BY <1>1, <2>1, StateFacts DEF ClaimRefund, IInv, Accounts
<1>12. OneFate'
  BY <1>1, StateFacts DEF ClaimRefund, IInv, OneFate, Accounts
<1>13. BondGoesOneWay'
  <2>1. bondReturned' = IF Sweeps(c) THEN TRUE ELSE bondReturned
    BY DEF ClaimRefund
  <2>2. state' = "Failed" => bondReturned' = bondReturned
    BY <1>1, <1>9, <2>1
  <2>3. CASE state' = "Failed"
    BY <2>2, <2>3, <1>1, StateFacts DEF ClaimRefund, IInv, BondGoesOneWay
  <2>4. CASE state' = "Refunding"
    BY <2>4, <1>1, StateFacts DEF ClaimRefund, IInv, BondGoesOneWay
  <2> QED
    BY <1>1, <2>3, <2>4
<1>14. RecordMatchesFate'
  BY <1>1, StateFacts DEF ClaimRefund, IInv, RecordMatchesFate, Accounts
<1>15. Solvent'
  <2> DEFINE owing == Total(balance, Contributors)
  <2>1. CASE EffectiveState = "Failed"
    <3>1. bondReturned' = bondReturned
      BY <2>1 DEF ClaimRefund, Sweeps
    <3>2. tokens >= owing + (IF bondReturned THEN 0 ELSE Bond)
      <4>1. CASE state = "Failed"
        BY <4>1 DEF IInv, Solvent
      <4>2. CASE state = "Raising"
        <5>1. tokens >= raised - releasedTotal + Bond /\ releasedTotal = 0 /\ owing = raised
          BY <4>2, <1>4, StateFacts DEF IInv, Solvent, Accounts
        <5> HIDE DEF owing
        <5> QED
          BY <5>1, StateFacts
      <4> QED
        BY <2>1, <4>1, <4>2, StateFacts
    <3>3. tokens' >= Total(balance', Contributors) + (IF bondReturned' THEN 0 ELSE Bond)
      <4>1. tokens' = tokens - b
        BY <2>1, <1>7, <1>8
      <4> HIDE DEF b
      <4> QED
        BY <4>1, <3>1, <3>2, <1>2, <1>3, StateFacts
    <3> QED
      BY <2>1, <3>3, <1>1 DEF Solvent
  <2>2. CASE EffectiveState = "Refunding"
    <3>1. tokens * raised >= owing * k
      BY <2>2, StateFacts DEF IInv, Solvent
    <3>2. tokens' * raised >= (owing - b) * k
      <4>1. CASE Sweeps(c)
        <5> HIDE DEF k, b, owing
        <5>1. owing - b = 0
          BY <4>1, <1>2, <1>9 DEF owing
        <5>2. tokens' * raised >= 0
          BY <1>7, StateFacts
        <5> QED
          BY <5>1, <5>2, <1>5
      <4>2. CASE ~Sweeps(c)
        <5>1. paid = due
          BY <4>2
        <5>2. paid * raised <= b * k
          BY <5>1, <1>6, <2>2
        <5> HIDE DEF k, b, owing, paid
        <5> QED
          BY <3>1, <5>2, <1>2, <1>5, <1>7, ClaimKeepsCover, StateFacts DEF owing
      <4> QED
        BY <4>1, <4>2
    <3> QED
      BY <2>2, <3>2, <1>1, <1>3 DEF Solvent, ClaimRefund
  <2> QED
    BY <1>1, <2>1, <2>2
<1> QED
  BY <1>10, <1>11, <1>12, <1>13, <1>14, <1>15 DEF IInv

\* A project that can be paid out: fully raised, nothing claimed, the bond
\* still held and no milestone failed.
LEMMA PayingFacts ==
  ASSUME IInv, Paying
  PROVE  /\ state \in {"Funded", "Active"} /\ EffectiveState = state
         /\ raised = Goal /\ unclaimed = raised
         /\ attested = FALSE /\ bondReturned = FALSE /\ record = NoRecord
         /\ failed = {} /\ released # Milestones
         /\ tokens >= raised - releasedTotal + Bond
         /\ builderPaid = releasedTotal
<1>1. state \in {"Funded", "Active"} /\ EffectiveState = state
  BY StateFacts DEF Paying
<1>2. raised = Goal /\ unclaimed = raised /\ tokens >= raised - releasedTotal + Bond
  BY <1>1 DEF IInv, Accounts, Solvent
<1>3. failed = {} /\ released # Milestones
  BY <1>1 DEF IInv, OneFate
<1>4. attested = FALSE /\ bondReturned = FALSE
  BY <1>1 DEF IInv, Accounts, BondGoesOneWay, TypeOK
<1>5. record = NoRecord
  BY <1>4 DEF IInv, RecordMatchesFate
<1>6. builderPaid = releasedTotal
  BY <1>4, StateFacts DEF IInv, BondGoesOneWay
<1> QED
  BY <1>1, <1>2, <1>3, <1>4, <1>5, <1>6

\* Giving up an undecided milestone, however it came to that, opens the refunds.
LEMMA ForfeitInvariant ==
  ASSUME IInv, Paying, NEW m \in Milestones, m \notin released,
         failed' = failed \cup {m},
         state' = "Refunding",
         lastActivity' = SyncedActivity,
         WriteAttestation("FailedWithForfeiture", released),
         UNCHANGED <<unclaimed, releasedTotal, bondReturned, released, refunded,
                     builderPaid, ballots, pledges, ledger>>
  PROVE  IInv'
<1> USE DEF ballots, pledges, ledger
<1>1. failed' = {m} /\ Cardinality(failed') = 1
  BY PayingFacts, FS_Singleton
<1>2. attested' = TRUE
      /\ record' = [outcome |-> "FailedWithForfeiture", approved |-> Cardinality(released)]
  BY PayingFacts DEF WriteAttestation
<1>3. TypeOK'
  <2>1. Cardinality(released) \in 0 .. NumMilestones
    BY MilestoneCount DEF IInv, TypeOK
  <2>2. record' \in [outcome : Outcomes \cup {"none"}, approved : 0 .. NumMilestones]
    BY <1>2, <2>1 DEF Outcomes
  <2>3. state' \in VaultStates /\ lastActivity' \in Nat /\ attested' \in BOOLEAN
    BY <1>2, StateFacts DEF IInv, TypeOK, VaultStates
  <2>4. failed' \subseteq Milestones
    BY <1>1
  <2> QED
    BY <2>2, <2>3, <2>4 DEF IInv, TypeOK
<1>4. Accounts'
  BY PayingFacts DEF IInv, Accounts
<1>5. OneFate'
  <2>1. released # Milestones
    BY PayingFacts
  <2> QED
    BY <1>1, <2>1 DEF IInv, OneFate
<1>6. BondGoesOneWay'
  BY PayingFacts, StateFacts DEF IInv, BondGoesOneWay
<1>7. RecordMatchesFate'
  BY <1>2 DEF RecordMatchesFate, NoRecord
<1>8. Solvent'
  <2> DEFINE owing == Total(balance, Contributors)
             k     == raised - releasedTotal + Bond
  <2>1. owing = raised /\ raised \in Nat /\ k \in Nat /\ tokens \in Nat /\ tokens >= k
    <3>1. owing = raised
      BY PayingFacts DEF IInv, Accounts
    <3>2. raised = Goal /\ tokens >= k
      BY PayingFacts
    <3> QED
      BY <3>1, <3>2, StateFacts
  <2>2. tokens * raised >= owing * k
    <3> HIDE DEF owing, k
    <3>1. tokens * raised >= k * raised
      BY <2>1, CoverGrows
    <3>2. k * raised = owing * k
      BY <2>1
    <3> QED
      BY <3>1, <3>2
  <2> QED
    BY <2>2 DEF Solvent
<1> QED
  BY <1>3, <1>4, <1>5, <1>6, <1>7, <1>8 DEF IInv

LEMMA LapseInvariant ==
  ASSUME IInv, NEW m \in Milestones, SettleLapsedMilestone(m)
  PROVE  IInv'
BY ForfeitInvariant DEF SettleLapsedMilestone, Opened, Undecided

LEMMA StallInvariant ==
  ASSUME IInv, SettleStalled
  PROVE  IInv'
<1> DEFINE undecided == {m \in Milestones : Undecided(m)}
<1>1. undecided \in SUBSET (Nat \ {0}) /\ undecided # {}
  <2>1. failed = {} /\ released # Milestones /\ released \subseteq Milestones
    BY PayingFacts DEF SettleStalled, IInv, TypeOK
  <2>2. undecided # {}
    BY <2>1 DEF Undecided
  <2>3. \A m \in Milestones : m \in Nat \ {0}
    BY ConfigAccepted DEF Milestones
  <2> QED
    BY <2>2, <2>3
<1>2. PICK m \in undecided : \A k \in undecided : m <= k
  <2> HIDE DEF undecided
  <2> QED
    BY <1>1, LeastMember
<1>3. m \in Milestones /\ m \notin released
  BY DEF Undecided
<1>4. FirstUndecided = {m}
  <2>1. \A k \in Milestones : k \in Int /\ 1 .. k - 1 \subseteq Milestones
    BY ConfigAccepted DEF Milestones
  <2>2. m \in FirstUndecided
    BY <1>2, <2>1 DEF FirstUndecided
  <2>3. ASSUME NEW k \in FirstUndecided, k # m
        PROVE  FALSE
    <3>1. k \in undecided /\ \A i \in 1 .. k - 1 : ~Undecided(i)
      BY DEF FirstUndecided
    <3>2. m \in 1 .. k - 1
      BY <1>2, <1>3, <2>1, <2>3, <3>1 DEF Milestones
    <3> QED
      BY <3>1, <3>2
  <2> QED
    BY <2>2, <2>3
<1> QED
  BY <1>3, <1>4, ForfeitInvariant DEF SettleStalled

\* Closing a raise that missed its goal, with or without returning the bond.
LEMMA FailInvariant ==
  ASSUME IInv, EffectiveState = "Failed",
         SyncState,
         WriteAttestation("FailedToFund", released),
         \/ UNCHANGED <<bondReturned, tokens, builderPaid>>
         \/ /\ ~bondReturned
            /\ tokens >= Bond
            /\ bondReturned' = TRUE
            /\ tokens' = tokens - Bond
            /\ builderPaid' = builderPaid + Bond,
         UNCHANGED <<unclaimed, releasedTotal, released, failed, refunded, ballots, pledges,
                     now, trusted, donated>>
  PROVE  IInv'
<1> USE DEF ballots, pledges
<1>1. state' = "Failed" /\ lastActivity' = lastActivity /\ state \in {"Raising", "Failed"}
  BY StateFacts DEF SyncState
<1>2. /\ attested' = TRUE
      /\ record' = IF attested THEN record
                   ELSE [outcome |-> "FailedToFund", approved |-> Cardinality(released)]
  BY DEF WriteAttestation
<1>3. raised < Goal /\ released = {} /\ releasedTotal = 0
  BY <1>1, StateFacts DEF IInv, Accounts
<1>4. tokens' \in Nat /\ builderPaid' \in Nat /\ bondReturned' \in BOOLEAN
  <2>1. tokens \in Nat /\ builderPaid \in Nat /\ Bond \in Nat
    BY StateFacts DEF IInv, TypeOK
  <2>2. tokens' \in Nat /\ builderPaid' \in Nat
    BY <2>1
  <2>3. bondReturned' \in BOOLEAN
    BY DEF IInv, TypeOK
  <2> QED
    BY <2>2, <2>3
<1>5. record' \in [outcome : Outcomes \cup {"none"}, approved : 0 .. NumMilestones]
  <2>1. Cardinality(released) \in 0 .. NumMilestones
    BY MilestoneCount DEF IInv, TypeOK
  <2> QED
    BY <1>2, <2>1 DEF IInv, TypeOK, Outcomes
<1>6. TypeOK'
  BY <1>1, <1>2, <1>4, <1>5 DEF IInv, TypeOK, VaultStates
<1>7. Accounts'
  BY <1>1, <1>2 DEF IInv, Accounts
<1>8. OneFate'
  BY <1>1 DEF IInv, OneFate
<1>9. BondGoesOneWay'
  <2>1. Bond \in Nat /\ builderPaid \in Nat /\ releasedTotal \in Nat
    BY StateFacts DEF IInv, TypeOK
  <2>2. builderPaid = releasedTotal + (IF bondReturned THEN Bond ELSE 0)
    BY <1>1 DEF IInv, BondGoesOneWay
  <2>3. builderPaid' = releasedTotal + (IF bondReturned' THEN Bond ELSE 0)
    BY <2>1, <2>2
  <2> QED
    BY <1>1, <2>3 DEF BondGoesOneWay
<1>10. RecordMatchesFate'
  BY <1>1, <1>2, <1>3 DEF IInv, RecordMatchesFate, NoRecord
<1>11. Solvent'
  <2> DEFINE owing == Total(balance, Contributors)
  <2>1. owing \in Nat /\ Bond \in Nat /\ tokens \in Nat
    BY BalanceSums, StateFacts DEF IInv
  <2>2. tokens >= owing + (IF bondReturned THEN 0 ELSE Bond)
    <3>1. CASE state = "Failed"
      BY <3>1 DEF IInv, Solvent
    <3>2. CASE state = "Raising"
      <4>1. owing = raised /\ tokens >= raised - releasedTotal + Bond
        BY <3>2 DEF IInv, Solvent, Accounts
      <4> HIDE DEF owing
      <4> QED
        BY <4>1, <2>1, <1>3, StateFacts
    <3> QED
      BY <1>1, <3>1, <3>2
  <2>3. tokens' >= owing + (IF bondReturned' THEN 0 ELSE Bond)
    <3> HIDE DEF owing
    <3> QED
      BY <2>1, <2>2
  <2> QED
    BY <1>1, <2>3 DEF Solvent
<1> QED
  BY <1>6, <1>7, <1>8, <1>9, <1>10, <1>11 DEF IInv

LEMMA SettleInvariant ==
  ASSUME IInv, Settle
  PROVE  IInv'
<1> USE DEF ballots, pledges, ledger
<1>1. state' = EffectiveState /\ lastActivity' = lastActivity
  BY StateFacts DEF Settle, SyncState
<1>2. CASE EffectiveState # "Failed"
  <2>1. UNCHANGED vars
    BY <1>1, <1>2, StateFacts DEF Settle, vars
  <2> QED
    BY <2>1, StutterInvariant
<1>3. CASE EffectiveState = "Failed"
  BY <1>1, <1>3, FailInvariant DEF Settle
<1> QED
  BY <1>2, <1>3

LEMMA ReturnBondInvariant ==
  ASSUME IInv, ReturnBond
  PROVE  IInv'
BY FailInvariant DEF ReturnBond, BondDue, SyncState, ballots, pledges

LEMMA OpenInvariant ==
  ASSUME IInv, NEW m \in Milestones, OpenMilestoneVote(m)
  PROVE  IInv'
<1> USE DEF ballots, pledges, ledger
<1>1. state' = state /\ lastActivity' = lastActivity
  BY PayingFacts, StateFacts DEF OpenMilestoneVote, SyncState
<1>2. opensAt' \in [Milestones -> Nat]
  BY DEF OpenMilestoneVote, IInv, TypeOK
<1>3. TypeOK'
  BY <1>1, <1>2 DEF OpenMilestoneVote, IInv, TypeOK
<1> QED
  BY <1>1, <1>3 DEF OpenMilestoneVote, IInv, Accounts, OneFate, BondGoesOneWay, RecordMatchesFate,
                    Solvent

LEMMA ApproveInvariant ==
  ASSUME IInv, NEW c \in Contributors, NEW m \in Milestones, ApproveMilestone(c, m)
  PROVE  IInv'
<1> USE DEF ballots, pledges, ledger
<1>1. state' = state /\ lastActivity' = lastActivity
  BY PayingFacts, StateFacts DEF ApproveMilestone, MayApprove, SyncState
<1>2. votes' \in [Milestones -> SUBSET Contributors]
  BY DEF ApproveMilestone, IInv, TypeOK
<1>3. /\ approvals' \in [Milestones -> Nat]
      /\ approvedStake' \in [Milestones -> Nat]
      /\ approvedWeight' \in [Milestones -> Nat]
  <2>1. balance[c] \in Nat /\ EffectiveWeight(balance[c], raised) \in Nat
    BY WeightType DEF IInv, TypeOK
  <2> QED
    BY <2>1 DEF ApproveMilestone, IInv, TypeOK
<1>4. TypeOK'
  BY <1>1, <1>2, <1>3 DEF ApproveMilestone, IInv, TypeOK
<1> QED
  BY <1>1, <1>4 DEF ApproveMilestone, IInv, Accounts, OneFate, BondGoesOneWay, RecordMatchesFate,
                    Solvent

LEMMA ReleaseInvariant ==
  ASSUME IInv, NEW m \in Milestones, ReleaseMilestone(m)
  PROVE  IInv'
<1> USE DEF ballots, pledges
<1> DEFINE all  == released \cup {m} = Milestones
           paid == Tranche[m] + (IF all THEN Bond ELSE 0)
<1>1. Paying /\ m \notin released /\ released \subseteq Milestones
  BY DEF ReleaseMilestone, Opened, Undecided, IInv, TypeOK
<1>2. released' = released \cup {m} /\ releasedTotal' = releasedTotal + Tranche[m]
  BY DEF ReleaseMilestone
<1>3. /\ releasedTotal' = Total(Tranche, released')
      /\ Total(Tranche, released') <= Goal
      /\ releasedTotal' = Goal <=> all
  <2>1. released' \in SUBSET Milestones /\ released \in SUBSET Milestones
    BY <1>1, <1>2
  <2>2. releasedTotal' = Total(Tranche, released')
    BY <1>1, <1>2, <2>1, TrancheSums DEF IInv, OneFate
  <2>3. all => releasedTotal' = Goal
    BY <1>2, <2>2, ConfigAccepted
  <2> QED
    BY <1>2, <2>1, <2>2, <2>3, TrancheSums
<1>4. /\ Tranche[m] \in Nat /\ Bond \in Nat /\ releasedTotal \in Nat /\ releasedTotal' \in Nat
      /\ Goal \in Nat /\ builderPaid \in Nat /\ tokens \in Nat
  <2>1. Tranche[m] \in Nat
    BY ConfigAccepted
  <2> QED
    BY <1>2, <2>1, StateFacts DEF IInv, TypeOK
<1>5. /\ raised = Goal /\ unclaimed = raised /\ failed = {} /\ attested = FALSE
      /\ bondReturned = FALSE /\ builderPaid = releasedTotal
      /\ tokens >= raised - releasedTotal + Bond
  BY <1>1, PayingFacts
<1>6. tokens' = tokens - paid /\ builderPaid' = builderPaid + paid /\ tokens >= paid
  BY DEF ReleaseMilestone
<1>7. tokens' \in Nat /\ builderPaid' \in Nat
  BY <1>4, <1>6
<1>8. /\ state' = IF all THEN "Completed" ELSE "Active"
      /\ bondReturned' = all
      /\ attested' = all
      /\ record' = IF all THEN [outcome |-> "Completed", approved |-> Cardinality(released')]
                   ELSE NoRecord
  <2>1. CASE all
    BY <2>1, <1>5 DEF ReleaseMilestone, WriteAttestation
  <2>2. CASE ~all
    BY <2>2, <1>1, <1>5, PayingFacts DEF ReleaseMilestone
  <2> QED
    BY <2>1, <2>2
<1>9. UNCHANGED <<unclaimed, failed, refunded, ballots, pledges, now, trusted, donated>>
      /\ lastActivity' = now
  BY DEF ReleaseMilestone
<1>10. TypeOK'
  <2>1. released' \subseteq Milestones
    BY <1>1, <1>2
  <2>2. Cardinality(released') \in 0 .. NumMilestones /\ NumMilestones \in Nat
    BY <2>1, MilestoneCount, ConfigAccepted
  <2>3. record' \in [outcome : Outcomes \cup {"none"}, approved : 0 .. NumMilestones]
    BY <1>8, <2>2 DEF Outcomes, NoRecord
  <2>4. state' \in VaultStates /\ bondReturned' \in BOOLEAN /\ attested' \in BOOLEAN
    BY <1>8 DEF VaultStates
  <2> QED
    BY <1>4, <1>7, <1>9, <2>1, <2>3, <2>4 DEF IInv, TypeOK
<1>11. Accounts'
  BY <1>5, <1>8, <1>9 DEF IInv, Accounts
<1>12. OneFate'
  BY <1>1, <1>2, <1>3, <1>5, <1>8, <1>9 DEF IInv, OneFate
<1>13. BondGoesOneWay'
  <2>1. builderPaid' = releasedTotal' + (IF all THEN Bond ELSE 0)
    BY <1>2, <1>4, <1>5, <1>6
  <2> QED
    BY <1>8, <2>1 DEF BondGoesOneWay
<1>14. RecordMatchesFate'
  <2>1. all => Cardinality(released') = NumMilestones
    <3>1. 1 \in Int /\ NumMilestones \in Int /\ NumMilestones >= 1
      BY ConfigAccepted DEF MAX_MILESTONES
    <3>2. Cardinality(Milestones) = NumMilestones
      BY <3>1, FS_Interval DEF Milestones
    <3> QED
      BY <1>2, <3>2
  <2> QED
    BY <1>8, <2>1 DEF RecordMatchesFate, NoRecord
<1>15. Solvent'
  <2>1. ~all => tokens' >= raised - releasedTotal' + Bond
    <3>1. ~all => paid = Tranche[m]
      BY <1>4
    <3> HIDE DEF paid, all
    <3> QED
      BY <3>1, <1>2, <1>4, <1>5, <1>6
  <2> QED
    BY <1>8, <1>9, <2>1 DEF Solvent
<1> QED
  BY <1>10, <1>11, <1>12, <1>13, <1>14, <1>15 DEF IInv

\* The vault keeps at most four entries of the largest balances, each of a
\* backer, whichever of several equally small ones it drops.
LEMMA TrackType ==
  ASSUME TypeOK, NEW c \in Contributors, NEW b \in Nat, NEW after \in TrackLargest(tracked, c, b)
  PROVE  /\ DOMAIN after \subseteq Contributors /\ after \in [DOMAIN after -> Nat]
         /\ Cardinality(DOMAIN after) <= LARGEST_TRACKED
<1> DEFINE kept == DOMAIN tracked
<1>1. /\ kept \subseteq Contributors /\ tracked \in [kept -> Nat]
      /\ Cardinality(kept) <= LARGEST_TRACKED /\ LARGEST_TRACKED \in Nat
  BY DEF TypeOK, LARGEST_TRACKED
<1>2. IsFiniteSet(kept) /\ Cardinality(kept) \in Nat
  BY <1>1, FS_Subset, FS_CardinalityType, ConfigAccepted
<1>3. CASE after = Tracking(tracked, c, b) /\ (c \in kept \/ Cardinality(kept) < LARGEST_TRACKED)
  <2>1. DOMAIN after = kept \cup {c} /\ after \in [kept \cup {c} -> Nat]
    BY <1>1, <1>3 DEF Tracking
  <2>2. Cardinality(kept \cup {c}) <= LARGEST_TRACKED
    <3>1. Cardinality(kept \cup {c}) = IF c \in kept THEN Cardinality(kept) ELSE Cardinality(kept) + 1
      BY <1>2, FS_AddElement
    <3> HIDE DEF kept
    <3> QED
      BY <1>1, <1>2, <1>3, <3>1
  <2> QED
    BY <1>1, <2>1, <2>2
<1>4. CASE c \notin kept /\ \E s \in kept : after = Displacing(tracked, c, b, s)
  <2>1. PICK s \in kept : after = Displacing(tracked, c, b, s)
    BY <1>4
  <2>2. DOMAIN after = (kept \ {s}) \cup {c} /\ after \in [(kept \ {s}) \cup {c} -> Nat]
    BY <1>1, <2>1 DEF Displacing
  <2>3. Cardinality((kept \ {s}) \cup {c}) <= LARGEST_TRACKED
    <3>1. /\ IsFiniteSet(kept \ {s}) /\ Cardinality(kept \ {s}) = Cardinality(kept) - 1
      BY <1>2, <2>1, FS_RemoveElement
    <3>2. Cardinality((kept \ {s}) \cup {c}) = Cardinality(kept \ {s}) + 1
      <4>1. c \notin kept \ {s}
        BY <1>4
      <4> HIDE DEF kept
      <4> QED
        BY <3>1, <4>1, FS_AddElement
    <3> HIDE DEF kept
    <3> QED
      BY <1>1, <1>2, <3>1, <3>2
  <2> QED
    BY <1>1, <2>2, <2>3
<1>5. CASE after = tracked
  BY <1>5, <1>1
<1> QED
  BY <1>3, <1>4, <1>5 DEF TrackLargest, Smallest

LEMMA ContributeInvariant ==
  ASSUME IInv, NEW c \in Contributors, NEW amount \in Amounts, Contribute(c, amount)
  PROVE  IInv'
<1> USE DEF ballots
<1>1. state = "Raising" /\ EffectiveState = "Raising" /\ now < Deadline
  BY StateFacts DEF Contribute, Accepts
<1>2. amount \in Nat \ {0} /\ raised + amount <= Goal
  BY ConfigAccepted DEF Contribute, Accepts
<1>3. raised' = raised + amount /\ unclaimed' = unclaimed + amount /\ tokens' = tokens + amount
  BY DEF Contribute
<1>4. /\ state' = IF raised' >= Goal THEN "Funded" ELSE "Raising"
      /\ lastActivity' \in {now, lastActivity}
  BY <1>1, StateFacts DEF Contribute, SyncState
<1>5. raised' \in 0 .. Goal /\ raised' \in Nat /\ unclaimed' \in Nat /\ tokens' \in Nat
  BY <1>2, <1>3, StateFacts
<1>6. /\ balance[c] \in Nat /\ balance[c] + amount \in Nat
      /\ balance' = [balance EXCEPT ![c] = balance[c] + amount]
  BY <1>2 DEF Contribute, IInv, TypeOK
<1>7. Total(balance', Contributors) = Total(balance, Contributors) + amount
  <2>1. Total(balance', Contributors)
          = Total(balance, Contributors) - balance[c] + (balance[c] + amount)
    BY <1>6, BalanceUpdate DEF IInv
  <2>2. Total(balance, Contributors) \in Nat
    BY BalanceSums DEF IInv
  <2> QED
    BY <1>2, <1>6, <2>1, <2>2
<1>8. /\ unclaimed = raised /\ unclaimed = Total(balance, Contributors)
      /\ attested = FALSE /\ bondReturned = FALSE /\ released = {} /\ releasedTotal = 0
  BY <1>1, StateFacts DEF IInv, Accounts, BondGoesOneWay, TypeOK
<1>9. TypeOK'
  <2>1. balance' \in [Contributors -> Nat] /\ contributed' \in [Contributors -> Nat]
    BY <1>2, <1>6 DEF Contribute, IInv, TypeOK
  <2>2. /\ DOMAIN tracked' \subseteq Contributors /\ tracked' \in [DOMAIN tracked' -> Nat]
        /\ Cardinality(DOMAIN tracked') <= LARGEST_TRACKED
    <3>1. tracked' \in TrackLargest(tracked, c, balance[c] + amount)
      BY <1>6 DEF Contribute, IInv, TypeOK
    <3> QED
      BY <1>6, <3>1, TrackType DEF IInv
  <2>3. contributorCount' \in Nat
    BY DEF Contribute, IInv, TypeOK
  <2>4. state' \in VaultStates /\ lastActivity' \in Nat
    BY <1>4 DEF IInv, TypeOK, VaultStates
  <2> QED
    BY <1>5, <2>1, <2>2, <2>3, <2>4 DEF Contribute, IInv, TypeOK
<1>10. Accounts'
  <2>1. unclaimed' = raised' /\ unclaimed' = Total(balance', Contributors)
    BY <1>2, <1>3, <1>7, <1>8
  <2>2. raised' >= Goal => raised' = Goal
    BY <1>5, ConfigAccepted
  <2>3. released' = {} /\ attested' = FALSE
    BY <1>8 DEF Contribute
  <2> QED
    BY <1>4, <1>5, <2>1, <2>2, <2>3, ConfigAccepted DEF Accounts
<1>11. OneFate'
  <2>1. Milestones # {}
    BY ConfigAccepted DEF Milestones
  <2> QED
    BY <1>1, <1>4, <1>8, <2>1 DEF Contribute, IInv, OneFate
<1>12. BondGoesOneWay'
  BY <1>1, <1>4, <1>8 DEF Contribute, IInv, BondGoesOneWay
<1>13. RecordMatchesFate'
  <2>1. record = NoRecord
    BY <1>8 DEF IInv, RecordMatchesFate
  <2> QED
    BY <1>4, <1>8, <2>1 DEF Contribute, RecordMatchesFate, NoRecord
<1>14. Solvent'
  <2>1. tokens >= raised - releasedTotal + Bond
    BY <1>1 DEF IInv, Solvent
  <2>2. tokens' >= raised' - releasedTotal' + Bond
    <3>1. releasedTotal' = releasedTotal
      BY DEF Contribute
    <3> QED
      BY <1>2, <1>3, <2>1, <3>1, StateFacts
  <2> QED
    BY <1>4, <2>2 DEF Solvent
<1> QED
  BY <1>9, <1>10, <1>11, <1>12, <1>13, <1>14 DEF IInv

-----------------------------------------------------------------------------
(***************************************************************************)
(* The theorems                                                            *)
(***************************************************************************)

LEMMA NextInvariant == IInv /\ [Next]_vars => IInv'
<1> SUFFICES ASSUME IInv, [Next]_vars PROVE IInv'
  OBVIOUS
<1>1. CASE ContributorCall
  BY <1>1, ContributeInvariant, ApproveInvariant, ClaimInvariant DEF ContributorCall
<1>2. CASE BuilderCall
  BY <1>2, OpenInvariant DEF BuilderCall
<1>3. CASE AnyonesCall
  BY <1>3, SettleInvariant, ReturnBondInvariant, StallInvariant, ReleaseInvariant, LapseInvariant
     DEF AnyonesCall
<1>4. CASE Environment
  BY <1>4, EnvironmentInvariant
<1>5. CASE UNCHANGED vars
  BY <1>5, StutterInvariant
<1> QED
  BY <1>1, <1>2, <1>3, <1>4, <1>5 DEF Next

\* Every reachable state satisfies the inductive invariant.
THEOREM InvariantHolds == Spec => []IInv
BY InitInvariant, NextInvariant, PTL DEF Spec

\* Whatever the callers do, every variable of the vault has its type.
THEOREM TypeCorrect == Spec => []TypeOK
<1>1. IInv => TypeOK
  BY DEF IInv
<1> QED
  BY InvariantHolds, <1>1, PTL

\* The vault is solvent for any number of backers, any goal and any order of
\* claims: no rounding of one backer's share is ever paid by another.
THEOREM Solvency == Spec => []Solvent
<1>1. IInv => Solvent
  BY DEF IInv
<1> QED
  BY InvariantHolds, <1>1, PTL

\* The builder's bond leaves the vault once and in one direction.
THEOREM BondSafety == Spec => []BondGoesOneWay
<1>1. IInv => BondGoesOneWay
  BY DEF IInv
<1> QED
  BY InvariantHolds, <1>1, PTL

\* A project is completed or forfeited, never both, and what it has paid out is
\* exactly the tranches of the milestones marked released.
THEOREM FateIsOne == Spec => []OneFate
<1>1. IInv => OneFate
  BY DEF IInv
<1> QED
  BY InvariantHolds, <1>1, PTL

\* What the registry holds about a vault is what became of it.
THEOREM RecordTruthful == Spec => []RecordMatchesFate
<1>1. IInv => RecordMatchesFate
  BY DEF IInv
<1> QED
  BY InvariantHolds, <1>1, PTL

-----------------------------------------------------------------------------
(***************************************************************************)
(* Votes.  That a carried vote is a mandate rests on the capped total the  *)
(* vault computes from four balances being everybody's capped weight; that *)
(* holds because the four are the largest, and because five wallets cannot *)
(* each hold more than a fifth of the raise.                               *)
(***************************************************************************)

\* Every backer's capped weight, counted from what each put in.
Weights == [c \in Contributors |-> EffectiveWeight(contributed[c], raised)]

\* The balances kept are right, and whoever is not kept holds no more than any
\* of four who are.
Ranks(kept, held) ==
  /\ \A d \in DOMAIN kept : kept[d] = held[d]
  /\ \A d \in Contributors \ DOMAIN kept :
       held[d] > 0 => /\ Cardinality(DOMAIN kept) = LARGEST_TRACKED
                      /\ \A t \in DOMAIN kept : held[d] <= kept[t]

Polls ==
  /\ state \in {"Raising", "Funded", "Active", "Completed"} => balance = contributed
  /\ Total(contributed, Contributors) = raised
  /\ contributorCount = Cardinality(Backers)
  /\ Ranks(tracked, contributed)
  /\ state \in {"Raising", "Failed"} => \A m \in Milestones : votes[m] = {}
  /\ \A m \in Milestones : votes[m] \subseteq Backers
  /\ VotesCounted
  /\ ReleaseMandate

\* Five times more than a fifth, rounded up, is more than the whole.
LEMMA FiveTooMany ==
  ASSUME NEW r \in Nat
  PROVE  /\ WeightCap(r) \in Nat \ {0}
         /\ 5 * (WeightCap(r) + 1) > r
<1> DEFINE q == (r * 2000) \div 10000
<1>1. q \in Nat /\ r * 2000 < (q + 1) * 10000
  OBVIOUS
<1>2. WeightCap(r) = IF q < 1 THEN 1 ELSE q
  BY DEF WeightCap, WEIGHT_CAP_BPS, BPS
<1> HIDE DEF q
<1> QED
  BY <1>1, <1>2

\* A wallet weighs no more than it holds, something if it holds something, and
\* what it loses to the cap is what it holds above it.
LEMMA WeightParts ==
  ASSUME NEW b \in Nat, NEW r \in Nat
  PROVE  /\ EffectiveWeight(b, r) \in Nat
         /\ EffectiveWeight(b, r) = 0 <=> b = 0
         /\ b = EffectiveWeight(b, r) + (IF b > WeightCap(r) THEN b - WeightCap(r) ELSE 0)
BY FiveTooMany DEF EffectiveWeight

\* Nobody the vault does not keep holds more than the cap.
LEMMA OthersBelowCap ==
  ASSUME TypeOK, Total(contributed, Contributors) = raised, Ranks(tracked, contributed),
         NEW d \in Contributors \ DOMAIN tracked
  PROVE  contributed[d] <= WeightCap(raised)
<1> DEFINE kept == DOMAIN tracked
           five == kept \cup {d}
           k    == WeightCap(raised) + 1
<1>1. raised \in Nat /\ contributed \in [Contributors -> Nat] /\ kept \subseteq Contributors
  BY ConfigAccepted DEF TypeOK
<1>2. WeightCap(raised) \in Nat /\ k \in Nat /\ 5 * k > raised /\ k > 0
  BY <1>1, FiveTooMany
<1> SUFFICES ASSUME contributed[d] > WeightCap(raised) PROVE FALSE
  BY <1>1, <1>2
<1>3. contributed[d] >= k /\ contributed[d] > 0
  BY <1>1, FiveTooMany
<1>4. Cardinality(kept) = 4 /\ \A t \in kept : contributed[t] >= contributed[d]
  BY <1>1, <1>3 DEF Ranks, LARGEST_TRACKED
<1>5. IsFiniteSet(kept) /\ IsFiniteSet(five) /\ Cardinality(five) = 5 /\ five \in SUBSET Contributors
  <2>1. IsFiniteSet(kept)
    BY <1>1, ConfigAccepted, FS_Subset
  <2>2. d \notin kept
    OBVIOUS
  <2>3. IsFiniteSet(five) /\ Cardinality(five) = Cardinality(kept) + 1
    <3> HIDE DEF kept
    <3> QED
      BY <2>1, <2>2, FS_AddElement
  <2> QED
    BY <1>1, <1>4, <2>1, <2>3
<1>6. \A y \in five : contributed[y] \in Nat /\ contributed[y] >= k
  BY <1>1, <1>2, <1>3, <1>4
<1>7. Total(contributed, five) >= 5 * k
  <2> HIDE DEF five, k
  <2> QED
    BY <1>2, <1>5, <1>6, TotalAtLeast
<1>8. Total(contributed, five) <= raised
  <2> HIDE DEF five
  <2> QED
    BY <1>1, <1>5, ConfigAccepted, TotalSubset
<1>9. Total(contributed, five) \in Nat
  <2> HIDE DEF five
  <2> QED
    BY <1>5, <1>6, TotalType
<1> HIDE DEF five, k
<1> QED
  BY <1>1, <1>2, <1>7, <1>8, <1>9

\* The total taken from four balances is everybody's capped weight.
LEMMA FourSuffice ==
  ASSUME TypeOK, Total(contributed, Contributors) = raised, Ranks(tracked, contributed)
  PROVE  /\ TotalWeight(tracked, raised) = Total(Weights, Contributors)
         /\ Total(Weights, Contributors) \in Nat
         /\ \A c \in Contributors : Weights[c] \in Nat
<1> DEFINE cap  == WeightCap(raised)
           over == [c \in Contributors |-> IF contributed[c] > cap THEN contributed[c] - cap ELSE 0]
           kept == DOMAIN tracked
<1>1. /\ raised \in Nat /\ contributed \in [Contributors -> Nat] /\ kept \in SUBSET Contributors
      /\ IsFiniteSet(Contributors) /\ cap \in Nat
  BY ConfigAccepted, FiveTooMany DEF TypeOK
<1>2. \A c \in Contributors : /\ Weights[c] \in Nat /\ over[c] \in Nat
                              /\ contributed[c] = Weights[c] + over[c]
  <2> SUFFICES ASSUME NEW c \in Contributors
               PROVE  /\ Weights[c] \in Nat /\ over[c] \in Nat
                      /\ contributed[c] = Weights[c] + over[c]
    OBVIOUS
  <2>1. contributed[c] \in Nat
    BY <1>1
  <2>2. over[c] \in Nat
    BY <1>1, <2>1
  <2>3. Weights[c] = EffectiveWeight(contributed[c], raised)
    BY DEF Weights
  <2>4. over[c] = IF contributed[c] > WeightCap(raised) THEN contributed[c] - WeightCap(raised) ELSE 0
    OBVIOUS
  <2>5. /\ EffectiveWeight(contributed[c], raised) \in Nat
        /\ contributed[c] = EffectiveWeight(contributed[c], raised)
             + (IF contributed[c] > WeightCap(raised) THEN contributed[c] - WeightCap(raised) ELSE 0)
    BY <1>1, <2>1, WeightParts
  <2> HIDE DEF over
  <2> QED
    BY <2>2, <2>3, <2>4, <2>5
<1>3. \A c \in Contributors \ kept : over[c] = 0
  BY <1>1, OthersBelowCap
<1>4. \A d \in kept : over[d] = Excess(tracked, raised)[d]
  BY <1>1 DEF Excess, Ranks
<1> HIDE DEF over, cap, kept
<1>5. Total(contributed, Contributors) = Total(Weights, Contributors) + Total(over, Contributors)
  BY <1>1, <1>2, TotalAdds
<1>6. Total(over, Contributors) = Total(over, kept)
  BY <1>1, <1>3, TotalSupport
<1>7. Total(over, kept) = Total(Excess(tracked, raised), kept)
  BY <1>4, TotalSame
<1>8. Total(Weights, Contributors) \in Nat /\ Total(over, Contributors) \in Nat
  BY <1>1, <1>2, TotalType
<1> QED
  BY <1>2, <1>5, <1>6, <1>7, <1>8 DEF TotalWeight, kept

\* Keeping the four largest balances up to date, whoever contributes: the one
\* displaced is the smallest, and what comes in is larger.
LEMMA RanksKept ==
  ASSUME TypeOK, Ranks(tracked, contributed), NEW c \in Contributors, NEW b \in Nat,
         b >= contributed[c], NEW after \in TrackLargest(tracked, c, b)
  PROVE  Ranks(after, [contributed EXCEPT ![c] = b])
<1> DEFINE kept == DOMAIN tracked
           held == [contributed EXCEPT ![c] = b]
<1>1. /\ kept \subseteq Contributors /\ tracked \in [kept -> Nat] /\ contributed \in [Contributors -> Nat]
      /\ Cardinality(kept) <= 4 /\ IsFiniteSet(kept) /\ Cardinality(kept) \in Nat
  BY ConfigAccepted, FS_Subset, FS_CardinalityType DEF TypeOK, LARGEST_TRACKED
<1>2. held[c] = b /\ \A d \in Contributors \ {c} : held[d] = contributed[d]
  BY <1>1
<1>3. \A d \in Contributors : held[d] \in Nat /\ contributed[d] \in Nat
  BY <1>1
<1>4. /\ \A d \in kept : tracked[d] = contributed[d]
      /\ \A d \in Contributors \ kept : contributed[d] > 0 =>
           Cardinality(kept) = 4 /\ \A t \in kept : contributed[d] <= tracked[t]
  BY DEF Ranks, LARGEST_TRACKED
<1> HIDE DEF held
<1>5. CASE after = Tracking(tracked, c, b) /\ c \in kept
  <2>1. DOMAIN after = kept /\ \A d \in kept : after[d] = IF d = c THEN b ELSE tracked[d]
    BY <1>5 DEF Tracking
  <2>2. \A d \in kept : after[d] = held[d] /\ after[d] >= tracked[d]
    BY <1>1, <1>2, <1>4, <2>1
  <2>3. ASSUME NEW d \in Contributors \ kept, held[d] > 0
        PROVE  Cardinality(kept) = 4 /\ \A t \in kept : held[d] <= after[t]
    <3>1. d # c /\ held[d] = contributed[d]
      BY <1>2, <1>5
    <3>2. Cardinality(kept) = 4 /\ \A t \in kept : contributed[d] <= tracked[t]
      BY <1>4, <2>3, <3>1
    <3>3. \A t \in kept : tracked[t] \in Nat /\ after[t] \in Nat /\ contributed[d] \in Nat
      BY <1>1, <2>1
    <3> QED
      BY <2>2, <3>1, <3>2, <3>3
  <2> QED
    BY <2>1, <2>2, <2>3 DEF Ranks, LARGEST_TRACKED, held
<1>6. CASE after = Tracking(tracked, c, b) /\ c \notin kept /\ Cardinality(kept) < 4
  <2>1. DOMAIN after = kept \cup {c} /\ \A d \in DOMAIN after : after[d] = held[d]
    BY <1>1, <1>2, <1>4, <1>6 DEF Tracking
  <2>2. \A d \in Contributors \ (kept \cup {c}) : ~(held[d] > 0)
    BY <1>1, <1>2, <1>4, <1>6
  <2> QED
    BY <2>1, <2>2 DEF Ranks, held
<1>7. CASE c \notin kept /\ Cardinality(kept) >= 4
  <2>1. Cardinality(kept) = 4 /\ kept # {}
    BY <1>1, <1>7, FS_EmptySet
  <2>2. ASSUME NEW s \in Smallest(tracked), b > tracked[s], after = Displacing(tracked, c, b, s)
        PROVE  Ranks(after, held)
    <3>1. s \in kept /\ \A t \in kept : tracked[s] <= tracked[t]
      BY DEF Smallest
    <3>2. /\ DOMAIN after = (kept \ {s}) \cup {c}
          /\ after[c] = b /\ \A t \in kept \ {s} : after[t] = tracked[t]
      BY <1>7, <2>2 DEF Displacing
    <3>3. Cardinality(DOMAIN after) = 4
      <4>1. IsFiniteSet(kept \ {s}) /\ Cardinality(kept \ {s}) = 3
        <5> HIDE DEF kept
        <5> QED
          BY <1>1, <2>1, <3>1, FS_RemoveElement
      <4>2. Cardinality((kept \ {s}) \cup {c}) = 4
        <5>1. c \notin kept \ {s}
          BY <1>7
        <5> HIDE DEF kept
        <5> QED
          BY <4>1, <5>1, FS_AddElement
      <4> QED
        BY <3>2, <4>2
    <3>4. \A d \in DOMAIN after : after[d] = held[d]
      BY <1>1, <1>2, <1>4, <1>7, <3>2
    <3>5. ASSUME NEW d \in Contributors \ DOMAIN after, held[d] > 0
          PROVE  \A t \in DOMAIN after : held[d] <= after[t]
      <4>1. d # c /\ held[d] = contributed[d]
        BY <1>2, <3>2
      <4>2. contributed[d] <= tracked[s]
        BY <1>1, <1>4, <3>1, <3>2, <3>5, <4>1
      <4>3. \A t \in DOMAIN after : tracked[s] <= after[t] /\ after[t] \in Nat
        BY <1>1, <2>2, <3>1, <3>2
      <4>4. tracked[s] \in Nat /\ contributed[d] \in Nat
        BY <1>1, <3>1
      <4> QED
        BY <4>1, <4>2, <4>3, <4>4
    <3> QED
      BY <3>3, <3>4, <3>5 DEF Ranks, LARGEST_TRACKED
  <2>3. ASSUME \A s \in Smallest(tracked) : ~(b > tracked[s]), after = tracked
        PROVE  Ranks(after, held)
    <3> DEFINE sizes == {tracked[t] + 1 : t \in kept}
    <3>1. sizes \in SUBSET (Nat \ {0}) /\ sizes # {}
      BY <1>1, <2>1
    <3>2. PICK n \in sizes : \A k \in sizes : n <= k
      <4> HIDE DEF sizes
      <4> QED
        BY <3>1, LeastMember
    <3>3. PICK s \in kept : n = tracked[s] + 1
      OBVIOUS
    <3>4. \A t \in kept : tracked[s] <= tracked[t]
      BY <1>1, <3>2, <3>3
    <3>5. \A t \in kept : b <= tracked[t]
      <4>1. b <= tracked[s]
        BY <1>1, <2>3, <3>3, <3>4 DEF Smallest
      <4> QED
        BY <1>1, <3>3, <3>4, <4>1
    <3>6. \A d \in kept : after[d] = held[d]
      BY <1>1, <1>2, <1>4, <1>7, <2>3
    <3>7. ASSUME NEW d \in Contributors \ kept, held[d] > 0
          PROVE  \A t \in kept : held[d] <= tracked[t]
      BY <1>2, <1>4, <3>5, <3>7
    <3> QED
      BY <2>1, <2>3, <3>6, <3>7 DEF Ranks, LARGEST_TRACKED
  <2>4. ~(c \in kept \/ Cardinality(kept) < 4)
    BY <1>1, <1>7
  <2>5. CASE \E s \in Smallest(tracked) : b > tracked[s]
    <3>1. PICK s \in Smallest(tracked) : b > tracked[s]
      BY <2>5
    <3>2. PICK r \in Smallest(tracked) : after = Displacing(tracked, c, b, r)
      BY <2>4, <2>5 DEF TrackLargest, LARGEST_TRACKED
    <3>3. r \in kept /\ s \in kept /\ tracked[r] <= tracked[s]
      BY DEF Smallest
    <3>4. b > tracked[r]
      BY <1>1, <3>1, <3>3
    <3> QED
      BY <2>2, <3>2, <3>4 DEF held
  <2>6. CASE \A s \in Smallest(tracked) : ~(b > tracked[s])
    <3>1. after = tracked
      BY <2>4, <2>6 DEF TrackLargest, LARGEST_TRACKED
    <3> QED
      BY <2>3, <2>6, <3>1 DEF held
  <2> QED
    BY <2>5, <2>6
<1>8. CASE c \in kept \/ Cardinality(kept) < 4
  <2>1. after = Tracking(tracked, c, b)
    BY <1>8 DEF TrackLargest, LARGEST_TRACKED
  <2> QED
    BY <1>5, <1>6, <1>8, <2>1
<1>9. c \in kept \/ Cardinality(kept) < 4 \/ Cardinality(kept) >= 4
  BY <1>1
<1> QED
  BY <1>7, <1>8, <1>9

LEMMA InitPolls == Init => Polls
<1> SUFFICES ASSUME Init PROVE Polls
  OBVIOUS
<1>1. Backers = {} /\ balance = contributed
  BY DEF Init, Backers
<1>2. Total(contributed, Contributors) = 0
  BY TotalZero DEF Init
<1>3. contributorCount = Cardinality(Backers)
  BY <1>1, FS_EmptySet DEF Init
<1>4. Ranks(tracked, contributed)
  BY DEF Init, Ranks
<1>5. VotesCounted
  <2> SUFFICES ASSUME NEW m \in Milestones
               PROVE  /\ approvals[m] = Cardinality(votes[m])
                      /\ approvedStake[m] = Total(contributed, votes[m])
                      /\ approvedWeight[m] = Total(Weights, votes[m])
    BY DEF VotesCounted, Weights
  <2>1. votes[m] = {} /\ approvals[m] = 0 /\ approvedStake[m] = 0 /\ approvedWeight[m] = 0
    BY DEF Init
  <2>2. Total(contributed, {}) = 0 /\ Total(Weights, {}) = 0
    BY TotalZero
  <2> QED
    BY <2>1, <2>2, FS_EmptySet
<1>6. ReleaseMandate
  BY DEF Init, ReleaseMandate
<1> QED
  BY <1>1, <1>2, <1>3, <1>4, <1>5, <1>6 DEF Polls, Init

\* A step that neither pledges nor votes nor pays leaves the polls as they were.
LEMMA QuietPolls ==
  ASSUME Polls, UNCHANGED <<votes, approvals, approvedStake, approvedWeight,
                            tracked, contributorCount, raised, contributed, released>>,
         state' \in {"Raising", "Funded", "Active", "Completed"} =>
           state \in {"Raising", "Funded", "Active", "Completed"} /\ balance' = balance,
         state' \in {"Raising", "Failed"} => state \in {"Raising", "Failed"}
  PROVE  Polls'
<1>1. VotesCounted' /\ ReleaseMandate' /\ Backers' = Backers
  BY DEF Polls, VotesCounted, ReleaseMandate, Backers
<1> QED
  BY <1>1 DEF Polls, Ranks

\* A contribution comes before every vote, and adds to one backer only.
LEMMA ContributePolls ==
  ASSUME IInv, Polls, NEW c \in Contributors, NEW amount \in Amounts, Contribute(c, amount)
  PROVE  Polls'
<1>1. state = "Raising" /\ amount \in Nat \ {0} /\ released = {}
  <2>1. state = "Raising"
    BY StateFacts DEF Contribute, Accepts
  <2>2. amount \in Nat \ {0}
    BY ConfigAccepted DEF Contribute, Accepts
  <2> QED
    BY <2>1, <2>2 DEF IInv, Accounts
<1>2. /\ balance = contributed /\ contributed \in [Contributors -> Nat]
      /\ \A m \in Milestones : votes[m] = {}
      /\ IsFiniteSet(Contributors) /\ contributorCount = Cardinality(Backers)
  BY <1>1, ConfigAccepted DEF Polls, IInv, TypeOK
<1> DEFINE b == contributed[c] + amount
<1>3. b \in Nat /\ b >= contributed[c] /\ b > 0 /\ contributed[c] \in Nat
  BY <1>1, <1>2
<1>4. /\ contributed' = [contributed EXCEPT ![c] = b]
      /\ balance' = [contributed EXCEPT ![c] = b]
      /\ raised' = raised + amount
      /\ tracked' \in TrackLargest(tracked, c, b)
      /\ contributorCount' = contributorCount + (IF contributed[c] = 0 THEN 1 ELSE 0)
      /\ UNCHANGED <<released, votes, approvals, approvedStake, approvedWeight>>
  BY <1>2 DEF Contribute, ballots
<1>5. contributed'[c] = b /\ \A d \in Contributors \ {c} : contributed'[d] = contributed[d]
  BY <1>2, <1>4
<1> HIDE DEF b
<1>6. Total(contributed', Contributors) = raised'
  <2>1. \A y \in Contributors : contributed[y] \in Nat /\ contributed'[y] \in Nat
    BY <1>2, <1>3, <1>5
  <2>2. Total(contributed', Contributors) = Total(contributed, Contributors) - contributed[c] + b
    BY <1>2, <1>5, <2>1, TotalUpdate
  <2>3. Total(contributed, Contributors) = raised /\ raised \in Nat
    BY StateFacts DEF Polls
  <2> QED
    BY <1>1, <1>3, <1>4, <2>2, <2>3 DEF b
<1>7. contributorCount' = Cardinality(Backers')
  <2>1. Backers' = Backers \cup {c}
    BY <1>2, <1>3, <1>5 DEF Backers
  <2>2. IsFiniteSet(Backers) /\ Cardinality(Backers) \in Nat
    BY <1>2, FS_Subset, FS_CardinalityType DEF Backers
  <2>3. c \in Backers <=> contributed[c] # 0
    BY <1>3 DEF Backers
  <2>4. Cardinality(Backers \cup {c}) =
          IF c \in Backers THEN Cardinality(Backers) ELSE Cardinality(Backers) + 1
    BY <2>2, FS_AddElement
  <2> QED
    BY <1>2, <1>4, <2>1, <2>2, <2>3, <2>4
<1>8. Ranks(tracked, contributed)'
  <2>1. Ranks(tracked', [contributed EXCEPT ![c] = b])
    BY <1>3, <1>4, RanksKept DEF IInv, Polls
  <2> QED
    BY <1>4, <2>1 DEF Ranks
<1>9. VotesCounted'
  <2> SUFFICES ASSUME NEW m \in Milestones
               PROVE  /\ approvals'[m] = Cardinality(votes'[m])
                      /\ approvedStake'[m] = Total(contributed', votes'[m])
                      /\ approvedWeight'[m] = Total(Weights', votes'[m])
    BY DEF VotesCounted, Weights
  <2>1. votes'[m] = {} /\ votes[m] = {}
    BY <1>2, <1>4
  <2>2. /\ approvals[m] = Cardinality({}) /\ approvedStake[m] = Total(contributed, {})
        /\ approvedWeight[m] = Total(Weights, {})
    BY <2>1 DEF Polls, VotesCounted, Weights
  <2>3. /\ Total(contributed, {}) = 0 /\ Total(contributed', {}) = 0
        /\ Total(Weights, {}) = 0 /\ Total(Weights', {}) = 0
    BY TotalZero
  <2> QED
    BY <1>4, <2>1, <2>2, <2>3
<1>10. ReleaseMandate'
  BY <1>1, <1>4 DEF ReleaseMandate
<1> QED
  BY <1>2, <1>4, <1>6, <1>7, <1>8, <1>9, <1>10 DEF Polls

\* A vote adds its voter, its stake and its weight to the tallies of one
\* milestone, whose voters could not have changed their stake since.
LEMMA ApprovePolls ==
  ASSUME IInv, Polls, NEW c \in Contributors, NEW m \in Milestones, ApproveMilestone(c, m)
  PROVE  Polls'
<1>1. /\ state \in {"Funded", "Active"} /\ state' = state
      /\ m \notin released /\ c \notin votes[m] /\ balance[c] > 0
  BY PayingFacts, StateFacts DEF ApproveMilestone, MayApprove, SyncState, Opened, Undecided
<1>2. /\ balance = contributed /\ raised \in Nat
      /\ contributed \in [Contributors -> Nat] /\ IsFiniteSet(Contributors)
      /\ votes \in [Milestones -> SUBSET Contributors]
      /\ approvals \in [Milestones -> Nat]
      /\ approvedStake \in [Milestones -> Nat] /\ approvedWeight \in [Milestones -> Nat]
  BY <1>1, ConfigAccepted, StateFacts DEF Polls, IInv, TypeOK
<1>3. /\ votes' = [votes EXCEPT ![m] = votes[m] \cup {c}]
      /\ approvedWeight' = [approvedWeight EXCEPT ![m] = approvedWeight[m] + Weights[c]]
      /\ approvals' = [approvals EXCEPT ![m] = approvals[m] + 1]
      /\ approvedStake' = [approvedStake EXCEPT ![m] = approvedStake[m] + contributed[c]]
      /\ UNCHANGED <<released, balance, tracked, contributorCount, raised, contributed>>
  BY <1>2 DEF ApproveMilestone, pledges, Weights
<1>4. Weights' = Weights /\ Backers' = Backers
  BY <1>3 DEF Weights, Backers
<1>5. \A y \in Contributors : Weights[y] \in Nat /\ contributed[y] \in Nat
  BY <1>2, FourSuffice DEF Polls, IInv
<1>6. VotesCounted'
  <2> SUFFICES ASSUME NEW k \in Milestones
               PROVE  /\ approvals'[k] = Cardinality(votes'[k])
                      /\ approvedStake'[k] = Total(contributed, votes'[k])
                      /\ approvedWeight'[k] = Total(Weights, votes'[k])
    BY <1>3, <1>4 DEF VotesCounted, Weights
  <2>1. /\ approvals[k] = Cardinality(votes[k])
        /\ approvedStake[k] = Total(contributed, votes[k])
        /\ approvedWeight[k] = Total(Weights, votes[k])
    BY DEF Polls, VotesCounted, Weights
  <2>2. CASE k = m
    <3>1. /\ votes'[k] = votes[k] \cup {c}
          /\ approvedWeight'[k] = approvedWeight[k] + Weights[c]
          /\ approvals'[k] = approvals[k] + 1
          /\ approvedStake'[k] = approvedStake[k] + contributed[c]
      BY <1>2, <1>3, <2>2
    <3>2. IsFiniteSet(votes[k]) /\ c \notin votes[k] /\ votes[k] \cup {c} \subseteq Contributors
      <4>1. votes[k] \subseteq Contributors
        BY <1>2
      <4> QED
        BY <1>1, <1>2, <2>2, <4>1, FS_Subset
    <3>3. Cardinality(votes[k] \cup {c}) = Cardinality(votes[k]) + 1
      BY <3>2, FS_AddElement
    <3>4. Total(contributed, votes[k] \cup {c}) = Total(contributed, votes[k]) + contributed[c]
      BY <1>5, <3>2, TotalInsert
    <3>5. Total(Weights, votes[k] \cup {c}) = Total(Weights, votes[k]) + Weights[c]
      BY <1>5, <3>2, TotalInsert
    <3> QED
      BY <2>1, <3>1, <3>3, <3>4, <3>5
  <2>3. CASE k # m
    <3>1. /\ votes'[k] = votes[k] /\ approvedWeight'[k] = approvedWeight[k]
          /\ approvals'[k] = approvals[k] /\ approvedStake'[k] = approvedStake[k]
      BY <1>2, <1>3, <2>3
    <3> QED
      BY <2>1, <3>1
  <2> QED
    BY <2>2, <2>3
<1>7. ReleaseMandate'
  <2>1. \A k \in released : votes'[k] = votes[k]
    BY <1>1, <1>2, <1>3
  <2> QED
    BY <1>3, <1>4, <2>1 DEF Polls, ReleaseMandate
<1>8. \A k \in Milestones : votes'[k] \subseteq Backers
  <2>1. c \in Backers
    BY <1>1, <1>2 DEF Backers
  <2> QED
    BY <1>2, <1>3, <2>1 DEF Polls
<1> QED
  BY <1>1, <1>2, <1>3, <1>4, <1>6, <1>7, <1>8 DEF Polls, Ranks

\* What carries a vote, said of the wallets that cast it.
LEMMA CarriedIsMandate ==
  ASSUME IInv, Polls, NEW m \in Milestones, Carried(m)
  PROVE  /\ votes[m] \subseteq Backers
         /\ Cardinality(votes[m]) >= 3 \/ votes[m] = Backers
         /\ 2 * Total(contributed, votes[m]) > raised
         /\ 2 * Total(Weights, votes[m]) > Total(Weights, Backers)
<1>1. /\ votes[m] \subseteq Backers /\ approvals[m] = Cardinality(votes[m])
      /\ approvedStake[m] = Total(contributed, votes[m])
      /\ approvedWeight[m] = Total(Weights, votes[m])
      /\ contributorCount = Cardinality(Backers)
  BY DEF Polls, VotesCounted, Weights
<1>2. TotalWeight(tracked, raised) = Total(Weights, Contributors)
      /\ Total(Weights, Contributors) \in Nat /\ \A y \in Contributors : Weights[y] \in Nat
  BY FourSuffice DEF IInv, Polls
<1>3. IsFiniteSet(Contributors) /\ Backers \in SUBSET Contributors /\ IsFiniteSet(Backers)
  BY ConfigAccepted, FS_Subset DEF Backers
<1>4. Total(Weights, Contributors) = Total(Weights, Backers)
  <2>1. \A y \in Contributors \ Backers : contributed[y] = 0
    BY DEF Backers, IInv, TypeOK
  <2>2. \A y \in Contributors \ Backers : Weights[y] = 0
    <3> SUFFICES ASSUME NEW y \in Contributors \ Backers PROVE Weights[y] = 0
      OBVIOUS
    <3>1. contributed[y] = 0 /\ raised \in Nat
      BY <2>1, StateFacts
    <3>2. EffectiveWeight(0, raised) = 0
      BY <3>1, WeightParts
    <3> QED
      BY <3>1, <3>2 DEF Weights
  <2> QED
    BY <1>3, <2>2, TotalSupport
<1>5. approvedWeight[m] \in Nat /\ approvedStake[m] \in Nat /\ raised \in Nat
  BY StateFacts DEF IInv, TypeOK
<1>6. 2 * approvedStake[m] > raised
  BY <1>5 DEF Carried, StakeMajority, ThresholdMet, BPS, RELEASE_THRESHOLD_BPS
<1>7. 2 * approvedWeight[m] > Total(Weights, Contributors)
  BY <1>2, <1>5 DEF Carried, ThresholdMet, BPS, RELEASE_THRESHOLD_BPS
<1>8. Cardinality(votes[m]) >= 3 \/ votes[m] = Backers
  <2>1. IsFiniteSet(votes[m]) /\ Cardinality(votes[m]) \in Nat /\ Cardinality(Backers) \in Nat
    BY <1>1, <1>3, FS_Subset, FS_CardinalityType
  <2>2. /\ Cardinality(votes[m]) <= Cardinality(Backers)
        /\ Cardinality(Backers) = Cardinality(votes[m]) => Backers = votes[m]
    BY <1>1, <1>3, FS_Subset
  <2>3. Cardinality(votes[m]) >= IF Cardinality(Backers) < 3 THEN Cardinality(Backers) ELSE 3
    BY <1>1 DEF Carried, RequiredWallets, MIN_APPROVING_WALLETS
  <2> QED
    BY <2>1, <2>2, <2>3
<1> QED
  BY <1>1, <1>4, <1>6, <1>7, <1>8

LEMMA ReleasePolls ==
  ASSUME IInv, Polls, NEW m \in Milestones, ReleaseMilestone(m)
  PROVE  Polls'
<1>1. /\ state \in {"Funded", "Active"} /\ state' \in {"Active", "Completed"}
      /\ Carried(m) /\ released' = released \cup {m}
      /\ UNCHANGED <<balance, tracked, contributorCount, raised, contributed,
                     votes, approvals, approvedStake, approvedWeight>>
  BY PayingFacts DEF ReleaseMilestone, ballots, pledges
<1>2. Weights' = Weights /\ Backers' = Backers
  BY <1>1 DEF Weights, Backers
<1>3. VotesCounted'
  BY <1>1, <1>2 DEF Polls, VotesCounted
<1>4. ReleaseMandate'
  <2> SUFFICES ASSUME NEW k \in released'
               PROVE  /\ votes[k] \subseteq Backers
                      /\ Cardinality(votes[k]) >= 3 \/ votes[k] = Backers
                      /\ 2 * Total(contributed, votes[k]) > raised
                      /\ 2 * Total(Weights, votes[k]) > Total(Weights, Backers)
    BY <1>1, <1>2 DEF ReleaseMandate, Weights
  <2>1. CASE k = m
    BY <2>1, <1>1, CarriedIsMandate
  <2>2. CASE k \in released
    BY <2>2 DEF Polls, ReleaseMandate, Weights
  <2> QED
    BY <1>1, <2>1, <2>2
<1> QED
  BY <1>1, <1>2, <1>3, <1>4 DEF Polls, Ranks

LEMMA NextPolls == IInv /\ Polls /\ [Next]_vars => Polls'
<1> SUFFICES ASSUME IInv, Polls, [Next]_vars PROVE Polls'
  OBVIOUS
<1> USE DEF ballots, pledges, ledger, others
<1>1. ASSUME NEW c \in Contributors, ClaimRefund(c) PROVE Polls'
  BY <1>1, QuietPolls, StateFacts DEF ClaimRefund, SyncState
<1>2. ASSUME NEW m \in Milestones, OpenMilestoneVote(m) PROVE Polls'
  <2>1. state' = state
    BY <1>2, PayingFacts DEF OpenMilestoneVote, SyncState
  <2> QED
    BY <1>2, <2>1, QuietPolls DEF OpenMilestoneVote
<1>3. CASE Settle
  BY <1>3, QuietPolls, StateFacts DEF Settle, SyncState
<1>4. CASE ReturnBond
  BY <1>4, QuietPolls, StateFacts DEF ReturnBond, BondDue, SyncState
<1>5. CASE SettleStalled
  BY <1>5, QuietPolls DEF SettleStalled
<1>6. ASSUME NEW m \in Milestones, SettleLapsedMilestone(m) PROVE Polls'
  BY <1>6, QuietPolls DEF SettleLapsedMilestone
<1>7. CASE Environment
  <2>1. UNCHANGED others
    BY <1>7 DEF Environment, Tick, Donate, DisableFactory, AddFactory
  <2> QED
    BY <2>1, QuietPolls
<1>8. CASE UNCHANGED vars
  BY <1>8, QuietPolls DEF vars
<1>9. CASE ContributorCall
  BY <1>9, <1>1, ContributePolls, ApprovePolls DEF ContributorCall
<1>10. CASE AnyonesCall
  BY <1>10, <1>3, <1>4, <1>5, <1>6, ReleasePolls DEF AnyonesCall
<1> QED
  BY <1>2, <1>7, <1>8, <1>9, <1>10 DEF Next, BuilderCall

\* Every reachable state satisfies the polls' part of the invariant too.
THEOREM PollsHold == Spec => [](IInv /\ Polls)
BY InitInvariant, NextInvariant, InitPolls, NextPolls, PTL DEF Spec

\* However many backers vote, in whichever order, the tallies of a milestone are
\* what its voters put in and weigh, each counted once.
THEOREM TalliesExact == Spec => []VotesCounted
<1>1. Polls => VotesCounted
  BY DEF Polls
<1> QED
  BY PollsHold, <1>1, PTL

\* Four balances are enough to compute the capped total of any number of
\* backers, in whatever order and sizes they contribute.
THEOREM FourBalancesSuffice == Spec => []CappedTotalExact
<1>1. IInv /\ Polls => CappedTotalExact
  BY FourSuffice DEF IInv, Polls, CappedTotalExact, Weights
<1> QED
  BY PollsHold, <1>1, PTL

\* No tranche ever leaves the vault without three distinct backers, or all of
\* them, who put in more than half and weigh more than half.
THEOREM MandateForEveryTranche == Spec => []ReleaseMandate
<1>1. Polls => ReleaseMandate
  BY DEF Polls
<1> QED
  BY PollsHold, <1>1, PTL

\* No cap and no rounding stands between a unanimous vote and its execution,
\* from a raise of one token by one wallet up.
THEOREM UnanimousVotesCarry == Spec => []UnanimityCarries
<1>1. ASSUME IInv, Polls, NEW m \in Milestones, Paying, votes[m] = Backers
      PROVE  Carried(m)
  <2>1. raised \in Nat \ {0} /\ Total(contributed, Contributors) = raised
    BY <1>1, PayingFacts, ConfigAccepted DEF Polls
  <2>2. /\ approvals[m] = contributorCount /\ contributorCount \in Nat
        /\ approvedStake[m] = Total(contributed, Backers)
        /\ approvedWeight[m] = Total(Weights, Backers)
    BY <1>1 DEF Polls, VotesCounted, Weights, IInv, TypeOK
  <2>3. /\ TotalWeight(tracked, raised) = Total(Weights, Contributors)
        /\ Total(Weights, Contributors) \in Nat
        /\ \A c \in Contributors : Weights[c] \in Nat
    BY <1>1, FourSuffice DEF IInv, Polls
  <2>4. \A c \in Contributors : contributed[c] \in Nat /\ (Weights[c] = 0 <=> contributed[c] = 0)
    <3> SUFFICES ASSUME NEW c \in Contributors
                 PROVE  contributed[c] \in Nat /\ (Weights[c] = 0 <=> contributed[c] = 0)
      OBVIOUS
    <3>1. contributed[c] \in Nat
      BY <1>1 DEF IInv, TypeOK
    <3> QED
      BY <2>1, <3>1, WeightParts DEF Weights
  <2>5. Total(contributed, Backers) = raised /\ Total(Weights, Backers) = Total(Weights, Contributors)
    <3>1. Backers \in SUBSET Contributors
      BY DEF Backers
    <3>2. \A c \in Contributors \ Backers : contributed[c] = 0 /\ Weights[c] = 0
      BY <2>4 DEF Backers
    <3> QED
      BY <2>1, <3>1, <3>2, TotalSupport
  <2>6. Total(Weights, Contributors) > 0
    <3>1. PICK c \in Contributors : contributed[c] # 0
      BY <2>1, TotalZero
    <3>2. Weights[c] <= Total(Weights, Contributors)
      BY <2>3, ConfigAccepted, TotalBoundsEntry
    <3> QED
      BY <2>3, <2>4, <3>1, <3>2
  <2>7. ThresholdMet(approvedWeight[m], TotalWeight(tracked, raised))
    BY <2>2, <2>3, <2>5, <2>6 DEF ThresholdMet, BPS, RELEASE_THRESHOLD_BPS
  <2>8. StakeMajority(approvedStake[m], raised)
    BY <2>1, <2>2, <2>5 DEF StakeMajority, ThresholdMet, BPS, RELEASE_THRESHOLD_BPS
  <2>9. approvals[m] >= RequiredWallets(contributorCount)
    BY <2>2 DEF RequiredWallets, MIN_APPROVING_WALLETS
  <2> QED
    BY <2>7, <2>8, <2>9 DEF Carried
<1>2. IInv /\ Polls => UnanimityCarries
  BY <1>1 DEF UnanimityCarries
<1> QED
  BY PollsHold, <1>2, PTL

\* The weight get_milestone_vote asks for carries, and one less does not.
THEOREM QuoteExact == Spec => []QuotedWeightExact
<1>1. ASSUME NEW total \in Nat \ {0}
      PROVE  /\ ThresholdMet(RequiredWeight(total), total)
             /\ ~ThresholdMet(RequiredWeight(total) - 1, total)
  <2> DEFINE half == (total * 5000) \div 10000
  <2>1. half \in Nat /\ half * 10000 <= total * 5000 /\ total * 5000 < (half + 1) * 10000
    OBVIOUS
  <2>2. RequiredWeight(total) = half + 1
    BY DEF RequiredWeight, BPS, RELEASE_THRESHOLD_BPS
  <2> HIDE DEF half
  <2> QED
    BY <2>1, <2>2 DEF ThresholdMet, BPS, RELEASE_THRESHOLD_BPS
<1>2. ASSUME IInv, Polls, raised > 0
      PROVE  TotalWeight(tracked, raised) \in Nat \ {0}
  <2>1. /\ TotalWeight(tracked, raised) = Total(Weights, Contributors)
        /\ Total(Weights, Contributors) \in Nat
        /\ \A c \in Contributors : Weights[c] \in Nat
    BY <1>2, FourSuffice DEF IInv, Polls
  <2>2. PICK c \in Contributors : contributed[c] # 0
    BY <1>2, TotalZero DEF Polls
  <2>3. Weights[c] # 0
    <3>1. contributed[c] \in Nat /\ raised \in Nat
      BY <1>2, StateFacts DEF IInv, TypeOK
    <3> QED
      BY <2>2, <3>1, WeightParts DEF Weights
  <2>4. Weights[c] <= Total(Weights, Contributors)
    BY <2>1, ConfigAccepted, TotalBoundsEntry
  <2> QED
    BY <2>1, <2>3, <2>4
<1>3. IInv /\ Polls => QuotedWeightExact
  BY <1>1, <1>2 DEF QuotedWeightExact
<1> QED
  BY PollsHold, <1>3, PTL

\* A carried vote is never given up for the builder's silence or for the age of
\* its own window, only because another milestone's vote lapsed.
THEOREM CarriedVotesOutlastSilence == Spec => OnlyALapseForfeitsACarriedVote
<1> DEFINE Forfeit  == state # "Refunding" /\ state' = "Refunding"
           Waiting  == \E m \in Milestones : Opened(m) /\ Carried(m)
           Lapsing  == \A k \in failed' : opensAt[k] # 0 /\ Elapsed(k) /\ ~Carried(k)
           Promised == Forfeit /\ Waiting => Lapsing
<1>1. ASSUME IInv, Next PROVE Promised
  <2>1. CASE SettleStalled
    BY <2>1 DEF SettleStalled, Stalled
  <2>2. ASSUME NEW m \in Milestones, SettleLapsedMilestone(m) PROVE Promised
    <3>1. failed' = {m} /\ opensAt[m] # 0 /\ Elapsed(m) /\ ~Carried(m)
      BY <1>1, <2>2, PayingFacts DEF SettleLapsedMilestone, Opened
    <3> QED
      BY <3>1
  <2>3. ASSUME NEW c \in Contributors PROVE ClaimRefund(c) => ~Forfeit
    BY <1>1, StateFacts DEF ClaimRefund, SyncState
  <2>4. ASSUME NEW c \in Contributors, NEW amount \in Amounts PROVE Contribute(c, amount) => ~Forfeit
    BY <1>1, StateFacts DEF Contribute, Accepts, SyncState
  <2>5. ASSUME NEW c \in Contributors, NEW m \in Milestones PROVE ApproveMilestone(c, m) => ~Forfeit
    BY <1>1, PayingFacts DEF ApproveMilestone, MayApprove, SyncState
  <2>6. ASSUME NEW m \in Milestones PROVE OpenMilestoneVote(m) => ~Forfeit
    BY <1>1, PayingFacts DEF OpenMilestoneVote, SyncState
  <2>7. Settle \/ ReturnBond => ~Forfeit
    BY <1>1, StateFacts DEF Settle, ReturnBond, BondDue, SyncState
  <2>8. ASSUME NEW m \in Milestones PROVE ReleaseMilestone(m) => ~Forfeit
    BY DEF ReleaseMilestone
  <2>9. Environment => ~Forfeit
    BY DEF Environment, Tick, Donate, DisableFactory, AddFactory, others
  <2> QED
    BY <1>1, <2>1, <2>2, <2>3, <2>4, <2>5, <2>6, <2>7, <2>8, <2>9
       DEF Next, ContributorCall, BuilderCall, AnyonesCall
<1>2. IInv /\ [Next]_vars => [Promised]_vars
  <2> HIDE DEF Promised
  <2> QED
    BY <1>1
<1>3. [][Promised]_vars <=> OnlyALapseForfeitsACarriedVote
  BY PTL DEF OnlyALapseForfeitsACarriedVote
<1> QED
  BY InvariantHolds, <1>2, <1>3, PTL DEF Spec

\* The last backer of a forfeited project takes whatever truncation, or anybody's
\* stray transfer, has left in the vault.
THEOREM LastClaimSweeps == Spec => NoDustStranded
<1> DEFINE owing   == Total(balance, Contributors)
           left    == Total(balance', Contributors)
           Emptied == state' = "Refunding" /\ Total(balance, Contributors) > 0
                        /\ Total(balance', Contributors) = 0 => tokens' = 0
<1>1. ASSUME IInv, Next PROVE Emptied
  <2>1. ASSUME NEW c \in Contributors, ClaimRefund(c), state' = "Refunding", left = 0
        PROVE  tokens' = 0
    <3>1. EffectiveState = "Refunding" /\ state = "Refunding"
      BY <1>1, <2>1, StateFacts DEF ClaimRefund, SyncState
    <3>2. left = owing - balance[c]
      <4>1. Total([balance EXCEPT ![c] = 0], Contributors) = owing - balance[c] + 0
        BY <1>1, BalanceUpdate DEF IInv
      <4>2. balance[c] \in Nat /\ owing \in Nat
        BY <1>1, BalanceSums DEF IInv, TypeOK
      <4> QED
        BY <2>1, <4>1, <4>2 DEF ClaimRefund
    <3>3. unclaimed = balance[c]
      <4>1. balance[c] \in Nat /\ owing \in Nat /\ unclaimed = owing
        BY <1>1, BalanceSums DEF IInv, TypeOK, Accounts
      <4> HIDE DEF owing
      <4> QED
        BY <2>1, <3>2, <4>1
    <3>4. Sweeps(c)
      BY <3>1, <3>3 DEF Sweeps
    <3> DEFINE due == RefundDue(c)
    <3>5. /\ tokens >= (IF tokens > due THEN tokens ELSE due)
          /\ tokens' = tokens - (IF tokens > due THEN tokens ELSE due)
      BY <2>1, <3>4 DEF ClaimRefund
    <3>6. tokens \in Nat /\ due \in Int
      <4>1. /\ balance[c] \in Nat /\ raised \in Nat \ {0} /\ raised - releasedTotal \in Int
            /\ Bond \in Int /\ tokens \in Nat
        BY <1>1, <3>1, StateFacts DEF IInv, TypeOK, Accounts
      <4>2. ASSUME NEW pot \in Int PROVE ShareOf(balance[c], pot) \in Int
        <5>1. balance[c] * pot \in Int
          BY <4>1
        <5> QED
          BY <4>1, <5>1 DEF ShareOf
      <4>3. ShareOf(balance[c], raised - releasedTotal) \in Int /\ ShareOf(balance[c], Bond) \in Int
        BY <4>1, <4>2
      <4> QED
        BY <3>1, <4>1, <4>3 DEF RefundDue
    <3> HIDE DEF due
    <3> QED
      BY <3>5, <3>6
  <2>2. ASSUME NEW c \in Contributors, NEW amount \in Amounts
        PROVE  Contribute(c, amount) => state' # "Refunding"
    BY <1>1, StateFacts DEF Contribute, Accepts, SyncState
  <2>3. \/ \E c \in Contributors, m \in Milestones : ApproveMilestone(c, m)
        \/ BuilderCall \/ AnyonesCall \/ Environment
        => left = owing
    BY DEF ApproveMilestone, BuilderCall, OpenMilestoneVote, AnyonesCall, Settle, ReturnBond,
           SettleStalled, ReleaseMilestone, SettleLapsedMilestone, Environment, Tick, Donate,
           DisableFactory, AddFactory, others, pledges
  <2> QED
    BY <1>1, <2>1, <2>2, <2>3 DEF Next, ContributorCall
<1>2. IInv /\ [Next]_vars => [Emptied]_vars
  <2> HIDE DEF Emptied
  <2> QED
    BY <1>1
<1>3. [][Emptied]_vars <=> NoDustStranded
  BY PTL DEF NoDustStranded
<1> QED
  BY InvariantHolds, <1>2, <1>3, PTL DEF Spec

-----------------------------------------------------------------------------
(***************************************************************************)
(* Refunds.  Solvency bounds what the vault holds from below; that the     *)
(* last claimant's sweep is no windfall needs the bound from above: what   *)
(* exceeds the exact shares of those still to claim is at most the stray   *)
(* transfers and two units of truncation for each who has claimed.         *)
(***************************************************************************)
Claimed == {c \in Contributors : balance[c] # contributed[c]}

Claims ==
  /\ \A c \in Contributors : balance[c] = 0 \/ balance[c] = contributed[c]
  /\ \A c \in Contributors : balance[c] = contributed[c] => refunded[c] = 0
  /\ FairShares
  /\ state \in {"Raising", "Funded", "Active"} => tokens = raised - releasedTotal + Bond + donated
  /\ state = "Refunding" =>
       tokens * raised <= Total(balance, Contributors) * (raised - releasedTotal + Bond)
                            + (donated + 2 * Cardinality(Claimed)) * raised

\* What a backer who took `back` out of a forfeited project had coming.
DueFor(back) == ShareOf(back, raised - releasedTotal) + ShareOf(back, Bond)

\* Truncation loses less than one divisor.
LEMMA TruncationLoses ==
  ASSUME NEW a \in Nat, NEW r \in Nat \ {0}
  PROVE  a < (a \div r) * r + r
OBVIOUS

\* A backer's due falls short of the exact share by less than two units.
LEMMA DueBound ==
  ASSUME NEW b \in Nat, raised \in Nat \ {0}, raised - releasedTotal \in Nat, Bond \in Nat
  PROVE  /\ DueFor(b) \in Nat
         /\ b * (raised - releasedTotal + Bond) <= DueFor(b) * raised + 2 * raised
         /\ b = 0 => DueFor(b) = 0
<1> DEFINE rest      == raised - releasedTotal
           principal == ShareOf(b, rest)
           forfeit   == ShareOf(b, Bond)
<1>1. ASSUME NEW pot \in Nat
      PROVE  /\ ShareOf(b, pot) \in Nat
             /\ b * pot <= ShareOf(b, pot) * raised + raised
             /\ b = 0 => ShareOf(b, pot) = 0
  <2> DEFINE product == b * pot
  <2>1. product \in Nat
    OBVIOUS
  <2>2. ShareOf(b, pot) = product \div raised
    BY DEF ShareOf
  <2>3. b = 0 => product = 0
    OBVIOUS
  <2> HIDE DEF product
  <2>4. product \div raised \in Nat /\ product < (product \div raised) * raised + raised
    BY <2>1, TruncationLoses
  <2>5. (product \div raised) * raised \in Nat
    BY <2>4
  <2>6. product = 0 => product \div raised = 0
    OBVIOUS
  <2> QED
    BY <2>1, <2>2, <2>3, <2>4, <2>5, <2>6 DEF product
<1>2. /\ principal \in Nat /\ b * rest <= principal * raised + raised /\ (b = 0 => principal = 0)
  BY <1>1
<1>3. /\ forfeit \in Nat /\ b * Bond <= forfeit * raised + raised /\ (b = 0 => forfeit = 0)
  BY <1>1
<1>4. DueFor(b) = principal + forfeit
  BY DEF DueFor
<1>5. b * (rest + Bond) = b * rest + b * Bond
  OBVIOUS
<1> HIDE DEF principal, forfeit
<1>6. (principal + forfeit) * raised = principal * raised + forfeit * raised
  BY <1>2, <1>3
<1>7. /\ b * rest \in Int /\ b * Bond \in Int /\ principal * raised \in Int
      /\ forfeit * raised \in Int
  BY <1>2, <1>3
<1>8. b * (rest + Bond) <= (principal + forfeit) * raised + 2 * raised
  BY <1>2, <1>3, <1>5, <1>6, <1>7
<1> QED
  BY <1>2, <1>3, <1>4, <1>8

\* FairShares, phase by phase.
LEMMA FairPhases ==
  ASSUME TypeOK
  PROVE  FairShares <=> \A c \in Contributors :
           /\ state = "Failed" => refunded[c] = contributed[c] - balance[c]
           /\ state = "Refunding" =>
                /\ refunded[c] >= DueFor(contributed[c] - balance[c])
                /\ refunded[c] <= DueFor(contributed[c] - balance[c])
                                    + 2 * contributorCount + donated
           /\ state \notin {"Failed", "Refunding"} =>
                refunded[c] = 0 /\ contributed[c] - balance[c] = 0
BY DEF FairShares, DueFor, TypeOK, VaultStates

\* Those who have claimed are backers.
LEMMA ClaimedCount ==
  ASSUME IInv, Polls, Claims
  PROVE  /\ IsFiniteSet(Claimed) /\ Cardinality(Claimed) \in Nat
         /\ Claimed \subseteq Backers
         /\ contributorCount = Cardinality(Backers) /\ IsFiniteSet(Backers)
<1>1. Backers \in SUBSET Contributors /\ IsFiniteSet(Contributors)
  BY ConfigAccepted DEF Backers
<1>2. Claimed \subseteq Backers
  BY DEF Claimed, Backers, Claims, IInv, TypeOK
<1> QED
  BY <1>1, <1>2, FS_Subset, FS_CardinalityType DEF Polls

\* While nobody can claim, nobody has.
LEMMA NoneClaimed ==
  ASSUME IInv, Claims, state \notin {"Failed", "Refunding"}
  PROVE  \A c \in Contributors : refunded[c] = 0 /\ balance[c] = contributed[c]
<1>1. \A c \in Contributors : refunded[c] = 0 /\ contributed[c] - balance[c] = 0
  BY FairPhases DEF IInv, Claims
<1> QED
  BY <1>1 DEF IInv, TypeOK

\* Two states of a project that is alive or completed differ in nothing the
\* shares depend on.
LEMMA LiveClaims ==
  ASSUME TypeOK', state' \in {"Raising", "Funded", "Active", "Completed"},
         \A c \in Contributors : refunded'[c] = 0 /\ balance'[c] = contributed'[c],
         state' # "Completed" => tokens' = raised' - releasedTotal' + Bond + donated'
  PROVE  Claims'
<1>1. FairShares'
  BY DEF FairShares, TypeOK
<1> QED
  BY <1>1 DEF Claims

LEMMA InitClaims == Init => Claims
<1> SUFFICES ASSUME Init PROVE Claims
  OBVIOUS
<1>1. FairShares
  BY DEF Init, FairShares
<1> QED
  BY <1>1, ConfigAccepted DEF Init, Claims

\* A missed goal opens the refunds with nothing claimed; after that nothing but
\* a claim changes what anybody got back.
LEMMA FailClaims ==
  ASSUME IInv, Claims, TypeOK', EffectiveState = "Failed", state' = "Failed",
         UNCHANGED <<balance, contributed, refunded>>
  PROVE  Claims'
<1>1. state \in {"Raising", "Failed"}
  BY StateFacts
<1>2. \A c \in Contributors : refunded[c] = contributed[c] - balance[c]
  <2>1. CASE state = "Raising"
    <3> SUFFICES ASSUME NEW c \in Contributors PROVE refunded[c] = contributed[c] - balance[c]
      OBVIOUS
    <3>1. refunded[c] = 0 /\ balance[c] = contributed[c] /\ contributed[c] \in Nat
      BY <2>1, NoneClaimed DEF IInv, TypeOK
    <3> QED
      BY <3>1
  <2>2. CASE state = "Failed"
    BY <2>2, FairPhases DEF IInv, Claims
  <2> QED
    BY <1>1, <2>1, <2>2
<1>3. FairShares'
  BY <1>2 DEF FairShares
<1> QED
  BY <1>3 DEF Claims

\* A forfeiture opens the refunds with the vault holding exactly what is left of
\* the raise, the bond and the stray transfers.
LEMMA ForfeitClaims ==
  ASSUME IInv, Polls, Claims, TypeOK', Paying, state' = "Refunding",
         UNCHANGED <<unclaimed, releasedTotal, refunded, pledges, tokens, donated>>
  PROVE  Claims'
<1> USE DEF pledges
<1> DEFINE k == raised - releasedTotal + Bond
<1>1. /\ state \in {"Funded", "Active"} /\ raised \in Nat \ {0} /\ raised - releasedTotal \in Nat
      /\ Bond \in Nat /\ k \in Nat /\ donated \in Nat /\ contributorCount \in Nat
  <2>1. /\ state \in {"Funded", "Active"} /\ raised = Goal
        /\ releasedTotal \in Nat /\ releasedTotal <= Goal /\ Goal \in Nat \ {0} /\ Bond \in Nat
    BY PayingFacts, StateFacts
  <2>2. donated \in Nat /\ contributorCount \in Nat
    BY DEF IInv, TypeOK
  <2> QED
    BY <2>1, <2>2
<1>2. \A c \in Contributors : refunded[c] = 0 /\ balance[c] = contributed[c]
  BY <1>1, NoneClaimed
<1>3. \A c \in Contributors : contributed[c] - balance[c] = 0
  BY <1>2 DEF IInv, TypeOK
<1>4. DueFor(0) = 0
  BY <1>1, DueBound
<1>5. FairShares'
  <2>1. \A c \in Contributors : /\ refunded[c] >= DueFor(contributed[c] - balance[c])
                                /\ refunded[c] <= DueFor(contributed[c] - balance[c])
                                                    + 2 * contributorCount + donated
    BY <1>1, <1>2, <1>3, <1>4
  <2> QED
    BY <2>1 DEF FairShares, DueFor, ShareOf
<1>6. tokens = k + donated /\ Total(balance, Contributors) = raised
  BY <1>1, PayingFacts DEF Claims, IInv, Accounts
<1>7. Claimed = {} /\ Cardinality(Claimed) = 0
  BY <1>2, FS_EmptySet DEF Claimed
<1>8. tokens * raised <= raised * k + (donated + 2 * 0) * raised
  <2> HIDE DEF k
  <2> QED
    BY <1>1, <1>6
<1> QED
  BY <1>2, <1>5, <1>6, <1>7, <1>8 DEF Claims, Claimed

\* A call that moves no tokens and leaves the state as it is.
LEMMA StillClaims ==
  ASSUME Claims, UNCHANGED <<state, balance, contributed, refunded, raised, releasedTotal,
                             contributorCount, tokens, donated>>
  PROVE  Claims'
BY DEF Claims, Claimed, FairShares, ShareOf

\* Time passes and tokens arrive: the bound on a sweep grows with them.
LEMMA EnvironmentClaims ==
  ASSUME IInv, Polls, Claims, Environment
  PROVE  Claims'
<1> DEFINE owing == Total(balance, Contributors)
           k     == raised - releasedTotal + Bond
           n     == Cardinality(Claimed)
<1>1. /\ UNCHANGED <<state, balance, contributed, refunded, raised, releasedTotal, contributorCount>>
      /\ donated' \in {donated, donated + 1}
  BY DEF Environment, Tick, Donate, DisableFactory, AddFactory, others, pledges, IInv, TypeOK
<1>2. /\ tokens \in Nat /\ donated \in Nat /\ raised \in Nat /\ releasedTotal \in Nat
      /\ Bond \in Nat /\ contributorCount \in Nat /\ owing \in Nat /\ n \in Nat
      /\ tokens' = tokens + (donated' - donated) /\ donated' \in Nat /\ donated' >= donated
  <2>1. tokens \in Nat /\ raised \in Nat /\ releasedTotal \in Nat /\ Bond \in Nat /\ n \in Nat
    BY StateFacts, ClaimedCount
  <2>2. owing \in Nat
    BY BalanceSums DEF IInv
  <2>3. donated \in Nat /\ contributorCount \in Nat
    BY DEF IInv, TypeOK
  <2>5. donated' \in Nat /\ donated' >= donated
    BY <1>1, <2>3
  <2>6. tokens' = tokens + (donated' - donated)
    BY <2>1, <2>3 DEF Environment, Tick, Donate, DisableFactory, AddFactory
  <2> HIDE DEF owing, n
  <2> QED
    BY <2>1, <2>2, <2>3, <2>5, <2>6
<1>3. FairShares'
  <2>1. CASE state = "Refunding"
    <3> SUFFICES ASSUME NEW c \in Contributors
                 PROVE  /\ refunded[c] >= DueFor(contributed[c] - balance[c])
                        /\ refunded[c] <= DueFor(contributed[c] - balance[c])
                                            + 2 * contributorCount + donated'
      BY <1>1, <2>1 DEF FairShares, DueFor, ShareOf
    <3>1. /\ refunded[c] >= DueFor(contributed[c] - balance[c])
          /\ refunded[c] <= DueFor(contributed[c] - balance[c]) + 2 * contributorCount + donated
      BY <2>1, FairPhases DEF IInv, Claims
    <3>2. DueFor(contributed[c] - balance[c]) \in Nat /\ refunded[c] \in Nat
      <4>1. contributed[c] - balance[c] \in Nat
        BY DEF Claims, IInv, TypeOK
      <4>2. raised \in Nat \ {0} /\ raised - releasedTotal \in Nat
        BY <2>1, StateFacts DEF IInv, Accounts
      <4> QED
        BY <4>1, <4>2, <1>2, DueBound DEF IInv, TypeOK
    <3> QED
      BY <1>2, <3>1, <3>2
  <2>2. CASE state # "Refunding"
    BY <1>1, <2>2 DEF Claims, FairShares
  <2> QED
    BY <2>1, <2>2
<1>4. state \in {"Raising", "Funded", "Active"} => tokens' = raised - releasedTotal + Bond + donated'
  BY <1>2 DEF Claims
<1>5. state = "Refunding" => tokens' * raised <= owing * k + (donated' + 2 * n) * raised
  <2> SUFFICES ASSUME state = "Refunding"
               PROVE  tokens' * raised <= owing * k + (donated' + 2 * n) * raised
    OBVIOUS
  <2>1. tokens * raised <= owing * k + (donated + 2 * n) * raised
    BY DEF Claims
  <2>2. k \in Int
    BY <1>2
  <2> HIDE DEF owing, k, n
  <2>3. /\ tokens' * raised = tokens * raised + (donated' - donated) * raised
        /\ (donated' + 2 * n) * raised = (donated + 2 * n) * raised + (donated' - donated) * raised
    BY <1>2
  <2>4. /\ tokens * raised \in Int /\ owing * k \in Int /\ (donated + 2 * n) * raised \in Int
        /\ (donated' - donated) * raised \in Int
    BY <1>2, <2>2
  <2> QED
    BY <2>1, <2>3, <2>4
<1> QED
  BY <1>1, <1>3, <1>4, <1>5 DEF Claims, Claimed

\* After a missed goal, settled or not, a refund is what its backer took out.
LEMMA FailShares ==
  ASSUME IInv, Claims, EffectiveState = "Failed"
  PROVE  \A c \in Contributors : refunded[c] = contributed[c] - balance[c]
<1>1. CASE state = "Raising"
  <2> SUFFICES ASSUME NEW c \in Contributors PROVE refunded[c] = contributed[c] - balance[c]
    OBVIOUS
  <2>1. refunded[c] = 0 /\ balance[c] = contributed[c] /\ contributed[c] \in Nat
    BY <1>1, NoneClaimed DEF IInv, TypeOK
  <2> QED
    BY <2>1
<1>2. CASE state = "Failed"
  BY <1>2, FairPhases DEF IInv, Claims
<1> QED
  BY <1>1, <1>2, StateFacts

\* A common positive factor can be taken out of a comparison.
LEMMA CancelFactor ==
  ASSUME NEW t \in Nat, NEW x \in Nat, NEW r \in Nat \ {0}, t * r <= x * r
  PROVE  t <= x
<1> SUFFICES ASSUME t >= x + 1 PROVE FALSE
  OBVIOUS
<1>1. t * r >= (x + 1) * r /\ (x + 1) * r = x * r + r
  OBVIOUS
<1>2. t * r \in Nat /\ x * r \in Nat
  OBVIOUS
<1> QED
  BY <1>1, <1>2

\* A claim pays its backer the due, the last one at most the truncation of all
\* the claims and the stray transfers more.
LEMMA ClaimClaims ==
  ASSUME IInv, Polls, Claims, TypeOK', NEW c \in Contributors, ClaimRefund(c)
  PROVE  Claims'
<1> DEFINE due   == RefundDue(c)
           paid  == IF Sweeps(c) /\ tokens > due THEN tokens ELSE due
           b     == balance[c]
           owing == Total(balance, Contributors)
           k     == raised - releasedTotal + Bond
           n     == Cardinality(Claimed)
<1>1. /\ EffectiveState \in {"Failed", "Refunding"} /\ state' = EffectiveState
      /\ EffectiveState = "Failed" => state \in {"Raising", "Failed"}
      /\ EffectiveState = "Refunding" => state = "Refunding"
  BY StateFacts DEF ClaimRefund, SyncState
<1>2. /\ b \in Nat \ {0} /\ b = contributed[c] /\ balance \in [Contributors -> Nat]
      /\ contributed \in [Contributors -> Nat] /\ refunded \in [Contributors -> Nat]
  BY DEF ClaimRefund, Claims, IInv, TypeOK
<1>3. /\ balance' = [balance EXCEPT ![c] = 0] /\ refunded' = [refunded EXCEPT ![c] = refunded[c] + paid]
      /\ tokens' = tokens - paid /\ tokens >= paid
      /\ UNCHANGED <<raised, releasedTotal, contributorCount, contributed, donated>>
  BY <1>2 DEF ClaimRefund
<1>4. refunded[c] = 0
  BY <1>2 DEF Claims
<1>5. \A d \in Contributors : /\ balance'[d] = IF d = c THEN 0 ELSE balance[d]
                              /\ refunded'[d] = IF d = c THEN paid ELSE refunded[d]
  <2>1. refunded'[c] = 0 + paid
    BY <1>2, <1>3, <1>4
  <2>2. refunded'[c] \in Nat /\ tokens' \in Nat /\ tokens \in Nat
    BY StateFacts DEF TypeOK
  <2>3. refunded'[c] = paid
    <3>1. due \in Nat
      <4>1. b * (raised - releasedTotal) \in Int /\ b * Bond \in Int
        BY <1>2, StateFacts
      <4>2. EffectiveState = "Failed" \/ (raised \in Nat \ {0} /\ raised - releasedTotal \in Nat /\ Bond \in Nat)
        BY <1>1, StateFacts DEF IInv, Accounts
      <4>3. EffectiveState # "Failed" => DueFor(b) \in Nat
        BY <1>2, <4>2, DueBound
      <4> QED
        BY <1>2, <4>3 DEF RefundDue, DueFor
    <3>2. paid \in Nat
      BY <2>2, <3>1
    <3> HIDE DEF paid
    <3> QED
      BY <2>1, <3>2
  <2> HIDE DEF paid
  <2> QED
    BY <1>2, <1>3, <2>3
<1>6. /\ \A d \in Contributors : balance'[d] = 0 \/ balance'[d] = contributed'[d]
      /\ \A d \in Contributors : balance'[d] = contributed'[d] => refunded'[d] = 0
  BY <1>2, <1>3, <1>5 DEF Claims
<1>7. CASE EffectiveState = "Failed"
  <2>1. paid = b
    BY <1>7 DEF RefundDue, Sweeps
  <2>2. \A d \in Contributors : refunded'[d] = contributed'[d] - balance'[d]
    <3> SUFFICES ASSUME NEW d \in Contributors PROVE refunded'[d] = contributed[d] - balance'[d]
      BY <1>3
    <3>1. CASE d = c
      BY <3>1, <1>2, <1>5, <2>1
    <3>2. CASE d # c
      <4>1. refunded[d] = contributed[d] - balance[d]
        BY <1>7, FailShares
      <4> QED
        BY <3>2, <4>1, <1>5
    <3> QED
      BY <3>1, <3>2
  <2>3. FairShares'
    BY <1>1, <1>7, <2>2 DEF FairShares
  <2> QED
    BY <1>1, <1>6, <1>7, <2>3 DEF Claims
<1>8. CASE EffectiveState = "Refunding"
  <2>1. /\ state = "Refunding" /\ state' = "Refunding" /\ raised \in Nat \ {0}
        /\ raised - releasedTotal \in Nat /\ Bond \in Nat /\ k \in Nat /\ tokens \in Nat
    BY <1>1, <1>8, StateFacts DEF IInv, Accounts
  <2>2. due = DueFor(b)
    BY <1>8 DEF RefundDue, DueFor
  <2>3. due \in Nat /\ b * k <= due * raised + 2 * raised
    BY <1>2, <2>1, <2>2, DueBound
  <2>4. n \in Nat /\ donated \in Nat /\ contributorCount \in Nat /\ owing \in Nat
    <3>1. owing \in Nat
      BY BalanceSums DEF IInv
    <3> QED
      BY <3>1, ClaimedCount DEF IInv, TypeOK
  <2>5. tokens * raised <= owing * k + (donated + 2 * n) * raised
    BY <2>1 DEF Claims
  <2>6. Claimed' = Claimed \cup {c} /\ Cardinality(Claimed') = n + 1 /\ n + 1 <= contributorCount
    <3>1. c \notin Claimed
      BY <1>2 DEF Claimed
    <3>2. Claimed' = Claimed \cup {c}
      BY <1>2, <1>3, <1>5 DEF Claimed
    <3>3. /\ IsFiniteSet(Claimed) /\ Claimed \subseteq Backers
          /\ contributorCount = Cardinality(Backers) /\ IsFiniteSet(Backers)
      BY ClaimedCount
    <3>4. Cardinality(Claimed \cup {c}) = n + 1
      BY <3>1, <3>3, FS_AddElement
    <3>5. Claimed \cup {c} \in SUBSET Backers
      BY <1>2, <3>3 DEF Backers
    <3>6. Cardinality(Claimed \cup {c}) <= Cardinality(Backers)
      BY <3>3, <3>5, FS_Subset
    <3> QED
      BY <3>2, <3>3, <3>4, <3>6
  <2>7. owing' = owing - b /\ b <= owing
    <3>1. Total([balance EXCEPT ![c] = 0], Contributors) = owing - b + 0
      BY BalanceUpdate DEF IInv
    <3>2. b <= owing
      BY BalanceSums DEF IInv
    <3>3. Total(balance', Contributors) = owing - b
      <4> HIDE DEF b, owing
      <4> QED
        BY <1>2, <1>3, <2>4, <3>1 DEF b
    <3> QED
      BY <3>2, <3>3
  <2>8. /\ b * k \in Int /\ due * raised \in Int /\ owing * k \in Int /\ tokens * raised \in Int
        /\ (donated + 2 * n) * raised \in Int
    <3> HIDE DEF b, k, due, owing, n
    <3> QED
      BY <1>2, <2>1, <2>3, <2>4
  <2>9. ASSUME Sweeps(c) /\ tokens > due
        PROVE  /\ paid >= due /\ paid <= due + 2 * contributorCount + donated
               /\ tokens' * raised <= owing' * k + (donated + 2 * (n + 1)) * raised
    <3>1. paid = tokens /\ tokens' = 0
      BY <1>3, <2>1, <2>9
    <3>2. owing = b
      BY <2>9 DEF Sweeps, IInv, Accounts
    <3>3. tokens <= due + donated + 2 * n + 2
      <4> HIDE DEF b, k, due, owing, n
      <4>1. tokens * raised <= due * raised + 2 * raised + (donated + 2 * n) * raised
        BY <2>1, <2>3, <2>5, <2>8, <3>2
      <4>2. due * raised + 2 * raised + (donated + 2 * n) * raised = (due + donated + 2 * n + 2) * raised
        BY <2>1, <2>3, <2>4
      <4>3. due + donated + 2 * n + 2 \in Nat
        BY <2>3, <2>4
      <4> QED
        BY <2>1, <4>1, <4>2, <4>3, CancelFactor
    <3>4. paid >= due /\ paid <= due + 2 * contributorCount + donated
      <4> HIDE DEF due, n
      <4> QED
        BY <2>1, <2>3, <2>4, <2>6, <2>9, <3>1, <3>3
    <3>5. tokens' * raised <= owing' * k + (donated + 2 * (n + 1)) * raised
      <4> HIDE DEF b, k, due, owing, n
      <4>1. owing' = 0 /\ tokens' = 0
        BY <1>2, <2>4, <2>7, <3>1, <3>2
      <4>2. (donated + 2 * (n + 1)) * raised \in Nat
        BY <2>1, <2>4
      <4> QED
        BY <2>1, <4>1, <4>2
    <3> QED
      BY <3>4, <3>5
  <2>10. ASSUME ~(Sweeps(c) /\ tokens > due)
         PROVE  /\ paid >= due /\ paid <= due + 2 * contributorCount + donated
                /\ tokens' * raised <= owing' * k + (donated + 2 * (n + 1)) * raised
    <3>1. paid = due /\ tokens' = tokens - due
      BY <1>3, <2>10
    <3>2. paid >= due /\ paid <= due + 2 * contributorCount + donated
      <4> HIDE DEF due
      <4> QED
        BY <2>3, <2>4, <3>1
    <3>3. tokens' * raised <= owing' * k + (donated + 2 * (n + 1)) * raised
      <4> HIDE DEF b, k, due, owing, n
      <4>1. (tokens - due) * raised = tokens * raised - due * raised
        BY <2>1, <2>3
      <4>2. (owing - b) * k = owing * k - b * k
        BY <1>2, <2>1, <2>4
      <4>3. (donated + 2 * (n + 1)) * raised = (donated + 2 * n) * raised + 2 * raised
        BY <2>1, <2>4
      <4>4. (tokens - due) * raised <= (owing - b) * k + (donated + 2 * (n + 1)) * raised
        BY <2>1, <2>3, <2>5, <2>8, <4>1, <4>2, <4>3
      <4> QED
        BY <2>7, <3>1, <4>4
    <3> QED
      BY <3>2, <3>3
  <2>11. FairShares'
    <3> SUFFICES ASSUME NEW d \in Contributors
                 PROVE  /\ refunded'[d] >= DueFor(contributed[d] - balance'[d])
                        /\ refunded'[d] <= DueFor(contributed[d] - balance'[d])
                                             + 2 * contributorCount + donated
      BY <1>3, <2>1 DEF FairShares, DueFor, ShareOf
    <3>1. CASE d = c
      <4>1. contributed[d] - balance'[d] = b
        BY <1>2, <1>5, <3>1
      <4>2. refunded'[d] = paid
        BY <1>5, <3>1
      <4> HIDE DEF paid, due, b
      <4> QED
        BY <2>2, <2>9, <2>10, <4>1, <4>2
    <3>2. CASE d # c
      <4>1. /\ refunded[d] >= DueFor(contributed[d] - balance[d])
            /\ refunded[d] <= DueFor(contributed[d] - balance[d]) + 2 * contributorCount + donated
        BY <2>1, FairPhases DEF IInv, Claims
      <4> QED
        BY <1>5, <3>2, <4>1
    <3> QED
      BY <3>1, <3>2
  <2>12. tokens' * raised <= owing' * k + (donated + 2 * (n + 1)) * raised
    BY <2>9, <2>10
  <2> QED
    BY <1>3, <1>6, <2>1, <2>6, <2>11, <2>12 DEF Claims
<1> QED
  BY <1>1, <1>7, <1>8

\* A contribution, a vote and a payout leave nothing claimed and the tokens
\* equal to what is still owed.
LEMMA LiveCallClaims ==
  ASSUME IInv, Polls, Claims, TypeOK',
         \/ \E c \in Contributors, amount \in Amounts : Contribute(c, amount)
         \/ \E c \in Contributors, m \in Milestones : ApproveMilestone(c, m)
         \/ \E m \in Milestones : OpenMilestoneVote(m) \/ ReleaseMilestone(m)
  PROVE  Claims'
<1>1. ASSUME NEW c \in Contributors, NEW amount \in Amounts, Contribute(c, amount) PROVE Claims'
  <2>1. state = "Raising" /\ state' \in {"Raising", "Funded"} /\ amount \in Nat
    <3>1. state = "Raising" /\ EffectiveState = "Raising"
      BY <1>1, StateFacts DEF Contribute, Accepts
    <3>2. amount \in Nat
      BY <1>1, ConfigAccepted DEF Contribute, Accepts
    <3> QED
      BY <1>1, <3>1, <3>2 DEF Contribute, SyncState
  <2>2. \A d \in Contributors : refunded[d] = 0 /\ balance[d] = contributed[d]
    BY <2>1, NoneClaimed
  <2>3. /\ balance' = [balance EXCEPT ![c] = @ + amount]
        /\ contributed' = [contributed EXCEPT ![c] = @ + amount]
        /\ refunded' = refunded /\ tokens' = tokens + amount /\ raised' = raised + amount
        /\ UNCHANGED <<releasedTotal, donated>>
    BY <1>1 DEF Contribute
  <2>4. \A d \in Contributors : refunded'[d] = 0 /\ balance'[d] = contributed'[d]
    BY <2>2, <2>3 DEF IInv, TypeOK
  <2>5. tokens' = raised' - releasedTotal' + Bond + donated'
    <3>1. tokens = raised - releasedTotal + Bond + donated
      BY <2>1 DEF Claims
    <3>2. donated \in Nat
      BY DEF IInv, TypeOK
    <3> QED
      BY <2>1, <2>3, <3>1, <3>2, StateFacts
  <2> QED
    BY <2>1, <2>4, <2>5, LiveClaims
<1>2. ASSUME NEW c \in Contributors, NEW m \in Milestones, ApproveMilestone(c, m) PROVE Claims'
  BY <1>2, StillClaims, PayingFacts DEF ApproveMilestone, MayApprove, SyncState, pledges, ledger
<1>3. ASSUME NEW m \in Milestones, OpenMilestoneVote(m) PROVE Claims'
  BY <1>3, StillClaims, PayingFacts DEF OpenMilestoneVote, SyncState, pledges, ledger
<1>4. ASSUME NEW m \in Milestones, ReleaseMilestone(m) PROVE Claims'
  <2>1. state \in {"Funded", "Active"} /\ state' \in {"Active", "Completed"}
    BY <1>4, PayingFacts DEF ReleaseMilestone
  <2>2. /\ UNCHANGED <<balance, contributed, refunded, raised, donated>>
        /\ releasedTotal' = releasedTotal + Tranche[m]
        /\ state' # "Completed" => tokens' = tokens - (Tranche[m] + 0)
    BY <1>4 DEF ReleaseMilestone, pledges
  <2>3. \A d \in Contributors : refunded'[d] = 0 /\ balance'[d] = contributed'[d]
    BY <2>1, <2>2, NoneClaimed
  <2>4. state' # "Completed" => tokens' = raised' - releasedTotal' + Bond + donated'
    <3>1. tokens = raised - releasedTotal + Bond + donated
      BY <2>1 DEF Claims
    <3>2. donated \in Nat /\ Tranche[m] \in Nat
      BY ConfigAccepted DEF IInv, TypeOK
    <3> QED
      BY <2>2, <3>1, <3>2, StateFacts
  <2> QED
    BY <2>1, <2>3, <2>4, LiveClaims
<1> QED
  BY <1>1, <1>2, <1>3, <1>4

LEMMA NextClaims == IInv /\ Polls /\ Claims /\ [Next]_vars => Claims'
<1> SUFFICES ASSUME IInv, Polls, Claims, [Next]_vars PROVE Claims'
  OBVIOUS
<1> USE DEF ballots, pledges, ledger
<1>0. TypeOK'
  BY NextInvariant DEF IInv
<1>1. CASE ContributorCall
  BY <1>0, <1>1, ClaimClaims, LiveCallClaims DEF ContributorCall
<1>2. CASE BuilderCall
  BY <1>0, <1>2, LiveCallClaims DEF BuilderCall
<1>3. CASE Settle
  <2>1. CASE EffectiveState = "Failed"
    BY <1>0, <1>3, <2>1, FailClaims DEF Settle, SyncState
  <2>2. CASE EffectiveState # "Failed"
    BY <1>3, <2>2, StillClaims, StateFacts DEF Settle, SyncState
  <2> QED
    BY <2>1, <2>2
<1>4. CASE ReturnBond
  BY <1>0, <1>4, FailClaims DEF ReturnBond, BondDue, SyncState
<1>5. CASE SettleStalled
  BY <1>0, <1>5, ForfeitClaims DEF SettleStalled
<1>6. ASSUME NEW m \in Milestones, SettleLapsedMilestone(m) PROVE Claims'
  BY <1>0, <1>6, ForfeitClaims DEF SettleLapsedMilestone
<1>7. CASE Environment
  BY <1>7, EnvironmentClaims
<1>8. CASE UNCHANGED vars
  BY <1>8, StillClaims DEF vars
<1> QED
  BY <1>0, <1>1, <1>2, <1>3, <1>4, <1>5, <1>6, <1>7, <1>8, LiveCallClaims DEF Next, AnyonesCall

\* Every backer gets their share, and the sweep of the last one is no more than
\* dust: two units for each backer and the stray transfers.
THEOREM SharesAreFair == Spec => []FairShares
<1>1. Claims => FairShares
  BY DEF Claims
<1> QED
  BY InitInvariant, NextInvariant, InitPolls, NextPolls, InitClaims, NextClaims, <1>1, PTL DEF Spec

-----------------------------------------------------------------------------
(***************************************************************************)
(* The refinement: every call is one of the escrow's movements or none.    *)
(***************************************************************************)

\* The escrow counts the same sums.
LEMMA SameSums ==
  ASSUME NEW f, NEW S
  PROVE  Promise!Total(f, S) = Total(f, S)
BY DEF Promise!Total, Promise!Units, Promise!Cardinality, Total, Units, Cardinality

\* A call that stores a transition the clock has made leaves the phase as it was.
LEMMA SyncKeepsPhase ==
  ASSUME IInv, SyncState, UNCHANGED <<now, raised>>
  PROVE  EffectiveState' = EffectiveState /\ Phase' = Phase
<1>1. state' = EffectiveState /\ EffectiveState \in {state, "Failed"}
  BY StateFacts DEF SyncState
<1>2. EffectiveState' = EffectiveState
  BY <1>1 DEF EffectiveState
<1> QED
  BY <1>2 DEF Phase

LEMMA ContributeRefines ==
  ASSUME IInv, IInv', NEW c \in Contributors, NEW amount \in Amounts, Contribute(c, amount)
  PROVE  Promise!Deposit(c)
<1>1. state = "Raising" /\ EffectiveState = "Raising" /\ now < Deadline /\ now' = now
  BY StateFacts DEF Contribute, Accepts
<1>2. amount \in 1 .. Goal /\ raised + amount <= Goal /\ raised' = raised + amount
  <2>1. amount \in Nat \ {0} /\ raised + amount <= Goal /\ raised' = raised + amount
    BY ConfigAccepted DEF Contribute, Accepts
  <2> QED
    BY <2>1, StateFacts
<1>3. state' = IF raised' >= Goal THEN "Funded" ELSE "Raising"
  BY <1>1, StateFacts DEF Contribute, SyncState
<1>4. EffectiveState' = state'
  BY <1>1, <1>3 DEF EffectiveState
<1>5. Total(balance', Contributors) = raised'
  BY <1>3 DEF IInv, Accounts
<1>6. Phase = "collecting" /\ Phase' = IF raised' = Goal THEN "committed" ELSE "collecting"
  <2>1. raised' >= Goal <=> raised' = Goal
    BY <1>2, StateFacts
  <2> QED
    BY <1>1, <1>3, <1>4, <2>1 DEF Phase
<1>7. /\ tokens' - BondHeld' = tokens - BondHeld + amount
      /\ BondHeld' = BondHeld
      /\ UNCHANGED releasedTotal
      /\ balance' = [balance EXCEPT ![c] = @ + amount]
  <2>1. tokens' = tokens + amount /\ bondReturned' = bondReturned
    BY DEF Contribute
  <2>2. BondHeld' = BondHeld /\ BondHeld \in Nat
    BY <1>1, <1>3, <2>1, StateFacts DEF BondHeld
  <2> QED
    BY <1>2, <2>1, <2>2, StateFacts DEF Contribute
<1>8. Promise!Total(balance', Contributors) = raised' /\ raised' <= Goal
  BY <1>2, <1>5, SameSums
<1> QED
  BY <1>2, <1>6, <1>7, <1>8 DEF Promise!Deposit

LEMMA ReleaseRefines ==
  ASSUME IInv, IInv', NEW m \in Milestones, ReleaseMilestone(m)
  PROVE  Promise!PayTranche
<1>1. /\ state \in {"Funded", "Active"} /\ EffectiveState = state /\ raised = Goal
      /\ bondReturned = FALSE /\ tokens >= raised - releasedTotal + Bond
  BY PayingFacts DEF ReleaseMilestone
<1> DEFINE all == released \cup {m} = Milestones
<1>2. /\ state' = IF all THEN "Completed" ELSE "Active"
      /\ releasedTotal' = releasedTotal + Tranche[m]
      /\ tokens' = tokens - (Tranche[m] + (IF all THEN Bond ELSE 0))
      /\ released' = released \cup {m}
      /\ bondReturned' = (IF all THEN TRUE ELSE bondReturned)
      /\ UNCHANGED <<balance, now, raised>>
  BY DEF ReleaseMilestone, pledges
<1>3. EffectiveState' = state' /\ Phase = "committed"
      /\ Phase' = IF all THEN "paidOut" ELSE "committed"
  BY <1>1, <1>2 DEF EffectiveState, Phase
<1>4. Tranche[m] \in 1 .. Goal /\ releasedTotal' <= Goal /\ (releasedTotal' = Goal <=> all)
  <2>1. /\ releasedTotal' = Total(Tranche, released') /\ released' \in SUBSET Milestones
        /\ Total(Tranche, Milestones) = Goal
    BY ConfigAccepted DEF IInv, OneFate, TypeOK
  <2>2. releasedTotal' <= Goal /\ (releasedTotal' = Goal => released' = Milestones)
    BY <2>1, TrancheSums
  <2>3. all => releasedTotal' = Goal
    BY <1>2, <2>1
  <2>4. Tranche[m] \in Nat \ {0} /\ releasedTotal \in Nat /\ Goal \in Nat
    BY ConfigAccepted, StateFacts
  <2> HIDE DEF all
  <2>5. releasedTotal' = releasedTotal + Tranche[m] /\ (releasedTotal' = Goal => all)
    BY <1>2, <2>2 DEF all
  <2> QED
    BY <2>2, <2>3, <2>4, <2>5
<1>5. BondHeld = Bond /\ BondHeld' = IF all THEN 0 ELSE Bond
  BY <1>1, <1>2 DEF BondHeld
<1>6. /\ tokens' - BondHeld' = tokens - BondHeld - Tranche[m]
      /\ tokens' - BondHeld' >= Goal - releasedTotal'
  BY <1>1, <1>2, <1>4, <1>5, StateFacts
<1> QED
  BY <1>2, <1>3, <1>4, <1>5, <1>6 DEF Promise!PayTranche

LEMMA ForfeitRefines ==
  ASSUME IInv, Paying, state' = "Refunding",
         UNCHANGED <<releasedTotal, balance, now, tokens>>
  PROVE  Promise!Forfeit
<1>1. state \in {"Funded", "Active"} /\ EffectiveState = state /\ bondReturned = FALSE
  BY PayingFacts
<1>2. EffectiveState' = "Refunding"
  BY DEF EffectiveState
<1>3. Phase = "committed" /\ Phase' = "forfeited" /\ BondHeld = Bond /\ BondHeld' = 0
  BY <1>1, <1>2 DEF Phase, BondHeld
<1> QED
  BY <1>3, StateFacts DEF Promise!Forfeit

LEMMA ReturnBondRefines ==
  ASSUME IInv, ReturnBond
  PROVE  Promise!ReturnBond
<1>1. Phase' = Phase /\ Phase = "returning" /\ state' = "Failed"
  <2>1. EffectiveState = "Failed"
    BY DEF ReturnBond, BondDue
  <2> QED
    BY <2>1, SyncKeepsPhase DEF ReturnBond, SyncState, pledges, Phase
<1>2. BondHeld = Bond /\ BondHeld' = 0 /\ tokens' = tokens - Bond
  BY StateFacts DEF ReturnBond, BondDue, BondHeld
<1> QED
  BY <1>1, <1>2, StateFacts DEF Promise!ReturnBond, ReturnBond, pledges

LEMMA ClaimRefines ==
  ASSUME IInv, IInv', NEW c \in Contributors, ClaimRefund(c)
  PROVE  Promise!TakeBackWhole(c) \/ Promise!TakeBackShare(c)
<1> DEFINE due  == RefundDue(c)
           paid == IF Sweeps(c) /\ tokens > due THEN tokens ELSE due
           b    == balance[c]
<1>1. /\ EffectiveState \in {"Failed", "Refunding"} /\ state' = EffectiveState
      /\ EffectiveState' = EffectiveState /\ Phase' = Phase
      /\ EffectiveState = "Failed" => state \in {"Raising", "Failed"}
      /\ EffectiveState = "Refunding" => state = "Refunding"
  BY SyncKeepsPhase, StateFacts DEF ClaimRefund, SyncState
<1>2. b \in Nat \ {0} /\ tokens \in Nat /\ tokens' \in Nat /\ Bond \in Nat
  BY StateFacts DEF ClaimRefund, IInv, TypeOK
<1>3. /\ balance' = [balance EXCEPT ![c] = 0] /\ tokens' = tokens - paid /\ tokens >= paid
      /\ UNCHANGED <<raised, releasedTotal>>
  BY DEF ClaimRefund
<1>4. CASE EffectiveState = "Failed"
  <2>1. paid = b /\ bondReturned' = bondReturned
    BY <1>4 DEF RefundDue, Sweeps, ClaimRefund
  <2>2. BondHeld' = BondHeld /\ BondHeld = (IF bondReturned THEN 0 ELSE Bond)
    BY <1>1, <1>4, <2>1 DEF BondHeld
  <2>3. tokens' >= Total(balance', Contributors) + (IF bondReturned' THEN 0 ELSE Bond)
        /\ Total(balance', Contributors) \in Nat
    <3>1. Total(balance', Contributors) \in Nat
      BY DEF IInv, TypeOK, Accounts
    <3> QED
      BY <1>1, <1>4, <3>1 DEF IInv, Solvent
  <2>4. Phase = "returning"
    BY <1>4 DEF Phase
  <2>5. tokens' - BondHeld' = tokens - BondHeld - b /\ tokens' - BondHeld' >= 0
    BY <1>2, <1>3, <2>1, <2>2, <2>3
  <2> QED
    BY <1>1, <1>2, <1>3, <2>2, <2>4, <2>5 DEF Promise!TakeBackWhole
<1>5. CASE EffectiveState = "Refunding"
  <2>1. BondHeld = 0 /\ BondHeld' = 0 /\ Phase = "forfeited" /\ raised = Goal
    BY <1>1, <1>5 DEF BondHeld, Phase, IInv, Accounts
  <2> DEFINE share == (b * (Goal - releasedTotal)) \div Goal + (b * Bond) \div Goal
             last  == \A other \in Contributors \ {c} : balance[other] = 0
  <2>2. due = share
    BY <1>5, <2>1 DEF RefundDue, ShareOf
  <2>3. share \in Nat
    <3>1. releasedTotal \in Nat /\ releasedTotal <= Goal /\ Goal \in Nat \ {0}
      BY StateFacts
    <3>2. b * (Goal - releasedTotal) \in Nat /\ b * Bond \in Nat
      BY <1>2, <3>1
    <3> DEFINE p == b * (Goal - releasedTotal)
               q == b * Bond
    <3> HIDE DEF p, q
    <3>3. p \div Goal \in Nat /\ q \div Goal \in Nat
      BY <3>1, <3>2, Truncation DEF p, q
    <3> QED
      BY <3>3 DEF p, q
  <2>4. Sweeps(c) <=> last
    <3>1. Sweeps(c) <=> Total(balance, Contributors) = b
      BY <1>5 DEF Sweeps, IInv, Accounts
    <3>2. \A y \in Contributors : balance[y] \in Nat
      BY DEF IInv, TypeOK
    <3>3. IsFiniteSet(Contributors) /\ IsFiniteSet(Contributors \ {c})
      BY ConfigAccepted, FS_Difference
    <3>4. /\ Total(balance, Contributors) = b + Total(balance, Contributors \ {c})
          /\ Total(balance, Contributors \ {c}) \in Nat
      BY <3>2, <3>3, TotalSplit, TotalType
    <3>5. last => Total(balance, Contributors \ {c}) = 0
      BY TotalZero
    <3>6. Total(balance, Contributors \ {c}) = 0 => last
      <4> SUFFICES ASSUME Total(balance, Contributors \ {c}) = 0, NEW y \in Contributors \ {c}
                   PROVE  balance[y] = 0
        OBVIOUS
      <4>1. balance[y] <= Total(balance, Contributors \ {c})
        BY <3>2, <3>3, TotalBoundsEntry
      <4> QED
        BY <3>2, <4>1
    <3> HIDE DEF last
    <3> QED
      BY <1>2, <3>1, <3>4, <3>5, <3>6
  <2>5. tokens >= share /\ tokens' = IF last THEN 0 ELSE tokens - share
    <3>1. tokens' = tokens - (IF last /\ tokens > share THEN tokens ELSE share)
          /\ tokens >= (IF last /\ tokens > share THEN tokens ELSE share)
      BY <1>3, <2>2, <2>4
    <3> HIDE DEF share, last
    <3> QED
      BY <1>2, <2>3, <3>1
  <2>6. tokens' - BondHeld' = (IF last THEN 0 ELSE tokens - BondHeld - share)
        /\ tokens - BondHeld >= share
    <3> HIDE DEF share, last
    <3> QED
      BY <1>2, <2>1, <2>3, <2>5
  <2> QED
    BY <1>1, <1>2, <1>3, <2>1, <2>6 DEF Promise!TakeBackShare
<1> QED
  BY <1>1, <1>4, <1>5

LEMMA EnvironmentRefines ==
  ASSUME IInv, Environment
  PROVE  Promise!Gift \/ Promise!FailRaise \/ UNCHANGED Promise!vars
<1> USE DEF others, pledges
<1>1. UNCHANGED <<state, balance, raised, releasedTotal, bondReturned>>
  BY DEF Environment, Tick, Donate, DisableFactory, AddFactory
<1>2. BondHeld' = BondHeld /\ BondHeld \in Nat /\ tokens \in Nat
  BY <1>1, StateFacts DEF BondHeld
<1>3. CASE Tick
  <2>1. tokens' = tokens /\ now' = now + 1 /\ now \in Nat
    BY <1>3 DEF Tick, IInv, TypeOK
  <2>2. \/ EffectiveState' = EffectiveState
        \/ EffectiveState = "Raising" /\ EffectiveState' = "Failed"
    BY <1>1, <2>1, ConfigAccepted DEF EffectiveState, IInv, Accounts, TypeOK
  <2>3. Phase' = Phase \/ (Phase = "collecting" /\ Phase' = "returning")
    BY <2>2 DEF Phase
  <2> QED
    BY <1>1, <1>2, <2>1, <2>3 DEF Promise!FailRaise, Promise!vars
<1>4. CASE Donate
  <2>1. tokens' = tokens + 1 /\ now' = now /\ donated < MaxDonations /\ donated \in Nat
    BY <1>4 DEF Donate, IInv, TypeOK
  <2>2. Phase' = Phase
    BY <1>1, <2>1 DEF Phase, EffectiveState
  <2>3. 1 \in 1 .. MaxDonations
    BY <2>1, ConfigAccepted
  <2>4. tokens' - BondHeld' = tokens - BondHeld + 1
    BY <1>2, <2>1
  <2> QED
    BY <1>1, <1>2, <2>2, <2>3, <2>4 DEF Promise!Gift
<1>5. CASE DisableFactory \/ AddFactory
  <2>1. tokens' = tokens /\ now' = now
    BY <1>5 DEF DisableFactory, AddFactory
  <2>2. Phase' = Phase
    BY <1>1, <2>1 DEF Phase, EffectiveState
  <2> QED
    BY <1>1, <1>2, <2>1, <2>2 DEF Promise!vars
<1> QED
  BY <1>3, <1>4, <1>5 DEF Environment

LEMMA NextRefines == IInv /\ IInv' /\ [Next]_vars => [Promise!Next]_(Promise!vars)
<1> SUFFICES ASSUME IInv, IInv', [Next]_vars
             PROVE  Promise!Next \/ UNCHANGED Promise!vars
  OBVIOUS
<1> USE DEF ballots, pledges, ledger
<1>1. ASSUME SyncState, UNCHANGED <<now, raised, balance, tokens, releasedTotal, bondReturned>>
      PROVE  UNCHANGED Promise!vars
  <2>1. Phase' = Phase /\ (state' = "Refunding" <=> state = "Refunding")
    BY <1>1, SyncKeepsPhase, StateFacts DEF SyncState
  <2> QED
    BY <1>1, <2>1 DEF Promise!vars, BondHeld
<1>2. ASSUME NEW c \in Contributors, NEW m \in Milestones, ApproveMilestone(c, m)
      PROVE  UNCHANGED Promise!vars
  BY <1>1, <1>2 DEF ApproveMilestone
<1>3. ASSUME NEW m \in Milestones, OpenMilestoneVote(m) PROVE UNCHANGED Promise!vars
  BY <1>1, <1>3 DEF OpenMilestoneVote
<1>4. CASE Settle
  BY <1>1, <1>4 DEF Settle
<1>5. CASE ReturnBond
  BY <1>5, ReturnBondRefines DEF Promise!Next
<1>6. CASE SettleStalled
  BY <1>6, ForfeitRefines DEF SettleStalled, Promise!Next
<1>7. ASSUME NEW m \in Milestones, SettleLapsedMilestone(m) PROVE Promise!Next
  BY <1>7, ForfeitRefines DEF SettleLapsedMilestone, Promise!Next
<1>8. ASSUME NEW m \in Milestones, ReleaseMilestone(m) PROVE Promise!Next
  BY <1>8, ReleaseRefines DEF Promise!Next
<1>9. ASSUME NEW c \in Contributors, NEW amount \in Amounts, Contribute(c, amount) PROVE Promise!Next
  BY <1>9, ContributeRefines DEF Promise!Next
<1>10. ASSUME NEW c \in Contributors, ClaimRefund(c) PROVE Promise!Next
  BY <1>10, ClaimRefines DEF Promise!Next
<1>11. CASE Environment
  BY <1>11, EnvironmentRefines DEF Promise!Next
<1>12. CASE UNCHANGED vars
  BY <1>12 DEF vars, Promise!vars, Phase, EffectiveState, BondHeld
<1> QED
  BY <1>2, <1>3, <1>4, <1>5, <1>6, <1>7, <1>8, <1>9, <1>10, <1>11, <1>12
     DEF Next, ContributorCall, BuilderCall, AnyonesCall

LEMMA InitRefines == Init => Promise!Init
<1> SUFFICES ASSUME Init PROVE Promise!Init
  OBVIOUS
<1>1. EffectiveState = "Raising"
  BY ConfigAccepted DEF Init, EffectiveState, Genesis
<1>2. Phase = "collecting" /\ BondHeld = Bond
  BY <1>1 DEF Init, Phase, BondHeld
<1> QED
  BY <1>2, ConfigAccepted DEF Init, Promise!Init

\* The vault, with all its votes, clocks and settlements, is the two-account
\* escrow: no call moves money in a way the escrow does not allow.
THEOREM VaultIsEscrow == Spec => ImplementsEscrow
BY InitInvariant, NextInvariant, InvariantHolds, InitRefines, NextRefines, PTL
   DEF Spec, ImplementsEscrow, Promise!Spec

-----------------------------------------------------------------------------
(***************************************************************************)
(* What the vault owes it can pay, to the last call: solvency said of the  *)
(* guards of the calls themselves.                                         *)
(***************************************************************************)

\* A refund is an amount of tokens.
LEMMA RefundType ==
  ASSUME IInv, NEW c \in Contributors, EffectiveState \in {"Failed", "Refunding"}
  PROVE  RefundDue(c) \in Nat
<1>1. balance[c] \in Nat
  BY DEF IInv, TypeOK
<1>2. CASE EffectiveState = "Failed"
  BY <1>1, <1>2 DEF RefundDue
<1>3. CASE EffectiveState = "Refunding"
  <2>1. raised \in Nat \ {0} /\ raised - releasedTotal \in Nat /\ Bond \in Nat
    BY <1>3, StateFacts DEF IInv, Accounts
  <2>2. ShareOf(balance[c], raised - releasedTotal) \in Nat /\ ShareOf(balance[c], Bond) \in Nat
    BY <1>1, <2>1, ShareBound
  <2> QED
    BY <1>3, <2>2 DEF RefundDue
<1> QED
  BY <1>2, <1>3

\* A refund is one backer's part of what solvency covers for all of them.
LEMMA RefundCovered ==
  ASSUME IInv, NEW c \in Contributors, EffectiveState \in {"Failed", "Refunding"}
  PROVE  tokens >= RefundDue(c)
<1> DEFINE b     == balance[c]
           owing == Total(balance, Contributors)
           rest  == raised - releasedTotal
<1>1. b \in Nat /\ owing \in Nat /\ b <= owing
  BY BalanceSums DEF IInv, TypeOK
<1>2. CASE EffectiveState = "Failed"
  <2>1. tokens >= owing
    <3>1. CASE state = "Failed"
      <4>1. tokens >= owing + (IF bondReturned THEN 0 ELSE Bond)
        BY <3>1 DEF IInv, Solvent
      <4> HIDE DEF owing
      <4> QED
        BY <4>1, <1>1, StateFacts
    <3>2. CASE state = "Raising"
      <4>1. tokens >= raised - releasedTotal + Bond /\ releasedTotal = 0 /\ owing = raised
        BY <3>2, StateFacts DEF IInv, Solvent, Accounts
      <4> HIDE DEF owing
      <4> QED
        BY <4>1, <1>1, StateFacts
    <3> QED
      BY <1>2, <3>1, <3>2, StateFacts
  <2>2. RefundDue(c) = b
    BY <1>2 DEF RefundDue
  <2> HIDE DEF owing, b
  <2> QED
    BY <1>1, <2>1, <2>2, StateFacts
<1>3. CASE EffectiveState = "Refunding"
  <2>1. raised \in Nat \ {0} /\ rest \in Nat /\ Bond \in Nat /\ tokens \in Nat
    BY <1>3, StateFacts DEF IInv, Accounts
  <2>2. tokens * raised >= owing * (rest + Bond)
    BY <1>3, StateFacts DEF IInv, Solvent
  <2> DEFINE principal == ShareOf(b, rest)
             forfeit   == ShareOf(b, Bond)
  <2>3. /\ principal \in Nat /\ principal * raised <= b * rest
        /\ forfeit \in Nat /\ forfeit * raised <= b * Bond
    BY <1>1, <2>1, ShareBound
  <2>4. RefundDue(c) = principal + forfeit
    BY <1>3 DEF RefundDue
  <2> HIDE DEF b, owing, rest, principal, forfeit
  <2>5. (principal + forfeit) * raised <= b * (rest + Bond)
    BY <1>1, <2>1, <2>3
  <2>6. b * (rest + Bond) <= owing * (rest + Bond)
    <3>1. rest + Bond \in Nat
      BY <2>1
    <3> QED
      BY <1>1, <3>1, CoverGrows
  <2>7. (principal + forfeit) * raised <= tokens * raised
    <3>1. /\ (principal + forfeit) * raised \in Int /\ b * (rest + Bond) \in Int
          /\ owing * (rest + Bond) \in Int /\ tokens * raised \in Int
      BY <1>1, <2>1, <2>3
    <3> QED
      BY <2>2, <2>5, <2>6, <3>1
  <2>8. principal + forfeit <= tokens
    <3>1. ASSUME NEW x \in Nat, NEW y \in Nat, NEW r \in Nat \ {0}, x * r <= y * r
          PROVE  x <= y
      BY <3>1
    <3>2. principal + forfeit \in Nat
      BY <2>3
    <3> QED
      BY <2>1, <2>7, <3>1, <3>2
  <2> QED
    BY <2>1, <2>3, <2>4, <2>8
<1> QED
  BY <1>2, <1>3

\* Whatever is due can be paid: the token balance is never what refuses a call.
THEOREM EveryDueIsCovered == Spec => []DuesCovered
<1>1. ASSUME IInv, BondDue PROVE tokens >= Bond
  <2>1. EffectiveState = "Failed" /\ bondReturned = FALSE
    BY <1>1 DEF BondDue, IInv, TypeOK
  <2>2. Total(balance, Contributors) \in Nat
    BY <1>1, BalanceSums DEF IInv
  <2>3. CASE state = "Failed"
    <3>1. tokens >= Total(balance, Contributors) + Bond
      BY <1>1, <2>1, <2>3 DEF IInv, Solvent
    <3> QED
      BY <1>1, <2>2, <3>1, StateFacts
  <2>4. CASE state = "Raising"
    <3>1. tokens >= raised - releasedTotal + Bond /\ releasedTotal = 0
      BY <1>1, <2>4, StateFacts DEF IInv, Solvent, Accounts
    <3> QED
      BY <1>1, <3>1, StateFacts
  <2> QED
    BY <1>1, <2>1, <2>3, <2>4, StateFacts
<1>2. ASSUME IInv, Paying, NEW m \in Milestones, Opened(m)
      PROVE  tokens >= Tranche[m] + (IF released \cup {m} = Milestones THEN Bond ELSE 0)
  <2>1. /\ raised = Goal /\ tokens >= raised - releasedTotal + Bond
        /\ m \notin released /\ released \in SUBSET Milestones
        /\ releasedTotal = Total(Tranche, released)
    BY <1>2, PayingFacts DEF Opened, Undecided, IInv, TypeOK, OneFate
  <2>2. Total(Tranche, released \cup {m}) = releasedTotal + Tranche[m]
    BY <2>1, TrancheSums
  <2>3. Total(Tranche, released \cup {m}) <= Goal
    <3>1. released \cup {m} \in SUBSET Milestones
      BY <2>1
    <3> QED
      BY <3>1, TrancheSums
  <2>4. Tranche[m] \in Nat /\ releasedTotal \in Nat /\ Bond \in Nat /\ tokens \in Nat /\ Goal \in Nat
    BY <1>2, ConfigAccepted, StateFacts
  <2> QED
    BY <2>1, <2>2, <2>3, <2>4
<1>3. IInv => DuesCovered
  BY <1>1, <1>2, RefundCovered DEF DuesCovered
<1> QED
  BY InvariantHolds, <1>3, PTL

-----------------------------------------------------------------------------
(***************************************************************************)
(* Every token accounted for.  The sums move by what one call pays.        *)
(***************************************************************************)

\* The sums over all backers of what they put in and of what they took back.
LEMMA FlowSums ==
  ASSUME TypeOK
  PROVE  /\ Total(contributed, Contributors) \in Nat
         /\ Total(refunded, Contributors) \in Nat
<1>1. \A c \in Contributors : contributed[c] \in Nat /\ refunded[c] \in Nat
  BY DEF TypeOK
<1> QED
  BY <1>1, ConfigAccepted, TotalType

\* Adding to one entry adds as much to the sum.
LEMMA EntryGrows ==
  ASSUME NEW f \in [Contributors -> Nat], NEW c \in Contributors, NEW amount \in Nat
  PROVE  Total([f EXCEPT ![c] = @ + amount], Contributors) = Total(f, Contributors) + amount
<1> DEFINE after == [f EXCEPT ![c] = @ + amount]
<1>1. \A y \in Contributors : f[y] \in Nat /\ after[y] \in Nat
  OBVIOUS
<1>2. \A y \in Contributors \ {c} : f[y] = after[y]
  OBVIOUS
<1>3. after[c] = f[c] + amount
  OBVIOUS
<1>4. IsFiniteSet(Contributors) /\ Total(f, Contributors) \in Nat
  BY <1>1, ConfigAccepted, TotalType
<1> HIDE DEF after
<1>5. Total(after, Contributors) = Total(f, Contributors) - f[c] + after[c]
  BY <1>1, <1>2, <1>4, TotalUpdate
<1> QED
  BY <1>1, <1>3, <1>4, <1>5 DEF after

LEMMA NextConserves == IInv /\ TokensConserved /\ [Next]_vars => TokensConserved'
<1> SUFFICES ASSUME IInv, TokensConserved, [Next]_vars PROVE TokensConserved'
  OBVIOUS
<1> DEFINE put   == Total(contributed, Contributors)
           taken == Total(refunded, Contributors)
<1>1. /\ tokens \in Nat /\ builderPaid \in Nat /\ donated \in Nat /\ Bond \in Nat
      /\ put \in Nat /\ taken \in Nat
      /\ contributed \in [Contributors -> Nat] /\ refunded \in [Contributors -> Nat]
  BY FlowSums, StateFacts DEF IInv, TypeOK
<1>2. tokens + builderPaid + taken = Bond + put + donated
  BY DEF TokensConserved
<1>3. ASSUME NEW c \in Contributors, NEW amount \in Amounts, Contribute(c, amount)
      PROVE  TokensConserved'
  <2>1. amount \in Nat
    BY <1>3, ConfigAccepted DEF Contribute, Accepts
  <2>2. put' = put + amount
    <3>1. contributed' = [contributed EXCEPT ![c] = @ + amount]
      BY <1>3 DEF Contribute
    <3> QED
      BY <1>1, <2>1, <3>1, EntryGrows
  <2>3. tokens' = tokens + amount /\ UNCHANGED <<builderPaid, refunded, donated>>
    BY <1>3 DEF Contribute
  <2>4. taken' = taken
    BY <2>3
  <2> HIDE DEF put, taken
  <2>5. tokens' + builderPaid' + taken' = Bond + put' + donated'
    BY <1>1, <1>2, <2>1, <2>2, <2>3, <2>4
  <2> QED
    BY <2>5 DEF put, taken, TokensConserved
<1>4. ASSUME NEW c \in Contributors, ClaimRefund(c)
      PROVE  TokensConserved'
  <2> DEFINE due  == RefundDue(c)
             paid == IF Sweeps(c) /\ tokens > due THEN tokens ELSE due
  <2>1. /\ tokens' = tokens - paid /\ refunded' = [refunded EXCEPT ![c] = @ + paid]
        /\ UNCHANGED <<builderPaid, contributed, donated>>
    BY <1>4 DEF ClaimRefund
  <2>2. paid \in Nat
    <3>1. due \in Nat
      BY <1>4, RefundType DEF ClaimRefund
    <3> HIDE DEF due
    <3> QED
      BY <1>1, <3>1
  <2> HIDE DEF paid
  <2>3. taken' = taken + paid
    BY <1>1, <2>1, <2>2, EntryGrows
  <2>4. put' = put
    BY <2>1
  <2> HIDE DEF put, taken
  <2>5. tokens' + builderPaid' + taken' = Bond + put' + donated'
    BY <1>1, <1>2, <2>1, <2>2, <2>3, <2>4
  <2> QED
    BY <2>5 DEF put, taken, TokensConserved
<1>5. CASE ReturnBond \/ \E m \in Milestones : ReleaseMilestone(m)
  <2>1. PICK paid \in Nat : tokens' = tokens - paid /\ builderPaid' = builderPaid + paid
    <3>1. ASSUME NEW m \in Milestones, ReleaseMilestone(m)
          PROVE  \E paid \in Nat : tokens' = tokens - paid /\ builderPaid' = builderPaid + paid
      <4> DEFINE paid == Tranche[m] + (IF released \cup {m} = Milestones THEN Bond ELSE 0)
      <4>1. paid \in Nat
        BY <1>1, ConfigAccepted
      <4>2. tokens' = tokens - paid /\ builderPaid' = builderPaid + paid
        BY <3>1 DEF ReleaseMilestone
      <4> QED
        BY <4>1, <4>2
    <3>2. ReturnBond => tokens' = tokens - Bond /\ builderPaid' = builderPaid + Bond
      BY DEF ReturnBond
    <3> QED
      BY <1>1, <1>5, <3>1, <3>2
  <2>2. UNCHANGED <<contributed, refunded, donated>>
    BY <1>5 DEF ReturnBond, ReleaseMilestone, pledges
  <2>3. put' = put /\ taken' = taken
    BY <2>2
  <2> HIDE DEF put, taken
  <2>4. tokens' + builderPaid' + taken' = Bond + put' + donated'
    BY <1>1, <1>2, <2>1, <2>2, <2>3
  <2> QED
    BY <2>4 DEF put, taken, TokensConserved
<1>6. CASE Donate
  <2>1. tokens' = tokens + 1 /\ donated' = donated + 1 /\ UNCHANGED <<builderPaid, contributed, refunded>>
    BY <1>6 DEF Donate, others, pledges
  <2>2. put' = put /\ taken' = taken
    BY <2>1
  <2> HIDE DEF put, taken
  <2>3. tokens' + builderPaid' + taken' = Bond + put' + donated'
    BY <1>1, <1>2, <2>1, <2>2
  <2> QED
    BY <2>3 DEF put, taken, TokensConserved
<1>7. CASE \/ \E c \in Contributors, m \in Milestones : ApproveMilestone(c, m)
           \/ BuilderCall \/ Settle \/ SettleStalled
           \/ \E m \in Milestones : SettleLapsedMilestone(m)
           \/ Tick \/ DisableFactory \/ AddFactory \/ UNCHANGED vars
  <2>1. UNCHANGED <<tokens, builderPaid, contributed, refunded, donated>>
    BY <1>7 DEF ApproveMilestone, BuilderCall, OpenMilestoneVote, Settle, SettleStalled,
                SettleLapsedMilestone, Tick, DisableFactory, AddFactory, others, pledges, ledger, vars
  <2> QED
    BY <2>1 DEF TokensConserved
<1> QED
  BY <1>3, <1>4, <1>5, <1>6, <1>7 DEF Next, ContributorCall, BuilderCall, AnyonesCall, Environment

\* No token is made or lost, whatever the rounding and whoever claims.
THEOREM NothingIsLost == Spec => []TokensConserved
<1>1. Init => TokensConserved
  <2> SUFFICES ASSUME Init PROVE TokensConserved
    OBVIOUS
  <2>1. Total(contributed, Contributors) = 0 /\ Total(refunded, Contributors) = 0
    BY TotalZero DEF Init
  <2> QED
    BY <2>1, ConfigAccepted DEF Init, TokensConserved
<1> QED
  BY <1>1, InvariantHolds, NextConserves, PTL DEF Spec

-----------------------------------------------------------------------------
(***************************************************************************)
(* What cannot be undone.                                                  *)
(***************************************************************************)

\* The clock ends a raise that is short of its goal, and moves nothing else.
LEMMA TickMoves ==
  ASSUME IInv, Tick
  PROVE  EffectiveState' \in {EffectiveState} \cup Successors(EffectiveState)
<1>1. UNCHANGED <<state, raised>>
  BY DEF Tick, others, pledges
<1>2. EffectiveState = IF state = "Raising" /\ now >= Deadline THEN "Failed" ELSE state
  BY StateFacts, ClockOnlyFails DEF IInv
<1>3. EffectiveState' = IF state = "Raising" /\ ~(now' < Deadline) THEN "Failed" ELSE state
  <2>1. state = "Raising" => ~(raised >= Goal)
    BY StateFacts DEF IInv, Accounts
  <2> QED
    BY <1>1, <2>1 DEF EffectiveState
<1>4. now \in Nat /\ now' = now + 1 /\ Deadline \in Nat
  BY ConfigAccepted DEF Tick, IInv, TypeOK
<1> QED
  BY <1>2, <1>3, <1>4 DEF Successors

LEMMA LifecycleStep ==
  ASSUME IInv, Next
  PROVE  EffectiveState' \in {EffectiveState} \cup Successors(EffectiveState)
<1> DEFINE Moves == EffectiveState' \in {EffectiveState} \cup Successors(EffectiveState)
<1> SUFFICES Moves
  OBVIOUS
<1>1. ASSUME NEW c \in Contributors, NEW amount \in Amounts, Contribute(c, amount)
      PROVE  Moves
  <2>1. EffectiveState = "Raising" /\ state = "Raising" /\ now < Deadline /\ now' = now
    BY <1>1, StateFacts DEF Contribute, Accepts
  <2>2. state' \in {"Raising", "Funded"}
    BY <1>1, <2>1 DEF Contribute, SyncState
  <2>3. EffectiveState' \in {"Raising", "Funded"}
    BY <2>1, <2>2 DEF EffectiveState
  <2> QED
    BY <2>1, <2>3 DEF Successors
<1>2. ASSUME SyncState, UNCHANGED <<now, raised>>
      PROVE  Moves
  BY <1>2, SyncKeepsPhase
<1>3. ASSUME NEW c \in Contributors, NEW m \in Milestones, ApproveMilestone(c, m)
      PROVE  Moves
  BY <1>2, <1>3 DEF ApproveMilestone, pledges, ledger
<1>4. ASSUME NEW c \in Contributors, ClaimRefund(c)
      PROVE  Moves
  BY <1>2, <1>4 DEF ClaimRefund
<1>5. ASSUME NEW m \in Milestones, OpenMilestoneVote(m)
      PROVE  Moves
  BY <1>2, <1>5 DEF OpenMilestoneVote, pledges, ledger
<1>6. CASE Settle \/ ReturnBond
  BY <1>2, <1>6 DEF Settle, ReturnBond, pledges, ledger
<1>7. ASSUME NEW m \in Milestones, ReleaseMilestone(m)
      PROVE  Moves
  <2>1. Paying /\ state' \in {"Active", "Completed"}
    BY <1>7 DEF ReleaseMilestone
  <2> QED
    BY <2>1 DEF Paying, EffectiveState, Successors
<1>8. ASSUME Paying, state' = "Refunding"
      PROVE  Moves
  BY <1>8 DEF Paying, EffectiveState, Successors
<1>9. ASSUME NEW m \in Milestones, SettleLapsedMilestone(m)
      PROVE  Moves
  BY <1>8, <1>9 DEF SettleLapsedMilestone
<1>10. CASE SettleStalled
  BY <1>8, <1>10 DEF SettleStalled
<1>11. CASE Environment
  <2>1. Donate \/ DisableFactory \/ AddFactory => EffectiveState' = EffectiveState
    BY DEF Donate, DisableFactory, AddFactory, others, pledges, EffectiveState
  <2> QED
    BY <1>11, <2>1, TickMoves DEF Environment
<1> HIDE DEF Moves
<1>12. CASE ContributorCall \/ BuilderCall
  BY <1>1, <1>3, <1>4, <1>5, <1>12 DEF ContributorCall, BuilderCall
<1>13. CASE AnyonesCall
  BY <1>6, <1>7, <1>9, <1>10, <1>13 DEF AnyonesCall
<1> QED
  BY <1>11, <1>12, <1>13 DEF Next

\* A project moves forward only and ends once; its record, its milestones'
\* verdicts and its opened votes are never revised.
THEOREM EndingsAreFinal == Spec => FateIsFinal
<1> DEFINE Moves   == EffectiveState' \in {EffectiveState} \cup Successors(EffectiveState)
           Records == attested => record' = record /\ attested'
           Grows   == released \subseteq released' /\ failed \subseteq failed'
           Settled == EffectiveState \in {"Failed", "Refunding", "Completed"}
                        => UNCHANGED <<released, failed>>
           Opens   == \A m \in Milestones : opensAt[m] # 0 => opensAt'[m] = opensAt[m]
<1>1. ASSUME IInv, Next PROVE Records /\ Grows /\ Settled /\ Opens
  <2>1. opensAt \in [Milestones -> Nat]
    BY <1>1 DEF IInv, TypeOK
  <2>2. CASE Environment
    BY <2>2 DEF Environment, Tick, Donate, DisableFactory, AddFactory, others, ballots
  <2>3. CASE ContributorCall
    <3>1. UNCHANGED <<attested, record, released, failed, opensAt>>
      BY <2>3 DEF ContributorCall, Contribute, ApproveMilestone, ClaimRefund, ballots
    <3> QED
      BY <3>1
  <2>4. CASE BuilderCall
    <3>1. PICK m \in Milestones : OpenMilestoneVote(m)
      BY <2>4 DEF BuilderCall
    <3>2. UNCHANGED <<attested, record, released, failed>> /\ opensAt[m] = 0
          /\ opensAt' = [opensAt EXCEPT ![m] = now]
      BY <3>1 DEF OpenMilestoneVote
    <3> QED
      BY <2>1, <3>2
  <2>5. CASE Settle \/ ReturnBond
    <3>1. UNCHANGED <<released, failed, opensAt>> /\ Records
      BY <2>5 DEF Settle, ReturnBond, WriteAttestation, ballots
    <3> QED
      BY <3>1
  <2>6. ASSUME NEW m \in Milestones, ReleaseMilestone(m)
        PROVE  Records /\ Grows /\ Settled /\ Opens
    <3>1. Paying /\ attested = FALSE
      BY <1>1, <2>6, PayingFacts DEF ReleaseMilestone
    <3>2. released' = released \cup {m} /\ UNCHANGED <<failed, opensAt>>
      BY <2>6 DEF ReleaseMilestone, ballots
    <3> QED
      BY <3>1, <3>2 DEF Paying
  <2>7. CASE SettleStalled \/ \E m \in Milestones : SettleLapsedMilestone(m)
    <3>1. Paying /\ attested = FALSE
      BY <1>1, <2>7, PayingFacts DEF SettleLapsedMilestone, SettleStalled
    <3>2. failed \subseteq failed' /\ UNCHANGED <<released, opensAt>>
      BY <2>7 DEF SettleLapsedMilestone, SettleStalled, ballots
    <3> QED
      BY <3>1, <3>2 DEF Paying
  <2> HIDE DEF Records, Grows, Settled, Opens
  <2> QED
    BY <1>1, <2>2, <2>3, <2>4, <2>5, <2>6, <2>7 DEF Next, AnyonesCall
<1> DEFINE Kept == Moves /\ Records /\ Grows /\ Settled /\ Opens
<1>2. IInv /\ [Next]_vars => [Kept]_vars
  <2> HIDE DEF Moves, Records, Grows, Settled, Opens
  <2>1. ASSUME IInv, Next PROVE Moves
    BY <2>1, LifecycleStep DEF Moves
  <2> QED
    BY <1>1, <2>1
<1>3. [][Kept]_vars <=> FateIsFinal
  BY PTL DEF FateIsFinal
<1> QED
  BY InvariantHolds, <1>2, <1>3, PTL DEF Spec

-----------------------------------------------------------------------------
(***************************************************************************)
(* A carried vote.  Nothing takes it back while the project can be paid:   *)
(* the raise is complete, so the totals it is measured against are settled *)
(* and its own tallies can only grow.  Only another open vote endangers it.*)
(***************************************************************************)
LEMMA ThresholdGrows ==
  ASSUME NEW w \in Nat, NEW v \in Nat, NEW total \in Nat, w <= v, ThresholdMet(w, total)
  PROVE  ThresholdMet(v, total)
BY DEF ThresholdMet, BPS, RELEASE_THRESHOLD_BPS

\* While the project can be paid, a call changes the tallies of a milestone by
\* adding to them, and nothing they are measured against.
LEMMA PayingTallies ==
  ASSUME IInv, Paying, Next, NEW m \in Milestones
  PROVE  /\ UNCHANGED <<tracked, raised, contributorCount>>
         /\ approvals'[m] \in Nat /\ approvals'[m] >= approvals[m]
         /\ approvedStake'[m] \in Nat /\ approvedStake'[m] >= approvedStake[m]
         /\ approvedWeight'[m] \in Nat /\ approvedWeight'[m] >= approvedWeight[m]
<1>1. /\ approvals \in [Milestones -> Nat] /\ approvedStake \in [Milestones -> Nat]
      /\ approvedWeight \in [Milestones -> Nat] /\ raised \in Nat
  BY StateFacts DEF IInv, TypeOK
<1>2. ASSUME UNCHANGED <<tracked, raised, contributorCount, approvals, approvedStake, approvedWeight>>
      PROVE  /\ UNCHANGED <<tracked, raised, contributorCount>>
             /\ approvals'[m] \in Nat /\ approvals'[m] >= approvals[m]
             /\ approvedStake'[m] \in Nat /\ approvedStake'[m] >= approvedStake[m]
             /\ approvedWeight'[m] \in Nat /\ approvedWeight'[m] >= approvedWeight[m]
  BY <1>1, <1>2
<1>3. ASSUME NEW c \in Contributors, NEW k \in Milestones, ApproveMilestone(c, k)
      PROVE  /\ UNCHANGED <<tracked, raised, contributorCount>>
             /\ approvals'[m] \in Nat /\ approvals'[m] >= approvals[m]
             /\ approvedStake'[m] \in Nat /\ approvedStake'[m] >= approvedStake[m]
             /\ approvedWeight'[m] \in Nat /\ approvedWeight'[m] >= approvedWeight[m]
  <2> DEFINE weight == EffectiveWeight(balance[c], raised)
  <2>1. balance[c] \in Nat
    BY DEF IInv, TypeOK
  <2>2. weight \in Nat
    BY <1>1, <2>1, WeightType
  <2>3. /\ approvals' = [approvals EXCEPT ![k] = @ + 1]
        /\ approvedStake' = [approvedStake EXCEPT ![k] = @ + balance[c]]
        /\ approvedWeight' = [approvedWeight EXCEPT ![k] = @ + weight]
        /\ UNCHANGED <<tracked, raised, contributorCount>>
    BY <1>3 DEF ApproveMilestone, pledges
  <2> HIDE DEF weight
  <2> QED
    BY <1>1, <2>1, <2>2, <2>3
<1>4. ASSUME NEW c \in Contributors PROVE ~ClaimRefund(c) /\ \A amount \in Amounts : ~Contribute(c, amount)
  BY DEF ClaimRefund, Contribute, Accepts, Paying
<1>5. CASE BuilderCall \/ AnyonesCall \/ Environment
  <2>1. UNCHANGED <<tracked, raised, contributorCount, approvals, approvedStake, approvedWeight>>
    BY <1>5 DEF BuilderCall, OpenMilestoneVote, AnyonesCall, Settle, ReturnBond, SettleStalled,
                ReleaseMilestone, SettleLapsedMilestone, Environment, Tick, Donate, DisableFactory,
                AddFactory, others, pledges, ballots
  <2> QED
    BY <1>2, <2>1
<1> QED
  BY <1>3, <1>4, <1>5 DEF Next, ContributorCall

\* Once carried, a vote stays carried for as long as it can be executed.
THEOREM CarryingIsForGood == Spec => CarriedStaysCarried
<1> DEFINE Stays == \A m \in Milestones : Paying /\ Carried(m) => Carried(m)'
<1>1. ASSUME IInv, Polls, Next PROVE Stays
  <2> SUFFICES ASSUME NEW m \in Milestones, Paying, Carried(m)
               PROVE  Carried(m)'
    OBVIOUS
  <2> DEFINE total == TotalWeight(tracked, raised)
  <2>1. /\ total \in Nat /\ raised \in Nat /\ contributorCount \in Nat
        /\ approvals[m] \in Nat /\ approvedStake[m] \in Nat /\ approvedWeight[m] \in Nat
    BY <1>1, FourSuffice, StateFacts DEF Polls, IInv, TypeOK
  <2>2. /\ UNCHANGED <<tracked, raised, contributorCount>>
        /\ approvals'[m] \in Nat /\ approvals'[m] >= approvals[m]
        /\ approvedStake'[m] \in Nat /\ approvedStake'[m] >= approvedStake[m]
        /\ approvedWeight'[m] \in Nat /\ approvedWeight'[m] >= approvedWeight[m]
    BY <1>1, PayingTallies
  <2>3. /\ ThresholdMet(approvedWeight[m], total) /\ ThresholdMet(approvedStake[m], raised)
        /\ approvals[m] >= RequiredWallets(contributorCount)
    BY DEF Carried, StakeMajority
  <2>4. TotalWeight(tracked', raised') = total
    BY <2>2
  <2> HIDE DEF total
  <2>5. ThresholdMet(approvedWeight'[m], total) /\ ThresholdMet(approvedStake'[m], raised')
    BY <2>1, <2>2, <2>3, ThresholdGrows
  <2>6. approvals'[m] >= RequiredWallets(contributorCount')
    <3>1. RequiredWallets(contributorCount) \in Nat
      BY <2>1 DEF RequiredWallets, MIN_APPROVING_WALLETS
    <3> QED
      BY <2>1, <2>2, <2>3, <3>1
  <2> QED
    BY <2>4, <2>5, <2>6 DEF Carried, StakeMajority
<1>2. IInv /\ Polls /\ [Next]_vars => [Stays]_vars
  <2> HIDE DEF Stays
  <2> QED
    BY <1>1
<1>3. [][Stays]_vars <=> CarriedStaysCarried
  BY PTL DEF CarriedStaysCarried
<1> QED
  BY PollsHold, <1>2, <1>3, PTL DEF Spec

\* A builder who opens one vote at a time never loses a carried milestone: what
\* release_milestone's comment says of every carried vote holds of these.
THEOREM LoneVotesAreKept == Spec => LoneCarriedVoteIsSafe
<1> DEFINE Lone(m) == Paying /\ Carried(m) /\ (\A k \in Milestones : Opened(k) <=> k = m)
           Kept    == \A m \in Milestones : Lone(m) => state' # "Refunding"
<1>1. ASSUME IInv, Next, NEW m \in Milestones, Lone(m)
      PROVE  state' # "Refunding"
  <2>1. Paying /\ Carried(m) /\ Opened(m) /\ state \in {"Funded", "Active"}
    BY <1>1, PayingFacts
  <2>2. ~SettleStalled
    BY <2>1 DEF SettleStalled, Stalled
  <2>3. \A k \in Milestones : ~SettleLapsedMilestone(k)
    BY <1>1, <2>1 DEF SettleLapsedMilestone
  <2>4. ASSUME SyncState \/ UNCHANGED state PROVE state' # "Refunding"
    BY <2>1, <2>4 DEF SyncState, Paying
  <2>5. ASSUME NEW c \in Contributors, NEW amount \in Amounts PROVE ~Contribute(c, amount)
    BY <2>1 DEF Contribute, Accepts, Paying
  <2>6. CASE ContributorCall
    BY <2>4, <2>5, <2>6 DEF ContributorCall, ApproveMilestone, ClaimRefund
  <2>7. CASE BuilderCall \/ Settle \/ ReturnBond
    BY <2>4, <2>7 DEF BuilderCall, OpenMilestoneVote, Settle, ReturnBond
  <2>8. ASSUME NEW k \in Milestones, ReleaseMilestone(k) PROVE state' # "Refunding"
    BY <2>8 DEF ReleaseMilestone
  <2>9. CASE Environment
    BY <2>4, <2>9 DEF Environment, Tick, Donate, DisableFactory, AddFactory, others
  <2> QED
    BY <1>1, <2>2, <2>3, <2>6, <2>7, <2>8, <2>9 DEF Next, AnyonesCall
<1>2. IInv /\ [Next]_vars => [Kept]_vars
  <2> HIDE DEF Lone
  <2> QED
    BY <1>1
<1>3. [][Kept]_vars <=> LoneCarriedVoteIsSafe
  BY PTL DEF LoneCarriedVoteIsSafe
<1> QED
  BY InvariantHolds, <1>2, <1>3, PTL DEF Spec

\* In a project of one milestone the comment is true without exception.
THEOREM OneMilestoneKeepsItsVote ==
  ASSUME NumMilestones = 1
  PROVE  Spec => CarriedNeverForfeited
<1> DEFINE Lone(m) == Paying /\ Carried(m) /\ (\A k \in Milestones : Opened(k) <=> k = m)
           Safe    == \A m \in Milestones : Lone(m) => state' # "Refunding"
           Never   == \A m \in Milestones : Paying /\ Opened(m) /\ Carried(m) => state' # "Refunding"
<1>1. [Safe]_vars => [Never]_vars
  <2> SUFFICES ASSUME Safe PROVE Never
    OBVIOUS
  <2>1. \A k, m \in Milestones : k = m
    BY DEF Milestones
  <2> QED
    BY <2>1
<1> HIDE DEF Safe, Never
<1>2. [][Safe]_vars => [][Never]_vars
  BY <1>1, PTL
<1>3. /\ [][Safe]_vars <=> LoneCarriedVoteIsSafe
      /\ [][Never]_vars <=> CarriedNeverForfeited
  BY PTL DEF Safe, Never, Lone, LoneCarriedVoteIsSafe, CarriedNeverForfeited
<1> QED
  BY LoneVotesAreKept, <1>2, <1>3, PTL

-----------------------------------------------------------------------------
(***************************************************************************)
(* The order of things.  A vote belongs to a completed raise and precedes  *)
(* approvals and releases, and a project that can be paid has its activity *)
(* on record, without which the stall test would never be met.             *)
(***************************************************************************)
Order ==
  /\ \A m \in Milestones : opensAt[m] <= now /\ (opensAt[m] # 0 => state \notin {"Raising", "Failed"})
  /\ \A m \in released : opensAt[m] # 0
  /\ \A m \in Milestones : votes[m] # {} => opensAt[m] # 0
  /\ state \in {"Funded", "Active"} => lastActivity # 0
  /\ now # 0

\* A step that neither opens a vote nor casts one keeps the order.
LEMMA QuietOrder ==
  ASSUME IInv, Order, UNCHANGED <<opensAt, votes>>, now' \in Nat, now' >= now,
         \A m \in released' : opensAt[m] # 0,
         state' \in {"Raising", "Failed"} => state \in {"Raising", "Failed"},
         state' \in {"Funded", "Active"} =>
           \/ lastActivity' = now
           \/ (lastActivity' = lastActivity /\ state \in {"Funded", "Active"})
  PROVE  Order'
<1>1. now \in Nat /\ opensAt \in [Milestones -> Nat] /\ state \in VaultStates
  BY DEF IInv, TypeOK
<1>2. \A m \in Milestones : opensAt[m] <= now'
  BY <1>1 DEF Order
<1>3. now' # 0 /\ (state' \in {"Funded", "Active"} => lastActivity' # 0)
  BY <1>1 DEF Order
<1>4. \A m \in Milestones : opensAt[m] # 0 => state' \notin {"Raising", "Failed"}
  BY DEF Order
<1> QED
  BY <1>2, <1>3, <1>4 DEF Order

LEMMA NextOrder == IInv /\ Order /\ [Next]_vars => Order'
<1> SUFFICES ASSUME IInv, Order, [Next]_vars PROVE Order'
  OBVIOUS
<1>1. now \in Nat /\ now >= now /\ state \in VaultStates /\ now # 0
      /\ opensAt \in [Milestones -> Nat] /\ votes \in [Milestones -> SUBSET Contributors]
  BY DEF IInv, TypeOK, Order
<1>2. /\ EffectiveState = state \/ (state = "Raising" /\ EffectiveState = "Failed")
      /\ SyncedActivity = lastActivity
  BY StateFacts, ClockOnlyFails DEF IInv
<1>3. \A m \in released : opensAt[m] # 0
  BY DEF Order
<1>4. CASE UNCHANGED vars
  BY <1>1, <1>3, <1>4, QuietOrder DEF vars, ballots, ledger
<1>5. CASE Environment
  <2>1. UNCHANGED <<state, lastActivity, released, opensAt, votes>> /\ now' \in Nat /\ now' >= now
    BY <1>1, <1>5 DEF Environment, Tick, Donate, DisableFactory, AddFactory, others, ballots
  <2> QED
    BY <1>3, <2>1, QuietOrder
<1>6. ASSUME SyncState, UNCHANGED <<released, opensAt, votes, now>>
      PROVE  Order'
  BY <1>1, <1>2, <1>3, <1>6, QuietOrder DEF SyncState
<1>7. ASSUME NEW c \in Contributors, NEW amount \in Amounts, Contribute(c, amount)
      PROVE  Order'
  <2>1. UNCHANGED <<released, opensAt, votes, now>> /\ EffectiveState = "Raising"
    BY <1>7 DEF Contribute, Accepts, ballots
  <2>2. (state' = "Funded" /\ lastActivity' = now) \/ SyncState
    BY <1>7 DEF Contribute
  <2> QED
    BY <1>1, <1>3, <1>6, <2>1, <2>2, QuietOrder
<1>8. ASSUME NEW c \in Contributors, NEW m \in Milestones, ApproveMilestone(c, m)
      PROVE  Order'
  <2>1. /\ state' = state /\ lastActivity' = lastActivity
        /\ UNCHANGED <<released, opensAt, now>> /\ opensAt[m] # 0
        /\ votes' = [votes EXCEPT ![m] = @ \cup {c}]
    BY <1>2, <1>8, PayingFacts DEF ApproveMilestone, MayApprove, Opened, SyncState, pledges, ledger
  <2>2. \A k \in Milestones \ {m} : votes'[k] = votes[k]
    BY <1>1, <2>1
  <2> QED
    BY <2>1, <2>2 DEF Order
<1>9. ASSUME NEW m \in Milestones, OpenMilestoneVote(m)
      PROVE  Order'
  <2>1. /\ state' = state /\ state \in {"Funded", "Active"} /\ lastActivity' = lastActivity
        /\ UNCHANGED <<released, votes, now>>
        /\ opensAt' = [opensAt EXCEPT ![m] = now]
    BY <1>2, <1>9, PayingFacts DEF OpenMilestoneVote, SyncState, pledges, ledger
  <2>2. opensAt'[m] = now /\ \A k \in Milestones \ {m} : opensAt'[k] = opensAt[k]
    BY <1>1, <2>1
  <2>3. released \subseteq Milestones
    BY DEF IInv, TypeOK
  <2>4. \A k \in Milestones : opensAt[k] # 0 => opensAt'[k] # 0
    BY <1>1, <2>2
  <2>5. \A k \in Milestones : opensAt'[k] <= now'
    BY <1>1, <2>1, <2>2 DEF Order
  <2> QED
    BY <1>1, <2>1, <2>3, <2>4, <2>5 DEF Order
<1>10. ASSUME NEW m \in Milestones, ReleaseMilestone(m)
       PROVE  Order'
  <2>1. /\ released' = released \cup {m} /\ opensAt[m] # 0
        /\ UNCHANGED <<opensAt, votes, now>> /\ lastActivity' = now
        /\ state' \in {"Active", "Completed"}
    BY <1>10 DEF ReleaseMilestone, Opened, ballots
  <2> QED
    BY <1>1, <1>3, <2>1, QuietOrder
<1>11. ASSUME state' = "Refunding", UNCHANGED <<released, opensAt, votes, now>>
       PROVE  Order'
  BY <1>1, <1>3, <1>11, QuietOrder
<1>12. CASE ContributorCall
  <2>1. ASSUME NEW c \in Contributors, ClaimRefund(c) PROVE Order'
    BY <1>6, <2>1 DEF ClaimRefund, ballots
  <2> QED
    BY <1>7, <1>8, <1>12, <2>1 DEF ContributorCall
<1>13. CASE AnyonesCall
  <2>1. CASE Settle \/ ReturnBond
    BY <1>6, <2>1 DEF Settle, ReturnBond, ballots, ledger
  <2>2. CASE SettleStalled \/ \E m \in Milestones : SettleLapsedMilestone(m)
    BY <1>11, <2>2 DEF SettleStalled, SettleLapsedMilestone, ballots, ledger
  <2> QED
    BY <1>10, <1>13, <2>1, <2>2 DEF AnyonesCall
<1> QED
  BY <1>4, <1>5, <1>9, <1>12, <1>13 DEF Next, BuilderCall

\* The order holds in every state, beside what is due and the invariant.
THEOREM OrderHolds == Spec => [](IInv /\ DuesCovered /\ Order)
<1>1. Init => Order
  BY ConfigAccepted DEF Init, Order, Genesis
<1> QED
  BY <1>1, NextOrder, InvariantHolds, EveryDueIsCovered, PTL DEF Spec

\* The raise is complete before a vote opens, the vote is open before anyone
\* approves, and nothing is released without a vote.
THEOREM VotesKeepOrder == Spec => []VotesAreInOrder
<1>1. IInv /\ Order => VotesAreInOrder
  <2> SUFFICES ASSUME IInv, Order PROVE VotesAreInOrder
    OBVIOUS
  <2>1. ASSUME NEW m \in Milestones, opensAt[m] # 0 PROVE raised >= Goal
    BY <2>1, ConfigAccepted DEF Order, IInv, TypeOK, Accounts, VaultStates
  <2> QED
    BY <2>1 DEF Order, VotesAreInOrder
<1> QED
  BY <1>1, OrderHolds, PTL

\* No funded project is stuck: when the stall window is over and no vote runs,
\* a carried milestone can be paid or the stall can be settled.
THEOREM NoProjectIsStuck == Spec => []NeverWedged
<1>1. IInv /\ DuesCovered /\ Order => NeverWedged
  <2> SUFFICES ASSUME IInv, DuesCovered, Order, Paying, now >= SyncedActivity + StallWindow,
                      \A m \in Milestones : Opened(m) => Elapsed(m),
                      ~ \E m \in Milestones :
                          /\ Opened(m) /\ Carried(m)
                          /\ tokens >= Tranche[m]
                               + (IF released \cup {m} = Milestones THEN Bond ELSE 0)
               PROVE  Stalled
    BY DEF NeverWedged
  <2>1. SyncedActivity # 0
    BY PayingFacts, ClockOnlyFails DEF IInv, Order
  <2>2. \A m \in Milestones : Opened(m) => ~Carried(m)
    BY DEF DuesCovered
  <2> QED
    BY <2>1, <2>2 DEF Stalled
<1> QED
  BY <1>1, OrderHolds, PTL

-----------------------------------------------------------------------------
(***************************************************************************)
(* The keepers.  They read in two requests, simulate first and send later, *)
(* with anybody's calls in between, and still only press buttons that are  *)
(* anyone's: whatever is proved of the vault holds where they run.         *)
(***************************************************************************)

\* A call the keeper sends is one that anybody may make.
LEMMA KeeperCallIsAnyones ==
  ASSUME NEW try, Call(try)
  PROVE  AnyonesCall
BY DEF Call, AnyonesCall

LEMMA KeeperStep == [KeeperNext]_<<vars, keeper>> => [Next]_vars
<1> SUFFICES ASSUME KeeperNext PROVE [Next]_vars
  OBVIOUS
<1>1. CASE Read \/ Simulate
  BY <1>1 DEF Read, Simulate
<1>2. CASE Submit
  <2>1. Call(Head(todo)) \/ UNCHANGED vars
    BY <1>2 DEF Submit
  <2> QED
    BY <2>1, KeeperCallIsAnyones DEF Next
<1>3. CASE TriggerSettleStalled
  <2>1. SettleStalled \/ UNCHANGED vars
    BY <1>3 DEF TriggerSettleStalled
  <2> QED
    BY <2>1 DEF Next, AnyonesCall
<1>4. CASE NextTick \/ OthersCall
  BY <1>4 DEF NextTick, OthersCall, Next, Environment
<1> QED
  BY <1>1, <1>2, <1>3, <1>4 DEF KeeperNext, KeeperPass

\* A vault the keepers serve behaves as a vault.
THEOREM KeepersAddNothing == KeeperSpec => Spec
<1>1. KeeperInit => Init
  BY DEF KeeperInit
<1> QED
  BY <1>1, KeeperStep, PTL DEF KeeperSpec, Spec

=============================================================================
