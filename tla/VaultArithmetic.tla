-------------------------- MODULE VaultArithmetic --------------------------
(***************************************************************************)
(* The voting arithmetic of the funding vault, without its storage: the    *)
(* 20% cap on one wallet's weight, the capped total, the two majority      *)
(* tests and the wallet floor.  Basis points and integer division are the  *)
(* contract's; i128 is wide enough for every amount of the token that can  *)
(* exist, so integers are unbounded here.                                  *)
(*                                                                         *)
(* The four largest balances the contract keeps in DataKey::Largest are a  *)
(* function `tracked` from the wallets kept to their balances.  The Vec's  *)
(* order is abstracted: it only breaks ties between equally small entries, *)
(* so any of the smallest may be the one displaced.                        *)
(***************************************************************************)
EXTENDS Totals

BPS                   == 10000
WEIGHT_CAP_BPS        == 2000
RELEASE_THRESHOLD_BPS == 5000
MIN_APPROVING_WALLETS == 3
LARGEST_TRACKED       == 4

-----------------------------------------------------------------------------
(***************************************************************************)
(* One wallet's weight                                                     *)
(***************************************************************************)

WeightCap(raised) ==
  LET cap == (raised * WEIGHT_CAP_BPS) \div BPS
  IN  IF cap < 1 THEN 1 ELSE cap

EffectiveWeight(contribution, raised) ==
  IF contribution < WeightCap(raised) THEN contribution ELSE WeightCap(raised)

-----------------------------------------------------------------------------
(***************************************************************************)
(* The largest balances, and the capped total computed from them           *)
(***************************************************************************)

Smallest(tracked) == {s \in DOMAIN tracked : \A t \in DOMAIN tracked : tracked[s] <= tracked[t]}

Tracking(tracked, c, balance) ==
  [d \in DOMAIN tracked \cup {c} |-> IF d = c THEN balance ELSE tracked[d]]

Displacing(tracked, c, balance, s) ==
  [d \in (DOMAIN tracked \ {s}) \cup {c} |-> IF d = c THEN balance ELSE tracked[d]]

\* A tracker that never lets a latecomer displace an entry once it is full.
TrackFirstComers(tracked, c, balance) ==
  IF c \in DOMAIN tracked \/ Cardinality(DOMAIN tracked) < LARGEST_TRACKED
  THEN {Tracking(tracked, c, balance)}
  ELSE {tracked}

\* Every value `tracked` may take once c's balance has risen to `balance`.
TrackLargest(tracked, c, balance) ==
  IF c \in DOMAIN tracked \/ Cardinality(DOMAIN tracked) < LARGEST_TRACKED
  THEN {Tracking(tracked, c, balance)}
  ELSE IF \E s \in Smallest(tracked) : balance > tracked[s]
       THEN {Displacing(tracked, c, balance, s) : s \in Smallest(tracked)}
       ELSE {tracked}

Excess(tracked, raised) ==
  [d \in DOMAIN tracked |->
     IF tracked[d] > WeightCap(raised) THEN tracked[d] - WeightCap(raised) ELSE 0]

RawTotal(tracked, raised) == raised

TotalWeight(tracked, raised) ==
  raised - Total(Excess(tracked, raised), DOMAIN tracked)

-----------------------------------------------------------------------------
(***************************************************************************)
(* The tests a release must pass                                           *)
(***************************************************************************)

ThresholdMet(weight, total) ==
  /\ total > 0
  /\ weight * BPS > total * RELEASE_THRESHOLD_BPS

\* The smallest weight that meets the threshold, as the contract quotes it.
RequiredWeight(total) == (total * RELEASE_THRESHOLD_BPS) \div BPS + 1

RequiredWallets(contributors) ==
  IF contributors < MIN_APPROVING_WALLETS THEN contributors ELSE MIN_APPROVING_WALLETS

StakeMajority(stake, raised) == ThresholdMet(stake, raised)

=============================================================================
