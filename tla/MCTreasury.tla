----------------------------- MODULE MCTreasury -----------------------------
(***************************************************************************)
(* Values for the constants of Treasury.  Runs count a whole in 10 basis   *)
(* points, so that registers are small numbers and shares still truncate.  *)
(***************************************************************************)
EXTENDS TreasuryMandate, TLC

CONSTANTS a, b, c, d

Register(shares) == [p \in People |-> IF p \in DOMAIN shares THEN shares[p] ELSE 0]

Thirds     == Register(a :> 4 @@ b :> 3 @@ c :> 3)
Halves     == Register(b :> 5 @@ c :> 5)
Lopsided   == Register(a :> 8 @@ d :> 2)
Overdrawn  == Register(a :> 8 @@ b :> 4)

HalvesOnly   == {Halves}
AnyRegister  == {Lopsided, Overdrawn}
ListOfFour   == {<<d, c, b, a>>, <<a, a>>}
HalfInXlm    == {[token |-> "xlm", bps |-> 5]}
NoChoice     == {}

\* b and c have the same shares in Thirds and in Halves.
Alike == Permutations({b, c})

OfferedSettings == {<<"platform_fee", 4>>, <<"bond_percentage", 11>>, <<"voting_window", 0>>,
                    <<"min_contribution", -1>>, <<"fee_wallet", "other">>}

DeployedSettings ==
  [s \in Settings |-> IF s \in Addresses THEN "first" ELSE 1]

=============================================================================
