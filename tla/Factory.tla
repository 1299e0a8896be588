------------------------------ MODULE Factory ------------------------------
(***************************************************************************)
(* The administered half of contracts/blkfndr-factory: its admin and the   *)
(* settings every vault created from here on is given.  One update_*       *)
(* entrypoint per setting; each takes the admin's authorisation and checks *)
(* the value on its own.  A contract authorises the calls it makes itself, *)
(* so the admin may be the treasury.                                       *)
(***************************************************************************)
EXTENDS Integers

CONSTANTS
  BPS_TOTAL,         \* 10 000 in the code; runs use fewer, coarser points
  MAX_PLATFORM_FEE,  \* the ceiling on the listing fee
  FirstAdmin,        \* who deploys the factory
  FirstSettings      \* what its constructor is given

VARIABLES admin, settings

factory == <<admin, settings>>

Addresses == {"vault_wasm_hash", "fee_wallet", "identity_registry"}
Settings  == Addresses \cup
             {"platform_fee", "bond_percentage", "voting_window", "min_contribution"}

\* What the setter of this setting accepts.
Acceptable(setting, value) ==
  CASE setting = "platform_fee"     -> value \in 0 .. MAX_PLATFORM_FEE
    [] setting = "bond_percentage"  -> value \in 0 .. BPS_TOTAL
    [] setting = "voting_window"    -> value > 0
    [] setting = "min_contribution" -> value > 0
    [] OTHER                        -> TRUE

FactoryInit ==
  /\ admin = FirstAdmin
  /\ settings = FirstSettings

Update(caller, setting, value) ==
  /\ caller = admin
  /\ Acceptable(setting, value)
  /\ settings' = [settings EXCEPT ![setting] = value]
  /\ UNCHANGED admin

TransferAdmin(caller, newAdmin) ==
  /\ caller = admin
  /\ admin' = newAdmin
  /\ UNCHANGED settings

ASSUME FirstSettingsAccepted ==
  /\ DOMAIN FirstSettings = Settings
  /\ \A setting \in Settings : Acceptable(setting, FirstSettings[setting])

=============================================================================
