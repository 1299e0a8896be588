---------------------------- MODULE VaultKeeper ----------------------------
(***************************************************************************)
(* The two schedulers that press the vault's permissionless buttons, seen  *)
(* from one vault.  governance-keeper runs a pass: it reads the vault's    *)
(* state and its info in two requests, then tries what that reading says   *)
(* is due, milestone by milestone.  Trying a call is two steps, between    *)
(* which anybody else may act: the simulation, which accepts the call iff  *)
(* it is enabled, and the transaction, which the ledger applies iff it     *)
(* still is.  settle-stalled simulates and sends one call, and nothing     *)
(* depends on whether it is refused.                                       *)
(*                                                                         *)
(* Both are cron jobs with periods of minutes and a day against windows of *)
(* days and months: here each completes a run between any two ticks.       *)
(***************************************************************************)
EXTENDS Vault, Sequences

VARIABLES
  seenState,   \* get_state's answer in this pass, "unread" before it
  seenInfo,    \* what the pass keeps of get_info's answer, Unread before it
  todo,        \* the calls this pass still means to try
  sending,     \* the first of them was accepted in simulation and sent
  passDue,     \* governance-keeper has not completed a run since the last tick
  reclaimDue   \* settle-stalled has not run since the last tick

keeper == <<seenState, seenInfo, todo, sending, passDue, reclaimDue>>

Unread == [attested |-> TRUE, bondHeld |-> FALSE, stages |-> {0}]

GetInfo == [attested |-> attested,
            bondHeld |-> ~bondReturned /\ Bond > 0,
            stages   |-> {m \in Milestones : Opened(m)}]

KeeperInit ==
  /\ Init
  /\ seenState = "unread" /\ seenInfo = Unread
  /\ todo = <<>> /\ sending = FALSE
  /\ passDue = TRUE /\ reclaimDue = TRUE

-----------------------------------------------------------------------------
\* Release before close, one milestone after the other.
StageCalls(stages) ==
  SelectSeq([i \in 1 .. 2 * NumMilestones |->
               [call  |-> IF i % 2 = 1 THEN "release_milestone" ELSE "settle_lapsed_milestone",
                stage |-> (i + 1) \div 2]],
            LAMBDA try : try.stage \in stages)

\* A pass that returns the bond only when it also had to write the record.
PlanBondWithRecord(st, info) ==
  CASE st = "Failed" /\ ~info.attested ->
         <<[call |-> "settle", stage |-> 0], [call |-> "return_bond", stage |-> 0]>>
    [] st \in {"Funded", "Active"} -> StageCalls(info.stages)
    [] OTHER -> <<>>

Plan(st, info) ==
  CASE st = "Failed" ->
         (IF info.attested THEN <<>> ELSE <<[call |-> "settle", stage |-> 0]>>)
         \o (IF info.bondHeld THEN <<[call |-> "return_bond", stage |-> 0]>> ELSE <<>>)
    [] st \in {"Funded", "Active"} -> StageCalls(info.stages)
    [] OTHER -> <<>>

Call(try) ==
  \/ try.call = "settle" /\ Settle
  \/ try.call = "return_bond" /\ ReturnBond
  \/ \E m \in Milestones : /\ try.stage = m
                           /\ \/ try.call = "release_milestone" /\ ReleaseMilestone(m)
                              \/ try.call = "settle_lapsed_milestone" /\ SettleLapsedMilestone(m)

StartCalls(st, info) ==
  /\ seenState' = "unread" /\ seenInfo' = Unread
  /\ todo' = Plan(st, info)
  /\ passDue' = (todo' # <<>>)

\* The two reads are sent together and answered in either order.
Read ==
  /\ passDue /\ todo = <<>>
  /\ \/ /\ seenState = "unread" /\ seenInfo = Unread
        /\ \/ seenState' = EffectiveState /\ UNCHANGED seenInfo
           \/ seenInfo' = GetInfo /\ UNCHANGED seenState
        /\ UNCHANGED <<todo, passDue>>
     \/ seenState # "unread" /\ StartCalls(seenState, GetInfo)
     \/ seenInfo # Unread /\ StartCalls(EffectiveState, seenInfo)
  /\ UNCHANGED <<sending, reclaimDue, vars>>

\* A refused simulation moves on to the next call of the pass.
Simulate ==
  /\ todo # <<>> /\ ~sending
  /\ IF ENABLED Call(Head(todo))
     THEN sending' = TRUE /\ UNCHANGED <<todo, passDue>>
     ELSE todo' = Tail(todo) /\ passDue' = (todo' # <<>>) /\ UNCHANGED sending
  /\ UNCHANGED <<seenState, seenInfo, reclaimDue, vars>>

\* A sent release or close ends the pass, applied or not.
Submit ==
  /\ sending
  /\ IF ENABLED Call(Head(todo)) THEN Call(Head(todo)) ELSE UNCHANGED vars
  /\ todo' = IF Head(todo).call \in {"release_milestone", "settle_lapsed_milestone"}
             THEN <<>> ELSE Tail(todo)
  /\ passDue' = (todo' # <<>>)
  /\ sending' = FALSE
  /\ UNCHANGED <<seenState, seenInfo, reclaimDue>>

TriggerSettleStalled ==
  /\ reclaimDue
  /\ reclaimDue' = FALSE
  /\ IF ENABLED SettleStalled THEN SettleStalled ELSE UNCHANGED vars
  /\ UNCHANGED <<seenState, seenInfo, todo, sending, passDue>>

KeeperPass == Read \/ Simulate \/ Submit

NextTick ==
  /\ ~passDue /\ ~reclaimDue
  /\ Tick
  /\ passDue' = TRUE /\ reclaimDue' = TRUE
  /\ UNCHANGED <<seenState, seenInfo, todo, sending>>

\* Anyone else's calls, the registry's admin leaving the factory trusted.
OthersCall == (ContributorCall \/ BuilderCall \/ AnyonesCall \/ Donate) /\ UNCHANGED keeper

KeeperNext == KeeperPass \/ TriggerSettleStalled \/ NextTick \/ OthersCall

Claim(c) == ClaimRefund(c) /\ UNCHANGED keeper

\* The cron jobs run, time passes and a backer who can claim does; nothing is
\* assumed of the builder, of the voters or of anyone else.
KeeperSpec ==
  /\ KeeperInit /\ [][KeeperNext]_<<vars, keeper>>
  /\ WF_<<vars, keeper>>(KeeperPass)
  /\ WF_<<vars, keeper>>(TriggerSettleStalled)
  /\ WF_<<vars, keeper>>(NextTick)
  /\ \A c \in Contributors : WF_<<vars, keeper>>(Claim(c))

-----------------------------------------------------------------------------
\* A funded project ends, paid out or refunding, whatever its builder and its
\* backers do or fail to do: the keepers and the clock are enough.
FundedProjectEnds == Paying ~> state \in {"Completed", "Refunding"}

\* A missed goal ends on the builder's record with the bond back, without the
\* builder ever calling.
MissedGoalIsClosed ==
  EffectiveState = "Failed" ~> record.outcome = "FailedToFund" /\ (bondReturned \/ Bond = 0)

\* Every backer of a project that failed or was forfeited gets their money out.
EveryBackerRepaid ==
  EffectiveState \in {"Failed", "Refunding"} ~> Total(balance, Contributors) = 0

=============================================================================
