# BLKFNDR: models, checks and proofs

BLKFNDR is a crowdfunding platform on Stellar. Backers put tokens into a *vault* contract, one per
project; the builder's performance bond is locked in the same transaction; tranches are paid by
contributor votes; a project that fails gives the money back. Around the vaults stand a factory,
registries, a treasury owned by shareholders, an operations vault, and a Next.js application whose
cron jobs press the contracts' permissionless buttons and mirror their events into Postgres.

This directory holds TLA+ models of that code, the TLC configurations that check them, and proofs
checked by TLAPS. Source paths below are relative to the repository.

## 1. Inventory

| Part | State it keeps | Operations | What is hard |
| --- | --- | --- | --- |
| Vault `contracts/blkfndr-vault` | lifecycle state, contributor balances, four largest balances, votes and three tallies per milestone, totals, bond and attested flags, activity clock | initialize, contribute, settle, return_bond, open_milestone_vote, approve_milestone, release_milestone, settle_lapsed_milestone, settle_stalled, claim_refund | calls of many wallets in any order, a lifecycle that the clock moves without a call, rounding, who gets the bond |
| Attestation registry `contracts/blkfndr-attestation` | trusted factories, one record per vault, builder histories | add_factory, disable_factory, attest | written inside the vault's transaction: a refusal reverts the vault's step |
| Factory `contracts/blkfndr-factory` | admin, fee, bond rate, voting window, minimum, wasm hash, vault set | create_vault, eight admin updates | parameters change while vaults run; the admin may be the treasury |
| Identity registry `contracts/blkfndr-identity` | attestors, KYC hashes with a TTL | add/remove attestor, attest, revoke, bumps | approvals that expire by archival |
| Treasury `contracts/blkfndr-treasury` | shareholder register, payout cycles, reservations per token, one proposal, operations-funding terms, two clocks | open/approve/settle_lapsed cycle, claim, propose/approve/execute, fund_operations | snapshots, reservations against a moving balance, governed actions that change the rules |
| Operations vault `contracts/blkfndr-operations` | owners, one proposal, voting window | propose, approve, execute | batches that pay all or nothing, owner sets changed by vote |
| Admin roster `contracts/blkfndr-admin` | owner, admins | add, remove, transfer | little |
| Governance keeper, settle-stalled `src/lib` | nothing | one pass every 15 minutes, one run a day | read–simulate–send against a vault that anyone may move in between |
| Event indexer `src/lib/indexer-scan.ts`, `event-indexer.ts` | cursor, event rows with attempts, mirrored projects | one pass a minute | crashes mid-pass, retries, ordering inside a ledger, partial scans |
| Vault replay `src/lib/vault-replay.ts` | none (a fold over events) | replay | must agree with the vault |
| Launch flow `src/lib/launch-in-flight.ts`, `vault-deploy-guard.ts`, `ListingForm.launch` | one remembered transaction in the browser's storage, shared by its tabs | launch, settle a prior launch, ask on arrival | retry of a launch that may still be applied, answers lost, late or forgotten, tabs and wallets that displace one record |
| KYC review and renewal `src/lib/data/kyc.ts`, `kyc-reminders.ts` | one row per applicant, and the identity registry's record of the wallet | submit, attach a wallet, attest, decide in the database alone, revoke, the sweep of walletless approvals | a row and a chain written in turn by several people, with no transaction over both |
| TTL keeper, operations funding, notifications, moderation, sessions, UI | database rows or nothing | cron jobs, API routes | see the component list |

Interaction: the application and any wallet call the contracts; the vault calls the token contract
and, when a project closes, the attestation registry, in one atomic transaction; the keepers read a
vault, simulate a call and send it; the indexer reads events and mirrors each vault's state.
`PROJECT.json` lists every component with its status and every hazard at its line.

What makes each part correct, in one line each: a vault always covers what it owes, moves the bond
once and in one direction, pays a tranche only on a recounted mandate, and never strands money; the
registry's record tells what became of the project; the treasury never promises the same unit
twice; the operations vault pays a proposal once; the indexer handles each event, in order, until
it succeeds or is given up; a replay gives the vault's own figures; a launch is never sent again
while an earlier one may still open a vault; an approved identity check is on the record or
waits to be, bound to its wallet, and has a date on which it runs out.

## 2. Modules

| Module | Models | Notes |
| --- | --- | --- |
| `Totals` | sums of amounts over a set of accounts | counts units, so that it can be reasoned about without induction |
| `VaultArithmetic` | weight cap, capped total, the largest-balance tracker, threshold, wallet floor, stake majority | operators only |
| `Vault` | the vault contract | one action per entrypoint; safety properties |
| `Escrow`, `VaultEscrow` | what a vault promises (a backers' pot and a bond, no votes, clocks or registries), and the refinement mapping from `Vault` | abstract specification |
| `VaultReplay` | the replay of a vault's events, run beside the vault that emits them | the vault's runs use its `ReplaySpec` |
| `VaultKeeper` | the two cron jobs around one vault | liveness under the schedulers' fairness |
| `TwoThirds` | the approval rule the two owner-governed contracts share | |
| `Factory` | the factory's admin and settings | the part its admin, which may be the treasury, can change |
| `Treasury` | the fee treasury, composed with `Factory` | payout cycles, claims, governed actions, operations funding |
| `Operations` | the operations vault | proposals, batches, owner and window changes |
| `Mandate`, `TreasuryMandate`, `OperationsMandate` | what both owner-governed contracts promise, and the two refinement mappings | abstract specification |
| `Indexer` | the event indexer between an RPC node's log and the mirrored rows | crashes, partial pages, retries; liveness |
| `Launch` | opening a vault from the browser | pages, wallets, a network that applies when it likes |
| `Kyc` | one applicant's identity check, with the registry's record | every request of a server action is a step |
| `TotalTheorems`, `VaultProofs`, `VaultReplayProofs`, `TreasuryProofs`, `OperationsProofs`, `IndexerProofs`, `LaunchProofs`, `KycProofs` | lemmas, inductive invariants, theorems | proofs |
| `MCVault`, `MCVaultKeeper`, `MCTreasury`, `MCOperations`, `MCIndexer`, `MCLaunch`, `MCKyc` | values of the constants for TLC | |

### How `Vault` corresponds to the code

An action is a contract call that *succeeded*. A Soroban call that panics reverts everything it
wrote, including the lifecycle transition `sync_state` had stored, so a refused call is an action
that is not enabled and has no other trace. `sync_state` itself is never an action: each entrypoint
contains it (`SyncState`, or a later state written over it), and every guard reads
`EffectiveState`, as `get_state` does.

The vault's storage is the first group of variables, named after the storage keys. `balance` is the
persistent entry of each wallet with 0 for no entry; `votes[m]` is the set of `Vote(m, wallet)`
keys; `released`, `failed`, `opensAt` and `approvedWeight` are the fields of `Milestone`. The
ledger around it is a clock, the vault's balance in the token contract, whether the attestation
registry still trusts the factory, and what the registry recorded. Four history variables
(`contributed`, `refunded`, `builderPaid`, `donated`) are read by properties only.

`DataKey::Largest` is a partial function from wallets to balances; the position in the Vec decides
only which of several equally small entries is displaced, which the model leaves open.
`WriteAttestation` is the call into the registry: when the factory is not trusted it refuses and the
whole call is disabled. i128 holds any amount a token can have, so amounts are unbounded integers;
the clock is an unbounded natural with the bound `MaxTime` in `Tick`.

### How `VaultKeeper` corresponds to the code

A governance-keeper pass sends `get_state` and `get_info` together (`Read`: two answers, in either
order, with any call in between), makes its plan from them (`Plan`), then tries each call:
`Simulate` accepts it iff it is enabled now, `Submit` applies it iff it still is. A sent release or
close ends the pass. `TriggerSettleStalled` is one simulated-and-sent call.

Fairness: the jobs run on a schedule (every 15 minutes and daily, `docs/architecture.md`), so each
completes a run between two ticks of a clock whose unit is a window of days; `WF` on the pass, on
the daily job and on the clock says no more than that the jobs are running. `WF` on each backer's
claim is used for "every backer repaid": a claim needs the backer's own signature. Nothing is
assumed of the builder, of the voters, or of any stranger. The liveness run assumes the registry
keeps trusting the factory: the record is part of the closing call, so while the factory is
disabled a carried last tranche cannot be paid, nor a project closed.

### How `VaultReplay` corresponds to the code

Each successful call of the vault emits up to three events, and each is played into `replayed` at
once: first the transition `sync_state` found due (`Synced`), then what the call itself says, in the
contract's order (`BOND/RETURNED` goes before the `MILESTN/RELEASE` it belongs to). `replayed` is
therefore the fold of `replayVault` over all events so far, and `consistent` its empty `selfCheck`.
The events are taken as stored: every one, once, in chain order; missing and repeated events are the
indexer's business. `ReplayMatchesVault` compares what `compareWithChain` compares, with the number
of approvals besides. The bond's amount and posting, which nothing changes after `initialize`, are
left out.

### How `Indexer` corresponds to the code

The chain is a set of events with a ledger and an operation each. `create_vault` emits the vault's
opening events *before* the factory's `DEPLOY`, in the same operation: `LogOrder` is the order of the
log, `ChainOrder` the one the indexer sorts into. A pass reads cursor and vault list (`Start`),
scans group after group (`ScanGroup`: to the latest ledger, or to any point short of it, in the
middle of a ledger too), then takes the events one by one: skip it, or record the attempt
(`Attempt`) and run the handler (`Handle`, `Fail`), and moves the cursor (`End`). `Crash` may come
between any two of these. A mirrored row is reduced to the id it is filed under and the ledger it
shows, because a handler reads the vault as it is now and never writes what the event says.

Two history sets name what the code does lose. `missed` collects events a pass was in no position to
read: the ledger is older than the node keeps or than a cold start looks back, or the read of the
cursor or of the vault list failed, whose errors the code does not look at. `GivenUp` is an event
whose `MAX_ATTEMPTS` are used up; the vault of a `DEPLOY` that was given up is not watched and its
events go with it. The properties allow exactly these.

Fairness: the route runs every minute, a pass that runs goes on, and ledgers go on closing: `WF` on
`Pass` and on `CloseLedger`. Nothing promises that a handler ever succeeds, and faults are bounded
by `MaxFaults`, so `EveryEventSettled` says that *after the last outage* every event is settled.

### How `Launch` corresponds to the code

A page is one tab; the stages are the `await`s of `ListingForm`'s launch. `Press` reads the record
(`settlePriorLaunch` asks about a launch of the same wallet before going on), `Dedupe` is
`findDeployedVault` as far as each vault can be read, `Build` fixes the account's sequence number,
`Submit` is the network's acceptance, `Remember` the record written when that is known, `Confirm`
and `Doubt` the two ways the confirmation ends, and `Poll` one turn of `resolveSubmittedLaunch`. The
network applies a transaction at any time up to its deadline, in its account's order, or lets it
fail; a node reports it up to `Lag` late and forgets it after `Keep`. A page may be reloaded at any
point and then asks about the launch on record.

A press notes in `aware` the launches of its wallet that it ought to take into account: those the
network accepted and whose trace was kept. `lost` collects the ways a trace goes: the page is
reloaded, or the answer lost, before the acceptance is known; the one record gives way to another
wallet's or another tab's; it is older than `ASK_FOR`; a launch is called expired in silence, or
after the node forgot it. A launch sent by another tab after the press is not in `aware`: nothing in
the browser stands between two tabs that both found nothing on record. The form, its checks before
the signature (one action, `Stop`) and a browser without storage are left out.

### How `Kyc` corresponds to the code

One applicant, with the row's triggers folded into every write (`Save`: the date set on approval,
identity details dropped after a decision, `updated_at`). A call is a `job`: what it has read and
the step it is at. Between two steps any other call may run and the call may be cut off, so that the
chain and the row drift apart wherever the code lets them. `fresh` is false for a call that another
call's write overtook. `unsettled` marks a check whose review was cut off after its first write, or
overtaken, until an approval has run alone on it. A details hash is the pair it commits to, blank
(`None`) in its details when it is computed after a decision has deleted them, and the applicant's
own client sends the right one. Documents in storage, notices, the reviewer's own check and field
validation are left out.

`Decide` is `decideSubmission` called by itself: the panel turns a check down with it, and the server
action `updateKycRequestStatus` offers both decisions. It asks for no status, so it approves a
check that was turned down, and it writes the row only. `waiting` marks an approved check that has
its wallet and has yet to be recorded for one of two reasons that no race explains: the wallet was
attached after the approval, or the approval was `Decide`'s. The next `attestSubmission` that
completes ends it (`AttestDecide` clears it), as do a refusal and a resubmission.

### How `Treasury` and `Factory` correspond to the code

Again an action is a call that succeeded. A register (`Vec<Shareholder>`) is a total function from
people to basis points with 0 for someone not listed: `validate_roster` refuses an entry of zero and
a second entry for an address, so nothing is lost. A cycle is a record in the sequence `cycles`,
with the keys that belong to it folded in: `CycleVote(id, _)` is `voters`, `Claimed(id, _)` is
`claimants`, `ClaimCount(id)` is `claims`. `approvals` and `claims` stay counters of their own, as
in the code; that they agree with the sets is part of what is proved. The proposal carries its
`ProposalVote` keys the same way. `OpenCycleId` absent is 0, and so are the two clocks.

`ExecuteProposal` calls the factory's setter or `TransferAdmin` as the treasury: when the treasury
is not the admin, or the setter refuses the value, the whole call is not enabled and the proposal
stays. The setters of three addresses and four numbers are one action, `Update`, with the check of
each in `Acceptable`. Another admin's updates of the settings are left out (they change nothing the
treasury reads); `HandOver` is that admin making somebody, possibly the treasury, its successor.

A share is a number of basis points out of `BPS_TOTAL`, 10 000 in the code and a constant here: the
proofs hold for any, the runs use 10, so that registers are small and shares truncate. Left out: a
transfer that the token contract refuses for a reason of its own (the call reverts), and operations
funding with the treasury itself as the vault it pays.

### How `Operations` corresponds to the code

Same conventions. A `Release` is a batch of one: `execute` treats it like a `ReleaseMany` with one
entry. `BatchCovered` states in one line what the loop does with the balance it reads again before
each transfer: the entries in one token are covered together, or a panic undoes those before. The
vault itself is not among `Destinations`. `now + window` overflows past `MAX_U64`, and the call then
panics: `Propose` has that guard. `paid` is a history variable; nothing in the code reads it.

`Mandate` is the promise of both: a set of members, something governed, an electorate that is the
members of the moment a proposal opens, and approvals. Whatever is governed, the members included,
changes only in `Apply`, with two thirds of the *present* members in favour. That the electorate
still is the membership when an old carried proposal is applied is not a check of the code: it
follows from there being one proposal slot, and is part of the proofs. `Open` may replace a decided
proposal, as in the code; nothing promises that a carried proposal is ever applied.

## 3. Runs

| Run | Bounds | What it shows |
| --- | --- | --- |
| `vault_lifecycle` | 4 interchangeable backers, amounts 1, 2, 4, goal 7, tranches of 2 and 5, bond 3, one stray transfer, a registry that may stop trusting the factory, clock to 3 | type invariant; the bond's one way; solvency and fair shares in every order of claims; mandates; forfeiture of carried votes only by a lapse; refinement of `Escrow`; the replay agrees with the vault |
| `vault_weights` | 6 backers, goal 15, amounts 1, 2, 3, 5, one tranche | more wallets than the four tracked, overtaking each other, with caps that bite: tallies, capped total, unanimity |
| `keeper_liveness` | 2 backers, 2 milestones, clock to 10 | every funded project ends, every missed goal is closed, every backer repaid |
| `carried_vote_withheld` | 3 backers, goal 6, 2 tranches, clock to 4 | violation: one milestone's lapse forfeits another that has carried |
| `treasury_cycles` | 3 holders (4:3:3), a register that may change to the two alike, one token, fees of 5 up to 9, half of the pool to operations, 2 cycles, window 1, interval 2, clock to 3 | reservations exact to the unit and covered; one live vote; cycles pay on a mandate, a month apart |
| `treasury_votes` | 4 people, each kind of governed action, well-formed, malformed and refused by the factory, window 2, clock to 5 | refinement of `Mandate` |
| `operations_votes` | 3 owners, becoming 4 or 1; single releases, batches to one wallet twice, empty and zero ones; deposits of 1 and 3 up to 4 | refinement of `Mandate`; each carried vote pays once, whole; no overdraft |
| `operations_wedged` | 3 owners, a window of 0 proposed | violation: every later proposal is closed when it opens |
| `indexer` | 1 vault, 4 ledgers of one operation, a node that keeps 2, 2 attempts, cold start 1, one fault | the cursor passes only settled events; the mirror keeps up; rows are filed right; every event is settled in the end |
| `launch` | 2 pages, 2 wallets, 1 draft, 2 launches, clock to 4 | no second vault unawares; a launch in flight stays on record |
| `launch_expired` | 1 page, 1 launch, a record kept to the end, clock to 4 | violation: a launch called expired has opened a vault |
| `kyc` | 2 reviewers, 2 tabs, the sweep, 2 wallets, old and new documents, window and limit of a day, 3 days, 5 calls | approvals are recorded, records run out, the check keeps its wallet, the hash binds, approvals end when due |

Why the bounds are enough: three backers are the wallet floor, so with three a vote can carry, fall
short by one wallet, and be opposed; two milestones are the least for which one can lapse while
another has carried, and for which a vault is `Active`; four backers let a claim be followed by three others before the
sweep; windows of one tick make every "before",
"at" and "after" a boundary the clock reaches; a goal of 7 with shares of 1, 2 and 4 truncates in
both products of a claim; six backers against four tracked balances make the tracker displace and
be displaced. In the treasury, a fee of 5 under registers of 4:3:3 and 5:5 truncates; two cycles let
one be paid while the next is voted, with the register changed in between; an interval of 2 with a
window of 1 lets a second cycle open, lapse and carry on either side of the month; three holders
carry with two, four need three, one decides alone. A window of 2 and a clock to 5 let a proposal
lapse, be replaced and be executed after its window.

For the indexer, one vault with its opening events, its `DEPLOY` and changes after it has every
order the log can take inside one ledger; four ledgers of which two are kept let a pass fall behind
what the node still has, two attempts let an event fail once and be given up later, and one fault
lands in any step of any pass. For the launch, two launches are the least that can be one too many,
a second page and a second wallet the least that displace a record, and a clock of four holds a
launch's life, its grace and the age at which a record is dropped; the node's `Lag` is 1, as long as
the grace, so it answers late in every way the grace is meant for. For KYC, five calls hold an
approval, a renewal and its review with one more call in between; two of anything that can race;
the documents are one that expires during the run and one that outlives it. Deadlock checking is off because the clock is
bounded and a completed or fully claimed vault, an idle browser and a decided check may rest.

The three violations are disagreements between the code and what its comments and documents say,
listed with their sources under `findings`:

- `carried_vote_withheld`. What does hold is `OnlyALapseForfeitsACarriedVote`: neither the stall
  clock nor a milestone's own window ever forfeits a carried vote. The governance keeper makes the
  same call when it meets the lapsed milestone first.
- `operations_wedged`. With a window of 0, `approve` always finds the vote closed and nothing can
  be voted again, the repair included.
- `launch_expired`. `resolveSubmittedLaunch` concludes `EXPIRED` when the node answered at any time,
  also when it has been silent since the deadline: a `NOT_FOUND` from before the deadline stands in
  for one after it, the record is forgotten, and the builder is told that a fresh launch is safe.

Facts of the models that no property states: `propose` in the treasury checks less than the
factory's setters, so a window or minimum of 0 and a fee above the ceiling can be carried and never
applied, until a shareholder replaces the proposal; a carried treasury proposal may be replaced
before anyone executes it; tokens sent to a vault after its completion have no way out.

`updateKycRequestStatus(id, "approved")` has three consequences in `Kyc`. It leaves an approved check
off the record, as its documentation says it does, while the applicant is told "You can open a
vault" (`options.recorded ?? true`, `kyc.ts:541`). A renewal approved so leaves the earlier hash on
the record, and the reviewers' panel, which asks only whether the address is approved
(`IdentityRegistryPanel.tsx:352-372`), does not show that anything is missing: that is why
`ApprovalIsRecorded` counts the check as `waiting`, and not as one the reviewers know of. And a check
turned down without a wallet, then approved so, has lost its details; `attachOwnKycWallet` refuses
only the status `rejected` ("A rejection deleted the details the hash is computed from",
`kyc.ts:366`) and now takes the wallet with a hash of blanks (`kyc.ts:388-396`), which can then be
recorded. TLC finds this in six steps when the premise on kept details is taken out of
`HashBindsDetailsToWallet`.

## 4. Proofs

Every property of a passing run, except those of `keeper_liveness` and `EveryEventSettled`, is also
a theorem, for every value of the constants that the modules' assumptions allow. Other theorems
state properties of which no run is made; they are defined beside the others in their modules, and
TLC finds them true on the same small instances.

`VaultProofs` does it for every set of backers, every goal, bond, list of at most 20 tranches and
every window that `initialize` accepts (`ConfigAccepted`).

*Accounts.* Solvency is not inductive by itself. The invariant `IInv` adds `Accounts`: the counter of unclaimed
contributions is the sum of the entries left (so the last claim is the last), nobody has claimed
while the project can be paid (so a forfeiture is covered at the moment it happens), nothing has
been released before the raise is complete, and nothing is on record before the project has ended.
In `Refunding`, solvency is stated multiplied out, `tokens * raised >= owing * (rest + bond)`: a
claim takes at most its exact share, because each of its two divisions truncates (`ShareBound`), so
what is left still covers the exact shares of the others (`ClaimKeepsCover`).

*Votes* (`Polls`). The four balances kept are the largest, and each tally is the sum over the
voters. At most four wallets can hold more than a fifth each, so every balance above the cap is
among the four kept, and the total computed from them is everybody's capped weight
(`CappedTotalExact`); the mandate of a release and the unanimity of small raises follow by
arithmetic on the cap.

*Refunds* (`Claims`). Each claimant took back the principal in a failed raise, and in a forfeiture
at least the truncated share; what the last claim sweeps beyond that is bounded by two units of
truncation for each claimant and the stray transfers (`FairShares`, `NoDustStranded`).

*Refinement.* Under the mapping of `VaultEscrow`, each entrypoint is one movement of `Escrow` or
leaves both its accounts alone (`VaultIsEscrow`).

*Replay.* `VaultReplayProofs` shows `ReplayMatchesVault` from an invariant, `Rebuilt`, that says what
the replay holds figure by figure; it must speak of the stored state, not the one the clock makes
of it, because the transition's event comes only with the next call.

Theorems about the vault beyond the properties of its runs:

- *Nothing wedges.* `EveryDueIsCovered` says solvency of the guards: no bond, tranche or refund that
  is due is refused for want of tokens. For a refund this needs the two truncated quotients
  to be brought under the multiplied-out solvency. `NoProjectIsStuck`, the safety half of
  `FundedProjectEnds`: once the stall window is over and no vote runs, either a carried milestone
  can be paid or the stall can be settled. It needs `Order`: a vault that can be paid has its
  activity on record, without which the stall test is never met; the same invariant gives
  `VotesKeepOrder`.
- *Nothing is lost, nothing is undone.* `NothingIsLost` (every token accounted for),
  `EndingsAreFinal` (the lifecycle moves forward, by the clock as by the calls; verdicts and the
  record are never revised), `FateIsOne` (never both completed and forfeited), `QuoteExact` (the
  weight quoted as required is the least that carries).
- *What holds of a carried vote*, next to the violation `carried_vote_withheld`: it stays carried
  (`CarryingIsForGood`, because its tallies grow against totals that are settled), it is safe while
  no other vote is open (`LoneVotesAreKept`), and so the comment is right of a project with one
  milestone (`OneMilestoneKeepsItsVote`, which assumes `NumMilestones = 1`).
- *The keepers.* `KeepersAddNothing`: `KeeperSpec` implements `Spec`. Whatever a pass has read that
  is no longer so, and whatever comes between its simulation and its transaction, it makes no step
  that is not anyone's, so all the theorems above hold where the jobs run.

The proofs rest on `TotalTheorems`. A sum is the number of units credited, the cardinality of a
union of products, so that "changing one entry changes the sum by the difference" follows from the
library's facts about finite sets and no induction is needed. Where one is (`TotalMonotone`, and
`TotalByClass`: a sum may be taken class by class), it is made by a smallest counterexample
(`SmallestFailure`). `LeastMember` (a set of positive
numbers has a least member, from the well-foundedness of strict inclusion) is needed for
`settle_stalled`, which fails the first milestone still open.

`TreasuryProofs` proves every property of the treasury that a run shows to hold, for every set of
people and tokens, every register, list, terms and setting that may be proposed, every fee, window
and interval (`TreasuryConfig`). The invariant is that of each cycle (`CycleInv`), of the proposal
and of the slots. Why it is needed:

- *Exact reservations.* A claim of any but the last takes its payout off the reservation, the last
  takes the cycle's amount less all other payouts. That this is what is left needs the count of
  claims to be the number of claimants, and that the others have all claimed when it is the last.
- *Covered.* What a payable cycle still reserves covers the shares still due from it. As in the
  vault this is stated multiplied out: `BPS_TOTAL` times the rest of the cycle is at least its
  amount times the basis points of those who have not claimed.
- *Monthly releases.* The clock is read in `OpenCycle` and set in `ApproveCycle`. Between the two
  the slot is taken, only the slot's own cycle can carry, and so the interval that held at opening
  still holds when it does (`now` only grows).
- *Claims.* `EveryClaimIsCovered` turns `Covered` into what a claimant sees, for all cycles of a
  token at once; `TruncationIsSmall` bounds what truncation leaves behind by one unit a holder.
- *History.* `CyclesAreKept`: each cycle is voted and paid as it was opened, whatever becomes of
  the register meanwhile.
- *Mandate.* The open proposal's roster is the present register: only executing a proposal changes
  the register, and that empties the slot. Its approvals number its voters.

`OperationsProofs` proves the three properties of `operations_votes` from a smaller invariant of the
same kind: the proposal's owners are the present owners, its approvals number its voters, and its
action is well formed, so that the sums a batch pays are never negative. `PaymentsConserve` sums a
batch by destination and by token and finds the two the same (`TotalByClass`; this is why the
destinations are assumed to be finitely many). `CarriedVotesOverlap` is arithmetic on two thirds.
Next to the violation `operations_wedged`, `OnlyAnEmptyWindowWedges` proves `VoteCanBeHeld` for every
set of windows without 0.

`IndexerProofs` (`IndInv`) needs four parts: what the chain looks like (`ChainInv`: each
vault has one `DEPLOY`, first in chain order), what a pass may hold in each of its phases
(`ShapeInv`), why a vault is watched (`WatchInv`: it has its row, or its `DEPLOY` is at hand or was
given up), and what the pass still owes (`PassInv`: up to `scannedThrough`, each unsettled event is
among those read, or its contract is still to be scanned, or the factory is, which leads to it; after
a failure, everything before the failed ledger is settled). Without the last the cursor's safety is a matter of
luck: it is moved at the end, long after the pages it stands for were read. What a step may never
undo is proved of the same invariant: `SettledStaysSettled` and `MirrorMovesForward`; and where no
event was given up or out of reach, `MirrorIsWhole`.

`LaunchProofs` needs, besides what pages and network look like (`PageInv`, `NetworkInv`), that an
attempt past its first question knows the fate of every launch it must account for (`AttemptInv`),
and that what was sent with an attempt's knowledge keeps it (`SentInv`). That a launch past its
deadline and grace can be judged at all rests on `EXPIRY_GRACE >= Lag`. Next to the violation
`launch_expired` stands what of that comment holds: a `NOT_FOUND` of a node asked late enough is
final (`NotFoundIsFinal`, `NeverMeansNever`), and a page clears the record only of a launch that was
reported, can open no vault any more, or was lost in one of the ways the model lists
(`ForgetsTheSettled`).

`KycProofs` needs what each call has read to be well formed and, while the call is `fresh`, to be
what is there now; the record and the row may then disagree only while a review is between its
writes, was cut off, or was overtaken, or the approval waits to be recorded. A decision in the
database alone leaves the record as it is: an approval it gives either was one before, and keeps
what was true of it, or starts to wait (`DecideKeeps`). Two consequences need no such excuse: an approval ends with
the document that is on file (`ApprovalsLastAsTheirDocuments`), and one check never has two wallets
on the record (`OneWalletIsOnRecord`).

Only model-checked: the liveness properties (`FundedProjectEnds`, `MissedGoalIsClosed`,
`EveryBackerRepaid`, `EveryEventSettled`), because liveness under fairness and `ENABLED` are out of
the prover's reach, and the three counterexamples.

## 5. Not modelled, and the plan

Left out of the modelled parts: storage TTLs and archival (an archived entry is restored with the
same value, at a cost the caller pays), the paged reads, the list of contributors and the ledger
resources its growth takes, overflow of u64 times outside `Operations`, the keeper's per-run budget.

Of the keeper: a request that fails on the network, and the daily job's list of candidates read from
the database; the fairness above assumes that some later run gets through. Nothing assumes fairness
of the shareholders and owners, and so nothing is claimed about what they eventually do.

Of the indexer: the passes that fill in metadata and builders' names, and the notifications that a
handler queues. Of the launch: uploads, simulation, the form. Of KYC: files in the bucket (the
hazard of the file that two submissions race over is listed), reminders, attestors and their
hand-over.

Most of the repository's lines are React components, generated bindings and database types, SQL,
e-mail rendering and calls to third-party services. They keep no protocol state of their own, a
model of them would restate them line by line, and so the models cover a small share of the lines:
the contracts' state changes, the jobs around them and the few client flows that have an order to
get wrong.

Next, in order:

1. `Factory` completed: `create_vault`, the project counter and the vault set, with the attestation
   and identity registries and several vaults; composition with the treasury as its admin, where a
   change of the settings meets vaults already deployed.
2. The operations-funding trigger around `Treasury`, with the liveness the daily job gives
   ("operations are funded once a month unless a vote is live").
3. The TTL keeper with archival of the entries a claim needs; the read cache.
4. `VaultReplay` behind `Indexer`: a replay over the events that were in fact stored, which may be
   fewer than the vault emitted.
5. The KYC files in storage; the delivery of notifications, once each.
6. A document version in `Kyc`, should the code come to compare one: the decision on papers that
   were replaced meanwhile could then be a property instead of an excuse.
