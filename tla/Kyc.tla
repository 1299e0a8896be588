-------------------------------- MODULE Kyc ---------------------------------
(***************************************************************************)
(* One applicant's identity check: its row (kyc_requests and its triggers) *)
(* and the identity registry's record of the wallet, as the applicant's    *)
(* calls, the reviewers' calls and the sweep of walletless approvals       *)
(* (src/src/lib/data/kyc.ts, kyc-reminders.ts) read and write them.  Every *)
(* read and every write of a call is a step of its own: other calls run in *)
(* between, and a call may be cut off after any of them.                   *)
(*                                                                         *)
(* The applicant reviews nothing; notices, documents and self-review are   *)
(* left out.                                                               *)
(***************************************************************************)
EXTENDS Integers, FiniteSets

CONSTANTS
  Reviewers, Tabs,   \* calls of reviewers and of the applicant, one at a time each
  Sweeper,           \* the run of queueWalletlessApprovals
  Wallets, Details,
  None,
  WINDOW,            \* RENEWAL_WINDOW_DAYS
  LIMIT,             \* WALLETLESS_APPROVAL_DAYS
  Expiry,            \* the day the document in the details expires
  MaxDay, MaxCalls   \* bounds

Sessions == Reviewers \cup Tabs \cup {Sweeper}
Statuses == {"pending", "approved", "rejected"}
Days     == 0..MaxDay
Maybe(S) == S \cup {None}

\* What a details hash commits to: None for details that had been deleted.
Hash == [details : Maybe(Details), wallet : Maybe(Wallets)]

Row == [status : Statuses, wallet : Maybe(Wallets), filed : Details, kept : BOOLEAN,
        hash : Hash, until : Maybe(Nat), at : Days]

Steps == {"insert", "update", "refile", "reread", "attach", "sign", "compare", "replace", "again",
          "decide", "unsign", "clear", "reject", "end"}

Job == [step : Steps, wallet : Maybe(Wallets), hash : Maybe(Hash), status : Maybe(Statuses),
        fresh : BOOLEAN]

ASSUME KycAssumption ==
  /\ None \notin Wallets \cup Details \cup Nat \cup Row \cup Job \cup Hash \cup Statuses
  /\ Reviewers \cap Tabs = {} /\ Sweeper \notin Reviewers \cup Tabs
  /\ WINDOW \in Nat /\ LIMIT \in Nat /\ Expiry \in [Details -> Nat] /\ MaxDay \in Nat /\ MaxCalls \in Nat

VARIABLES
  today,
  linked,      \* profiles.stellar_public_key
  row,         \* the applicant's kyc_requests row
  record,      \* the registry: wallet -> hash
  job,         \* what each call has read, and its next step
  calls,       \* calls started
  (* history, read by properties only *)
  waiting,     \* approved, and yet to be recorded: the wallet was attached after the
               \* approval, or the approval was given in the database alone
  unsettled    \* a review was cut off or overtaken, and no approval ran alone since

vars == <<today, linked, row, record, job, calls, waiting, unsettled>>

-----------------------------------------------------------------------------
(***************************************************************************)
(* Calls                                                                   *)
(***************************************************************************)
Start(s, first) ==
  /\ job[s] = None /\ calls < MaxCalls
  /\ calls' = calls + 1
  /\ job' = [job EXCEPT ![s] = first]

Continue(s, next) == job' = [job EXCEPT ![s] = next] /\ UNCHANGED calls
To(s, step)       == [job[s] EXCEPT !.step = step]
At(s, step)       == job[s] # None /\ job[s].step = step

\* Something was written: what every other call has read may be out of date.
Overtaken(s, next) ==
  [t \in Sessions |-> IF t = s THEN next
                      ELSE IF job[t] = None THEN None
                      ELSE [job[t] EXCEPT !.fresh = FALSE]]
Overtake(s, next) == job' = Overtaken(s, next) /\ UNCHANGED calls

\* track_verified_until, drop_identity_after_decision, touch_updated_at
Until(new) == IF new.status = "approved" /\ row.status # "approved" THEN Expiry[new.filed] ELSE new.until
KeptLonger(new) == new.kept
Kept(new)  == new.kept /\ (new.status = "pending" \/ (new.status = "approved" /\ new.wallet = None))
Save(new)  == row' = [new EXCEPT !.until = Until(new), !.kept = Kept(new), !.at = today]

Lapsed(until) == until # None /\ until < today
Due(until)    == until # None /\ until <= today + WINDOW

-----------------------------------------------------------------------------
(***************************************************************************)
(* The applicant                                                           *)
(***************************************************************************)
\* submitOwnKyc, up to its write.
SubmitRead(t, d, w) ==
  LET filing(step) == [step |-> step, wallet |-> w, hash |-> [details |-> d, wallet |-> w],
                       status |-> None, fresh |-> TRUE]
  IN /\ Expiry[d] > today
     /\ IF row = None
        THEN w \in {None, linked} /\ Start(t, filing("insert"))
        ELSE /\ row.status = "approved" => Due(row.until)
             /\ row.wallet # None => row.wallet = w /\ linked = w
             /\ Start(t, filing(IF row.wallet = None /\ w # None THEN "refile" ELSE "update"))
     /\ UNCHANGED <<today, linked, row, record, waiting, unsettled>>

Insert(t) ==
  /\ At(t, "insert") /\ row = None /\ job[t].wallet \in {None, linked}
  /\ row' = [status |-> "pending", wallet |-> job[t].wallet, filed |-> job[t].hash.details,
             kept |-> TRUE, hash |-> job[t].hash, until |-> None, at |-> today]
  /\ Overtake(t, None)
  /\ UNCHANGED <<today, linked, record, waiting, unsettled>>

\* A check first filed without a wallet, resubmitted now that there is one.
AfterUpdate(t) == IF At(t, "refile") THEN To(t, "reread") ELSE None

\* The update policy decides again: a row it does not cover is left as it is,
\* and no error says so.
Resubmit(t) ==
  /\ At(t, "update") \/ At(t, "refile")
  /\ IF row.status = "approved" /\ ~Due(row.until)
     THEN Continue(t, AfterUpdate(t)) /\ UNCHANGED <<row, waiting>>
     ELSE /\ row.wallet \in {None, linked}
          /\ Save([row EXCEPT !.status = "pending", !.filed = job[t].hash.details, !.kept = TRUE,
                              !.hash = job[t].hash])
          /\ Overtake(t, AfterUpdate(t))
          /\ waiting' = FALSE
  /\ UNCHANGED <<today, linked, record, unsettled>>

\* attachOwnKycWallet: the hash is computed from the details read here, blank
\* ones when a decision has deleted them.
CanAttach ==
  /\ row # None /\ linked # None
  /\ row.status # "rejected" /\ ~(row.status = "approved" /\ Lapsed(row.until))
  /\ row.wallet = None

AttachingAsFiled == [step |-> "attach", wallet |-> linked, hash |-> row.hash,
                     status |-> None, fresh |-> TRUE]
Attaching == [step |-> "attach", wallet |-> linked,
              hash |-> [details |-> IF row.kept THEN row.filed ELSE None, wallet |-> linked],
              status |-> None, fresh |-> TRUE]

AttachRead(t) ==
  /\ CanAttach
  /\ \/ Start(t, Attaching)
     \/ At(t, "reread") /\ Continue(t, Attaching)
  /\ UNCHANGED <<today, linked, row, record, waiting, unsettled>>

AttachesAnyway  == TRUE
StillWalletless == row.wallet = None

Attach(t) ==
  /\ At(t, "attach") /\ StillWalletless
  /\ Save([row EXCEPT !.wallet = job[t].wallet, !.hash = job[t].hash])
  /\ waiting' = (row.status = "approved")
  /\ Overtake(t, None)
  /\ UNCHANGED <<today, linked, record, unsettled>>

\* linkWallet, unlinkWallet
Link ==
  /\ calls < MaxCalls /\ calls' = calls + 1
  /\ linked' \in Maybe(Wallets) \ {linked}
  /\ UNCHANGED <<today, row, record, job, waiting, unsettled>>

-----------------------------------------------------------------------------
(***************************************************************************)
(* The reviewers                                                           *)
(***************************************************************************)
Read(step, hash) ==
  [step |-> step, wallet |-> row.wallet, hash |-> hash, status |-> row.status, fresh |-> TRUE]

\* A write of a review that was overtaken leaves the check unsettled.
Review(r) == unsettled' = (unsettled \/ ~job[r].fresh)

DecidedForGood(status) == Save([row EXCEPT !.status = status, !.until = None])
Decided(status)        == Save([row EXCEPT !.status = status])

\* decideSubmission by itself (updateKycRequestStatus, the panel's turning
\* down): either way, whatever the check's status, in the database alone.
Decide(r, decision) ==
  /\ row # None /\ calls < MaxCalls /\ job[r] = None
  /\ Decided(decision)
  /\ waiting' = (/\ decision = "approved"
                 /\ waiting \/ (row.status # "approved" /\ row.wallet # None))
  /\ job' = Overtaken(r, None) /\ calls' = calls + 1
  /\ UNCHANGED <<today, linked, record, unsettled>>

\* attestSubmission
AttestRead(r) ==
  /\ row # None /\ row.status # "rejected" /\ ~(row.status = "approved" /\ Lapsed(row.until))
  /\ Start(r, IF row.wallet = None THEN Read("decide", None) ELSE Read("sign", row.hash))
  /\ UNCHANGED <<today, linked, row, record, waiting, unsettled>>

\* The registry refuses a wallet it already has.
Sign(r, then) ==
  /\ record' = [record EXCEPT ![job[r].wallet] = job[r].hash]
  /\ Overtake(r, To(r, then)) /\ Review(r)
  /\ UNCHANGED <<today, linked, row, waiting>>

AttestSign(r) ==
  /\ At(r, "sign")
  /\ IF record[job[r].wallet] = None THEN Sign(r, "decide")
     ELSE Continue(r, To(r, "compare"))
          /\ UNCHANGED <<today, linked, row, record, waiting, unsettled>>

SyncedAlready(r, onRecord) == "decide"
AfterCompare(r, onRecord)  == IF onRecord = job[r].hash THEN "decide" ELSE "replace"

AttestCompare(r) ==
  /\ At(r, "compare")
  /\ LET onRecord == record[job[r].wallet] IN
     Continue(r, IF onRecord = None THEN None ELSE To(r, AfterCompare(r, onRecord)))
  /\ UNCHANGED <<today, linked, row, record, waiting, unsettled>>

AttestReplace(r) ==
  /\ At(r, "replace")
  /\ IF record[job[r].wallet] = None
     THEN Continue(r, None) /\ UNCHANGED <<record, unsettled>>
     ELSE /\ record' = [record EXCEPT ![job[r].wallet] = None]
          /\ Overtake(r, To(r, "again")) /\ Review(r)
  /\ UNCHANGED <<today, linked, row, waiting>>

AttestAgain(r) ==
  /\ At(r, "again") /\ record[job[r].wallet] = None
  /\ Sign(r, "decide")

\* An approval that ran alone, of a check under review, settles it.
AttestDecide(r) ==
  /\ At(r, "decide")
  /\ Decided("approved") /\ waiting' = FALSE
  /\ unsettled' = IF job[r].fresh THEN unsettled /\ job[r].status = "approved" ELSE TRUE
  /\ Overtake(r, None)
  /\ UNCHANGED <<today, linked, record>>

\* revokeSubmissionAttestation: a wallet already off the record is no error.
RevokeRead(r) ==
  /\ row # None
  /\ Start(r, Read(IF row.wallet = None THEN "clear" ELSE "unsign", None))
  /\ UNCHANGED <<today, linked, row, record, waiting, unsettled>>

RevokeSign(r) ==
  /\ At(r, "unsign")
  /\ IF record[job[r].wallet] = None
     THEN Continue(r, To(r, "clear")) /\ UNCHANGED <<record, unsettled>>
     ELSE /\ record' = [record EXCEPT ![job[r].wallet] = None]
          /\ Overtake(r, To(r, "clear")) /\ Review(r)
  /\ UNCHANGED <<today, linked, row, waiting>>

RevokeClear(r) ==
  /\ At(r, "clear")
  /\ Save([row EXCEPT !.until = None])
  /\ Overtake(r, IF job[r].status = "pending" THEN None ELSE To(r, "reject")) /\ Review(r)
  /\ UNCHANGED <<today, linked, record, waiting>>

RevokeDecide(r) ==
  /\ At(r, "reject")
  /\ Decided("rejected") /\ waiting' = FALSE
  /\ Overtake(r, None) /\ Review(r)
  /\ UNCHANGED <<today, linked, record>>

-----------------------------------------------------------------------------
(***************************************************************************)
(* queueWalletlessApprovals, and the rest                                  *)
(***************************************************************************)
Walletless == row.status = "approved" /\ row.wallet = None

SweepScan ==
  /\ row # None /\ Walletless /\ today - row.at >= LIMIT
  /\ Start(Sweeper, Read("end", None))
  /\ UNCHANGED <<today, linked, row, record, waiting, unsettled>>

\* .eq("updated_at", approvedAt): nothing has written the row since the scan.
EndsWalletless(fresh) == Walletless
EndsScanned(fresh)    == Walletless /\ fresh

SweepEnd ==
  /\ At(Sweeper, "end")
  /\ IF EndsScanned(job[Sweeper].fresh)
     THEN /\ Save([row EXCEPT !.status = "rejected", !.until = None])
          /\ Overtake(Sweeper, None)
     ELSE Continue(Sweeper, None) /\ UNCHANGED row
  /\ UNCHANGED <<today, linked, record, waiting, unsettled>>

\* Past its first write to the registry or the row.
Midway(s) == job[s] # None /\ job[s].step \in {"again", "decide", "clear", "reject"}

\* A refusal, an error or a restart between two steps.
CutOff(s) ==
  /\ job[s] # None
  /\ unsettled' = (unsettled \/ Midway(s))
  /\ Continue(s, None)
  /\ UNCHANGED <<today, linked, row, record, waiting>>

NextDay ==
  /\ today < MaxDay
  /\ today' = today + 1
  /\ UNCHANGED <<linked, row, record, job, calls, waiting, unsettled>>

-----------------------------------------------------------------------------
Init ==
  /\ today = 0
  /\ linked \in Maybe(Wallets)
  /\ row = None
  /\ record = [w \in Wallets |-> None]
  /\ job = [s \in Sessions |-> None]
  /\ calls = 0
  /\ waiting = FALSE /\ unsettled = FALSE

Applicant(t) ==
  \/ \E d \in Details, w \in Maybe(Wallets) : SubmitRead(t, d, w)
  \/ Insert(t) \/ Resubmit(t) \/ AttachRead(t) \/ Attach(t)

Reviewer(r) ==
  \/ \E decision \in {"approved", "rejected"} : Decide(r, decision)
  \/ AttestRead(r) \/ AttestSign(r) \/ AttestCompare(r) \/ AttestReplace(r) \/ AttestAgain(r)
  \/ AttestDecide(r)
  \/ RevokeRead(r) \/ RevokeSign(r) \/ RevokeClear(r) \/ RevokeDecide(r)

Next ==
  \/ \E t \in Tabs : Applicant(t)
  \/ \E r \in Reviewers : Reviewer(r)
  \/ \E s \in Sessions : CutOff(s)
  \/ SweepScan \/ SweepEnd \/ Link \/ NextDay

Spec == Init /\ [][Next]_vars

-----------------------------------------------------------------------------
(***************************************************************************)
(* Properties                                                              *)
(***************************************************************************)
\* A check under review has its details, and one decided for good has none
\* (kyc_requests_pending_is_complete, drop_identity_after_decision).
TypeOK ==
  /\ today \in Days /\ linked \in Maybe(Wallets) /\ calls \in 0..MaxCalls
  /\ row \in Maybe(Row)
  /\ row # None =>
       /\ row.status = "pending" => row.kept
       /\ row.kept => row.status = "pending" \/ (row.status = "approved" /\ row.wallet = None)
  /\ record \in [Wallets -> Maybe(Hash)]
  /\ job \in [Sessions -> Maybe(Job)]
  /\ waiting \in BOOLEAN /\ unsettled \in BOOLEAN

Settled == ~unsettled /\ \A s \in Sessions : ~Midway(s)

\* An approved check that has its wallet is on the record with the hash it was
\* approved on, or it waits to be recorded, because the wallet came after the
\* approval or the approval was given in the database alone. Once it has been
\* attested it waits no more, whatever was cut off, retried, renewed or revoked
\* before, unless a review was overtaken by another call (attestSubmission,
\* revokeSubmissionAttestation, updateKycRequestStatus).
ApprovalIsRecorded ==
  row # None /\ row.status = "approved" /\ row.wallet # None =>
    record[row.wallet] = row.hash \/ waiting \/ ~Settled

\* What stands on the record stands for this check, and has a date on which it
\* runs out: without one nobody is reminded to renew or to revoke it
\* (track_verified_until, decideSubmission, queueKycExpiryReminders).
RecordHasAnEnd ==
  \A w \in Wallets : record[w] # None =>
    row.wallet = w /\ (row.until # None \/ ~Settled)

\* Two tabs, a relinked wallet, a resubmission: nothing moves a check from one
\* wallet to another (attachOwnKycWallet, submitOwnKyc).
WalletNeverMoves ==
  [][row # None /\ row.wallet # None => row'.wallet = row.wallet]_vars

Moves(s) == job[s] # None /\ (job'[s] = None \/ job'[s].step # job[s].step)

\* A call of the applicant that no other call overtook leaves a hash that binds
\* the details on file to the wallet on file, if a decision has not deleted the
\* details before (attachOwnKycWallet).
HashBindsDetailsToWallet ==
  [][\A t \in Tabs :
       row' # row /\ Moves(t) /\ job[t].fresh /\ row'.wallet # None /\ (row'.kept \/ row.kept)
         => row'.hash = [details |-> row'.filed, wallet |-> row'.wallet]]_vars

\* An approval ends by itself only when it has had no wallet for LIMIT days: a
\* wallet attached, or an approval given again, after the scan wins
\* (queueWalletlessApprovals).
ApprovalEndsWhenDue ==
  [][row # None /\ row.status = "approved" /\ row.until # None
       /\ row'.status = "rejected" /\ row'.until = None
     => row.wallet = None /\ today - row.at >= LIMIT]_vars

\* An approval lasts as long as the document on file, no longer and no shorter,
\* or its end was cleared to revoke it: no renewal, resubmission or overtaken
\* review leaves the end of an earlier document (track_verified_until).
ApprovalLastsAsItsDocument ==
  row # None /\ row.status = "approved" => row.until \in {None, Expiry[row.filed]}

\* One check never has two wallets on the record, however often its applicant
\* links another one and reviewers attest and revoke it (attestSubmission,
\* revokeSubmissionAttestation, attachOwnKycWallet).
OneWalletOnRecord ==
  \A w, x \in Wallets : record[w] # None /\ record[x] # None => w = x

=============================================================================
