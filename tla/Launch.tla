------------------------------- MODULE Launch -------------------------------
(***************************************************************************)
(* Opening a vault from the browser: ListingForm's launch with its record  *)
(* of a launch in flight (src/src/lib/launch-in-flight.ts) and its guards  *)
(* against a second vault (src/src/lib/vault-deploy-guard.ts).  The pages  *)
(* of one browser share one record.  Any of them may be reloaded at any    *)
(* point, any answer of the RPC node may be missing, and the network       *)
(* applies a launch when it likes, up to its deadline.                     *)
(*                                                                         *)
(* A draft is the CID of the metadata it pins.  Checks that send nothing   *)
(* and change nothing (identity, funds, uploads, simulation, review) end   *)
(* the attempt or let it go on.                                            *)
(***************************************************************************)
EXTENDS Integers, FiniteSets

CONSTANTS
  Pages,          \* the open pages of one browser
  Wallets,        \* the wallets it connects
  Cids,           \* metadata CIDs of the drafts
  Launches,       \* bound: the transactions sent
  None,
  TIMEOUT,        \* how long a signed transaction stays valid
  EXPIRY_GRACE,   \* EXPIRY_GRACE_MS
  ASK_FOR,        \* ASK_FOR_MS
  Lag,            \* until an RPC node reports what the network applied
  Keep,           \* how long it goes on reporting it
  MaxTime         \* bound: the clock stops here

Attempt == [wallet : Wallets, cid : Cids, seq : Nat, aware : SUBSET Launches]
Tx      == [creator : Wallets, cid : Cids, seq : Nat, aware : SUBSET Launches,
            expires : Nat, at : Nat, status : {"pending", "SUCCESS", "FAILED"}]
Record  == [launch : Launches, sentAt : Nat]

ASSUME LaunchAssumption ==
  /\ None \notin Launches /\ None \notin Attempt /\ None \notin Tx /\ None \notin Record
  /\ TIMEOUT \in Nat /\ MaxTime \in Nat
  /\ Lag \in Nat /\ EXPIRY_GRACE \in Nat \ {0} /\ EXPIRY_GRACE >= Lag
  /\ ASK_FOR \in Nat /\ Keep \in Nat

VARIABLES
  now,       \* the clock
  txs,       \* the transactions sent to the network
  seq,       \* each account's sequence number
  stored,    \* localStorage: the launch in flight
  stage,     \* where each page is
  attempt,   \* what its launch() works on
  mine,      \* the launch it has sent or asks about
  answered,  \* the node has answered it at least once
  (* history, read by properties only *)
  told,      \* launches the builder was told have opened a vault
  lost       \* launches of which no trace was kept

network == <<now, txs, seq>>
page    == <<stage, attempt, mine, answered>>
history == <<told, lost>>
vars    == <<network, stored, page, history>>

Asking == {"arriving", "prior", "asking"}
Stages == Asking \cup {"idle", "checks", "build", "review", "sending", "confirming"}

-----------------------------------------------------------------------------
(***************************************************************************)
(* The network                                                             *)
(***************************************************************************)
Sent    == {i \in Launches : txs[i] # None}
Applied == {i \in Sent : txs[i].status = "SUCCESS"}

\* A transaction is applied by its deadline, in its account's order.
Apply(i, status) ==
  /\ i \in Sent
  /\ txs[i].status = "pending" /\ now <= txs[i].expires
  /\ txs[i].seq = seq[txs[i].creator] + 1
  /\ txs' = [txs EXCEPT ![i].status = status, ![i].at = now]
  /\ seq' = [seq EXCEPT ![txs[i].creator] = @ + 1]
  /\ UNCHANGED <<now, stored, page, history>>

Tick ==
  /\ now < MaxTime
  /\ now' = now + 1
  /\ UNCHANGED <<txs, seq, stored, page, history>>

Decided(i)   == txs[i].status # "pending"
Forgotten(i) == Decided(i) /\ now > txs[i].at + Keep

\* What getTransaction may say: nothing, that it does not know the launch, or
\* what became of it.  A node reports late, and not for ever.
Answers(i) ==
  LET known    == Decided(i) /\ ~Forgotten(i)
      reported == known /\ now >= txs[i].at + Lag
  IN {"silence"} \cup (IF known THEN {txs[i].status} ELSE {})
                 \cup (IF reported THEN {} ELSE {"NOT_FOUND"})

-----------------------------------------------------------------------------
(***************************************************************************)
(* The record                                                              *)
(***************************************************************************)
\* recalledLaunch: a record too old to ask about is dropped.
Recall == IF stored # None /\ now - stored.sentAt > ASK_FOR THEN None ELSE stored

\* forgetLaunch(hash): only that launch.
Forget(i) == IF Recall # None /\ Recall.launch = i THEN None ELSE Recall

\* The launch whose record gives way to `kept`, unless its outcome is known.
Displaced(kept, settled) ==
  IF stored = None \/ kept = stored \/ stored.launch \in settled THEN {} ELSE {stored.launch}

Keeping(kept, settled) ==
  /\ stored' = kept
  /\ lost' = lost \cup Displaced(kept, settled)

-----------------------------------------------------------------------------
(***************************************************************************)
(* What became of a launch                                                 *)
(***************************************************************************)
GiveUpAtDeadline(i) == txs[i].expires
GiveUpAt(i)         == txs[i].expires + EXPIRY_GRACE

GoesOnIfNotOpened(outcome) == outcome # "SUCCESS"

\* settlePriorLaunch: whether a new launch may go ahead.
MayGoAhead(outcome) == outcome \in {"FAILED", "EXPIRED"}

ForgetsUnanswered(p, i, outcome) ==
  IF outcome = "SUCCESS" /\ stage[p] \in {"confirming", "asking"} THEN None ELSE Forget(i)

\* announceLaunched forgets whatever is remembered; every other report forgets
\* the launch it is about, or, without an answer, nothing.
RecordAfter(p, i, outcome) ==
  IF outcome = "UNKNOWN" THEN stored
  ELSE IF outcome = "SUCCESS" /\ stage[p] \in {"confirming", "asking"} THEN None
  ELSE Forget(i)

\* The page says what became of its launch, or of the one it asked about.
Report(p, outcome) ==
  LET i == mine[p] IN
  /\ stored' = RecordAfter(p, i, outcome)
  /\ told' = IF outcome = "SUCCESS" THEN told \cup {i} ELSE told
  /\ mine' = [mine EXCEPT ![p] = None]
  /\ answered' = [answered EXCEPT ![p] = FALSE]
  /\ IF stage[p] = "prior" /\ MayGoAhead(outcome)
     THEN stage' = [stage EXCEPT ![p] = "checks"] /\ UNCHANGED attempt
     ELSE stage' = [stage EXCEPT ![p] = "idle"] /\ attempt' = [attempt EXCEPT ![p] = None]

Final == {"SUCCESS", "FAILED"}

OpenedIfFound(answer, heard) ==
  IF answer \in Final THEN "SUCCESS" ELSE IF heard THEN "EXPIRED" ELSE "UNKNOWN"

Outcome(answer, heard) ==
  IF answer \in Final THEN answer ELSE IF heard THEN "EXPIRED" ELSE "UNKNOWN"

\* One turn of resolveSubmittedLaunch's loop.  Any answer it ever had makes
\* EXPIRED of what would be UNKNOWN: `lost` notes the launches given up on when
\* the node was silent at the end, or had already forgotten them.
Poll(p) ==
  /\ stage[p] \in Asking
  /\ \E answer \in Answers(mine[p]) :
       LET i == mine[p]
           heard == answered[p] \/ answer # "silence"
           outcome == Outcome(answer, heard)
       IN IF answer \in Final \/ now >= GiveUpAt(i)
          THEN /\ Report(p, outcome)
               /\ lost' = lost \cup Displaced(RecordAfter(p, i, outcome), {i})
                     \cup {l \in {i} : outcome = "EXPIRED" /\ (answer = "silence" \/ Forgotten(i))}
          ELSE /\ answered' = [answered EXCEPT ![p] = heard]
               /\ UNCHANGED <<stored, stage, attempt, mine, history>>
  /\ UNCHANGED network

-----------------------------------------------------------------------------
(***************************************************************************)
(* A page                                                                  *)
(***************************************************************************)
Ask(p, i, why) ==
  /\ stage' = [stage EXCEPT ![p] = why]
  /\ mine' = [mine EXCEPT ![p] = i]
  /\ answered' = [answered EXCEPT ![p] = FALSE]

\* Loaded again, whatever it was doing; a launch it has not heard from yet
\* leaves no trace.  On arrival it asks about the launch on record.
Reload(p) ==
  /\ stored' = Recall
  /\ lost' = lost \cup Displaced(Recall, {})
                  \cup (IF stage[p] = "sending" THEN {mine[p]} ELSE {})
  /\ IF Recall # None THEN Ask(p, Recall.launch, "arriving") ELSE Ask(p, None, "idle")
  /\ attempt' = [attempt EXCEPT ![p] = None]
  /\ UNCHANGED <<network, told>>

\* Launches of a wallet the record ought to tell a new attempt about: those
\* the network has confirmed receiving and whose trace was kept.
InSending(i)   == \E p \in Pages : stage[p] = "sending" /\ mine[p] = i
Accountable(w) == {i \in Sent \ lost : txs[i].creator = w /\ ~InSending(i)}

\* Review is pressed: first, a launch this wallet sent before.
Press(p, w, c) ==
  /\ stage[p] = "idle"
  /\ Keeping(Recall, {})
  /\ attempt' = [attempt EXCEPT ![p] =
       [wallet |-> w, cid |-> c, seq |-> 0,
        aware |-> Accountable(w) \ Displaced(Recall, {})]]
  /\ IF Recall # None /\ txs[Recall.launch].creator = w
     THEN Ask(p, Recall.launch, "prior")
     ELSE Ask(p, None, "checks")
  /\ UNCHANGED <<network, told>>

\* Refused or cancelled anywhere before the signature.
Stop(p) ==
  /\ stage[p] \in {"checks", "build", "review"}
  /\ Ask(p, None, "idle")
  /\ attempt' = [attempt EXCEPT ![p] = None]
  /\ UNCHANGED <<network, stored, history>>

StopsNever(found) == FALSE
StopsAt(found)    == found # {}

\* findDeployedVault: this wallet's vaults with this CID, as far as each of
\* them can be read.
Dedupe(p) ==
  LET same == {i \in Applied : txs[i].creator = attempt[p].wallet /\ txs[i].cid = attempt[p].cid}
  IN /\ stage[p] = "checks"
     /\ \E found \in SUBSET same :
          IF StopsAt(found)
          THEN /\ stored' = None
               /\ lost' = lost \cup Displaced(None, found)
               /\ told' = told \cup found
               /\ Ask(p, None, "idle")
               /\ attempt' = [attempt EXCEPT ![p] = None]
          ELSE /\ lost' = lost \ found
               /\ Ask(p, None, "build")
               /\ attempt' = [attempt EXCEPT ![p].aware = @ \cup found]
               /\ UNCHANGED <<stored, told>>
     /\ UNCHANGED network

Build(p) ==
  /\ stage[p] = "build"
  /\ attempt' = [attempt EXCEPT ![p].seq = seq[attempt[p].wallet] + 1]
  /\ Ask(p, None, "review")
  /\ UNCHANGED <<network, stored, history>>

\* Reviewed, signed and accepted by the network.
Submit(p, i) ==
  /\ stage[p] = "review"
  /\ txs[i] = None
  /\ now + TIMEOUT + EXPIRY_GRACE <= MaxTime
  /\ txs' = [txs EXCEPT ![i] =
       [creator |-> attempt[p].wallet, cid |-> attempt[p].cid, seq |-> attempt[p].seq,
        aware |-> attempt[p].aware, expires |-> now + TIMEOUT, at |-> 0, status |-> "pending"]]
  /\ Ask(p, i, "sending")
  /\ UNCHANGED <<now, seq, stored, attempt, history>>

\* onSubmitted: written down the moment the network's acceptance is known.
Remember(p) ==
  /\ stage[p] = "sending"
  /\ Keeping([launch |-> mine[p], sentAt |-> now], {mine[p]})
  /\ Ask(p, mine[p], "confirming")
  /\ UNCHANGED <<network, attempt, told>>

\* Accepted, but the answer was lost: reported as never sent.
LoseAnswer(p) ==
  /\ stage[p] = "sending"
  /\ lost' = lost \cup {mine[p]}
  /\ Ask(p, None, "idle")
  /\ attempt' = [attempt EXCEPT ![p] = None]
  /\ UNCHANGED <<network, stored, told>>

\* signAndSend ends with the network's answer.
Confirm(p) ==
  /\ stage[p] = "confirming"
  /\ \E answer \in Answers(mine[p]) \cap Final :
       /\ Report(p, answer)
       /\ lost' = lost \cup Displaced(RecordAfter(p, mine[p], answer), {mine[p]})
  /\ UNCHANGED network

\* signAndSend ends with an error: the page asks until it knows.
Doubt(p) ==
  /\ stage[p] = "confirming"
  /\ Ask(p, mine[p], "asking")
  /\ UNCHANGED <<network, stored, attempt, history>>

-----------------------------------------------------------------------------
Init ==
  /\ now = 0
  /\ txs = [i \in Launches |-> None]
  /\ seq = [w \in Wallets |-> 0]
  /\ stored = None
  /\ stage = [p \in Pages |-> "idle"]
  /\ attempt = [p \in Pages |-> None]
  /\ mine = [p \in Pages |-> None]
  /\ answered = [p \in Pages |-> FALSE]
  /\ told = {} /\ lost = {}

Network == Tick \/ \E i \in Launches, status \in {"SUCCESS", "FAILED"} : Apply(i, status)

Next ==
  \/ Network
  \/ \E p \in Pages :
       \/ Poll(p) \/ Reload(p) \/ Stop(p) \/ Dedupe(p) \/ Build(p)
       \/ Remember(p) \/ LoseAnswer(p) \/ Confirm(p) \/ Doubt(p)
       \/ \E w \in Wallets, c \in Cids : Press(p, w, c)
       \/ \E i \in Launches : Submit(p, i)

Spec == Init /\ [][Next]_vars

-----------------------------------------------------------------------------
(***************************************************************************)
(* Properties                                                              *)
(***************************************************************************)
TypeOK ==
  /\ now \in 0..MaxTime
  /\ txs \in [Launches -> Tx \cup {None}]
  /\ seq \in [Wallets -> Nat]
  /\ stored \in Record \cup {None}
  /\ stage \in [Pages -> Stages]
  /\ attempt \in [Pages -> Attempt \cup {None}]
  /\ mine \in [Pages -> Launches \cup {None}]
  /\ answered \in [Pages -> BOOLEAN]
  /\ told \in SUBSET Applied /\ lost \in SUBSET Sent

\* It has not opened a vault and never will.
NeverApplied(i) ==
  txs[i].status = "FAILED" \/ (txs[i].status = "pending" /\ now > txs[i].expires)

OnRecord(i) == stored # None /\ stored.launch = i

\* No wallet opens a second vault unawares: whatever was reloaded, answered
\* late or not at all, a launch that opened a vault had been reported by the
\* time the same wallet's next one was sent, or its trace had been lost
\* (launch, settlePriorLaunch, resolveSubmittedLaunch, findDeployedVault).
NoSecondVaultUnawares ==
  \A j \in Applied : \A i \in Applied \cap txs[j].aware : i \in told \cup lost

\* A launch that has opened a vault, or still may, is on record, or its page
\* is waiting for the network to take it, or the builder was told, or its trace
\* was lost: nothing else makes this browser forget it (rememberLaunch,
\* forgetLaunch, settlePriorLaunch).
InFlightIsOnRecord ==
  \A i \in Sent \ (told \cup lost) :
    NeverApplied(i) \/ OnRecord(i) \/ InSending(i)

\* resolveSubmittedLaunch's comment: past its deadline and still not found, it
\* was never applied, and a fresh launch is safe.  A page that asked about the
\* launch on record forgets it only then, or having told the builder of it.
FreshLaunchIsSafe ==
  [][\A p \in Pages :
       /\ stage[p] \in Asking /\ stage'[p] # stage[p]
       /\ Recall # None /\ Recall.launch = mine[p] /\ stored' = None
       => mine[p] \in told' \/ mine[p] \notin Applied]_vars

\* What of resolveSubmittedLaunch's comment holds: asked once its deadline and
\* the grace are over, a node that remembers and says it does not know a launch
\* is right that the launch never opened a vault and never will.
NotFoundPastDeadlineIsFinal ==
  \A i \in Sent :
    now >= GiveUpAt(i) /\ ~Forgotten(i) /\ "NOT_FOUND" \in Answers(i) => NeverApplied(i)

\* A page that stops asking about the launch on record and clears the record
\* has told the builder of the vault, or the launch can open none any more, or
\* it was given up on a node that had gone silent or had forgotten it.
ForgottenOnlyWhenSettled ==
  [][\A p \in Pages, i \in Sent :
       /\ stage[p] \in Asking /\ mine[p] = i /\ stage'[p] # stage[p]
       /\ Recall # None /\ Recall.launch = i /\ stored' = None
       => i \in told' \cup lost' \/ NeverApplied(i)']_vars

\* What can open no vault never does, whatever the pages and the network do
\* from there on.
NeverAppliedForGood == [][\A i \in Sent : NeverApplied(i) => NeverApplied(i)']_vars

=============================================================================
