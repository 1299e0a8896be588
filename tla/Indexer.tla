------------------------------ MODULE Indexer ------------------------------
(***************************************************************************)
(* The event indexer (src/src/lib/indexer-scan.ts, event-indexer.ts and    *)
(* data/events.ts): scheduled passes read the factory's and the vaults'    *)
(* events from an RPC node that keeps a bounded history, mirror each vault *)
(* into the projects table, and move a cursor.  A pass may meet a failed   *)
(* or partial page, a handler that throws half way, a write that fails, or *)
(* a restart, between any two of its steps; what it recorded stays.        *)
(*                                                                         *)
(* An event says when to look at a vault, never what to write: a row       *)
(* mirrors the vault as of the ledger it was read at, and that ledger is   *)
(* all the model keeps of it.                                              *)
(***************************************************************************)
EXTENDS Integers, FiniteSets

CONSTANTS
  Vaults,         \* the vaults the factory may deploy
  Factory,        \* the factory contract
  None,           \* no row, no cursor, no failed ledger
  CHUNK,          \* contracts in one request
  MAX_ATTEMPTS,   \* passes that may try one event
  COLD_START,     \* ledgers a pass without a cursor looks back
  Retention,      \* ledgers the RPC node keeps
  MaxLedger,      \* bound: the last ledger
  MaxOps,         \* bound: vault operations in one ledger
  MaxFaults       \* bound: failed reads and restarts

\* A mirrored vault: what the row is filed under, and the ledger it shows.
Row == [id : {"project", "address"}, seen : Nat]

ASSUME IndexerAssumption ==
  /\ Factory \notin Vaults /\ None \notin Vaults /\ None # Factory
  /\ None \notin Int /\ None \notin Row
  /\ CHUNK \in Nat \ {0} /\ MAX_ATTEMPTS \in Nat \ {0} /\ COLD_START \in Nat /\ Retention \in Nat \ {0}
  /\ MaxLedger \in Nat /\ MaxOps \in Nat /\ MaxFaults \in Nat

VARIABLES
  (* the chain, as the RPC node serves it *)
  chain,        \* the events of the closed ledgers
  latest,       \* the last closed ledger
  (* the database *)
  cursor,       \* indexer_state.last_processed_ledger
  attempts,     \* contract_events: attempts of each recorded event
  handled,      \* contract_events: those with processed_at
  rows,         \* projects and project_milestones, per vault
  (* the pass under way *)
  phase,        \* "idle", "pass", "handling" or "ending"
  start,        \* startLedger
  toRead,       \* contracts still to be scanned, each with its first ledger
  watched,      \* contracts scanned or to be scanned
  got,          \* events read and not yet dealt with
  through,      \* scannedThrough
  handledTo,    \* handledThrough
  failedAt,     \* failedLedger
  faults,       \* failed reads and restarts so far
  (* history, read by properties only *)
  missed        \* events a pass was in no position to read

chainVars == <<chain, latest>>
dbVars    == <<cursor, attempts, handled, rows>>
scanVars  == <<start, toRead, watched, through>>
vars      == <<chainVars, dbVars, phase, scanVars, got, handledTo, failedAt, faults, missed>>

-----------------------------------------------------------------------------
(***************************************************************************)
(* The chain                                                               *)
(***************************************************************************)

\* create_vault emits the new vault's opening events, then the factory's
\* DEPLOY; every other operation emits one event of the vault it changes.
Kinds    == {"DEPLOY", "OPENING", "CHANGE"}
Event    == [vault : Vaults, kind : Kinds, ledger : 1..MaxLedger, op : 1..MaxOps]
Source(e) == IF e.kind = "DEPLOY" THEN Factory ELSE e.vault

Deployed(v)  == \E e \in chain : e.vault = v
DeployOf(v)  == CHOOSE e \in chain : e.vault = v /\ e.kind = "DEPLOY"
OldestLedger == IF latest > Retention THEN latest - Retention + 1 ELSE 1

\* The operations of one ledger, in order, each naming the vault it is about;
\* `first` says which of them is the vault's first.
EventsOf(ops, first, closing) ==
  {e \in Event :
     /\ e.ledger = closing /\ e.op \in DOMAIN ops /\ ops[e.op] = e.vault
     /\ (e.kind = "CHANGE") <=> (Deployed(e.vault) \/ e.op > first[e.vault])}

CloseLedger ==
  /\ latest < MaxLedger
  /\ \E n \in 0..MaxOps : \E ops \in [1..n -> Vaults], first \in [Vaults -> 1..MaxOps] :
       /\ \A i \in 1..n : first[ops[i]] <= i /\ ops[first[ops[i]]] = ops[i]
       /\ chain' = chain \cup EventsOf(ops, first, latest + 1)
  /\ latest' = latest + 1
  /\ UNCHANGED <<dbVars, phase, scanVars, got, handledTo, failedAt, faults, missed>>

LogOrder(a, b) ==
  \/ a.ledger < b.ledger
  \/ a.ledger = b.ledger /\ a.op < b.op
  \/ a.ledger = b.ledger /\ a.op = b.op /\ a.kind # "DEPLOY" /\ b.kind = "DEPLOY"

\* Ledger and operation order; within an operation, DEPLOY first.
ChainOrder(a, b) ==
  \/ a.ledger < b.ledger
  \/ a.ledger = b.ledger /\ a.op < b.op
  \/ a.ledger = b.ledger /\ a.op = b.op /\ a.kind = "DEPLOY" /\ b.kind # "DEPLOY"

-----------------------------------------------------------------------------
(***************************************************************************)
(* The database                                                            *)
(***************************************************************************)
Known       == {v \in Vaults : rows[v] # None}
Attempts(e) == IF e \in DOMAIN attempts THEN attempts[e] ELSE 0
IsNext(e)   == e \in got /\ \A f \in got : ~ChainOrder(f, e)

RecordedAttempt(e) == 1
CountedAttempt(e)  == Attempts(e) + 1

\* Every attempt was made, none is under way, and none succeeded.
GivenUp(e) ==
  e \notin handled /\ Attempts(e) >= MAX_ATTEMPTS /\ ~(phase = "handling" /\ IsNext(e))

\* The row is keyed by the vault; only DEPLOY knows the project's id.
ProjectId(e) ==
  IF e.kind = "DEPLOY" THEN "project"
  ELSE IF rows[e.vault] = None THEN "address" ELSE rows[e.vault].id

RowOfANewVault(e, both) ==
  IF rows[e.vault] # None THEN rows[e.vault] ELSE [id |-> ProjectId(e), seen |-> latest]

\* The project and its milestones are two upserts of what was read once; a row
\* mirrors the vault as of the ledger of the last read that both stored.
RowFor(e, both) ==
  [id |-> ProjectId(e),
   seen |-> IF both THEN latest
            ELSE IF rows[e.vault] = None THEN 0 ELSE rows[e.vault].seen]

-----------------------------------------------------------------------------
(***************************************************************************)
(* One pass                                                                *)
(***************************************************************************)
Idle ==
  /\ phase' = "idle"
  /\ start' = 0 /\ toRead' = {} /\ watched' = {} /\ got' = {}
  /\ through' = 0 /\ handledTo' = 0 /\ failedAt' = None

Fault == faults < MaxFaults /\ faults' = faults + 1

Larger(a, b)  == IF a >= b THEN a ELSE b
Smaller(a, b) == IF a <= b THEN a ELSE b

StartAtCursor(stored) ==
  IF stored = None THEN latest - COLD_START ELSE stored + 1

StartLedger(stored) ==
  Larger(OldestLedger, IF stored = None THEN latest - COLD_START ELSE stored + 1)

StartFrom(stored, listed) ==
  LET first == StartLedger(stored) IN
  /\ phase = "idle"
  /\ first <= latest
  /\ IF stored = cursor /\ listed = Known THEN UNCHANGED faults ELSE Fault
  /\ start' = first
  /\ toRead' = {<<c, first>> : c \in {Factory} \cup listed}
  /\ watched' = {Factory} \cup listed
  /\ handledTo' = first - 1
  /\ through' = latest
  /\ missed' = missed
       \cup {e \in chain : e.ledger < first /\ (cursor = None \/ e.ledger > cursor)}
       \cup {e \in chain : e.vault \in Known \ listed /\ e.kind # "DEPLOY"}
  /\ phase' = "pass"
  /\ UNCHANGED <<chainVars, dbVars, got, failedAt>>

\* The cursor and the list of vaults are read without looking at the error: a
\* failed read is no cursor, and no vaults.
Start == \E stored \in {cursor, None}, listed \in {Known, {}} : StartFrom(stored, listed)

\* What a group of contracts emitted from `from` on, up to a point: all of the
\* ledgers through `last`, and the first `op` operations of the one after it.
PagesOf(group, from, last, op) ==
  {e \in chain : /\ \E c \in group : c[1] = Source(e)
                 /\ e.ledger >= from
                 /\ e.ledger <= last \/ (e.ledger = last + 1 /\ e.op <= op)}

\* One group of contracts is read to the latest ledger, or to anywhere short of
\* it.  A ledger the node has dropped is refused.  A vault whose DEPLOY it met
\* is read too, from there.
ReadPages(group, from, last, op) ==
  LET read  == PagesOf(group, from, last, op)
      found == {e \in read : e.kind = "DEPLOY" /\ e.vault \notin watched}
  IN /\ phase = "pass"
     /\ Cardinality(group) = Smaller(CHUNK, Cardinality(toRead))
     /\ \E c \in group : c[2] = from
     /\ \A c \in group : c[2] >= from
     /\ from < OldestLedger => last = from - 1
     /\ last \in {from - 1, latest} => op = 0
     /\ IF last = latest \/ from < OldestLedger THEN UNCHANGED faults ELSE Fault
     /\ got' = got \cup read
     /\ through' = Smaller(through, last)
     /\ watched' = watched \cup {e.vault : e \in found}
     /\ toRead' = (toRead \ group) \cup {<<e.vault, e.ledger>> : e \in found}
     /\ UNCHANGED <<chainVars, dbVars, phase, start, handledTo, failedAt, missed>>

ScanGroup ==
  \E group \in SUBSET toRead, from \in 1..MaxLedger :
    \E last \in (from - 1)..latest, op \in 0..MaxOps : ReadPages(group, from, last, op)

\* An event dealt with in an earlier pass, one way or the other.
Skip ==
  /\ phase = "pass" /\ toRead = {}
  /\ \E e \in got :
       /\ IsNext(e)
       /\ e \in handled \/ GivenUp(e)
       /\ handledTo' = Larger(handledTo, e.ledger)
       /\ got' = got \ {e}
  /\ UNCHANGED <<chainVars, dbVars, phase, scanVars, failedAt, faults, missed>>

\* Recorded, and the attempt counted, before the handler runs.
Attempt ==
  /\ phase = "pass" /\ toRead = {}
  /\ \E e \in got :
       /\ IsNext(e)
       /\ e \notin handled /\ ~GivenUp(e)
       /\ attempts' = [f \in DOMAIN attempts \cup {e} |->
                         IF f = e THEN CountedAttempt(e) ELSE attempts[f]]
  /\ phase' = "handling"
  /\ UNCHANGED <<chainVars, cursor, handled, rows, scanVars, got, handledTo, failedAt, faults, missed>>

\* The handler's two upserts and the mark: nobody else writes these rows
\* during a pass, so how far they got matters only where they stop.
Handle ==
  /\ phase = "handling"
  /\ \E e \in got :
       /\ IsNext(e)
       /\ rows' = [rows EXCEPT ![e.vault] = RowFor(e, TRUE)]
       /\ handled' = handled \cup {e}
       /\ handledTo' = Larger(handledTo, e.ledger)
       /\ got' = got \ {e}
  /\ phase' = "pass"
  /\ UNCHANGED <<chainVars, cursor, attempts, scanVars, failedAt, faults, missed>>

\* The handler throws before, between or after its upserts, or the mark fails.
Fail ==
  /\ phase = "handling"
  /\ \E e \in got :
       /\ IsNext(e)
       /\ failedAt' = e.ledger
       /\ got' = {}
       /\ \/ UNCHANGED rows
          \/ \E both \in BOOLEAN : rows' = [rows EXCEPT ![e.vault] = RowFor(e, both)]
  /\ phase' = "ending"
  /\ UNCHANGED <<chainVars, cursor, attempts, handled, scanVars, handledTo, faults, missed>>

CursorAtFailure ==
  IF failedAt = None THEN through ELSE Smaller(failedAt, through)

CursorAfterPass ==
  IF failedAt = None THEN through
  ELSE Smaller(Smaller(handledTo, failedAt - 1), through)

End ==
  /\ phase = "ending" \/ (phase = "pass" /\ toRead = {} /\ got = {})
  /\ cursor' = IF CursorAfterPass >= start THEN CursorAfterPass ELSE cursor
  /\ Idle
  /\ UNCHANGED <<chainVars, attempts, handled, rows, faults, missed>>

\* A restart, or a database error outside a handler: the pass is gone, with no
\* cursor of its own.
Crash ==
  /\ phase # "idle"
  /\ Fault
  /\ Idle
  /\ UNCHANGED <<chainVars, dbVars, missed>>

Init ==
  /\ chain = {} /\ latest = 0
  /\ cursor = None
  /\ attempts = [e \in {} |-> 0]
  /\ handled = {}
  /\ rows = [v \in Vaults |-> None]
  /\ phase = "idle"
  /\ start = 0 /\ toRead = {} /\ watched = {} /\ got = {}
  /\ through = 0 /\ handledTo = 0 /\ failedAt = None
  /\ faults = 0
  /\ missed = {}

Pass == Start \/ ScanGroup \/ Skip \/ Attempt \/ Handle \/ Fail \/ End
Next == CloseLedger \/ Pass \/ Crash
Spec == Init /\ [][Next]_vars

\* The cron starts a pass every minute, and a pass that runs goes on.  Nothing
\* promises that a handler ever succeeds.
FairSpec == Spec /\ WF_vars(Pass) /\ WF_vars(CloseLedger)

-----------------------------------------------------------------------------
(***************************************************************************)
(* Properties                                                              *)
(***************************************************************************)
TypeOK ==
  /\ chain \in SUBSET Event /\ latest \in 0..MaxLedger
  /\ cursor \in Nat \cup {None}
  /\ DOMAIN attempts \in SUBSET chain /\ \A e \in DOMAIN attempts : attempts[e] \in 1..MAX_ATTEMPTS
  /\ handled \in SUBSET DOMAIN attempts
  /\ rows \in [Vaults -> Row \cup {None}]
  /\ phase \in {"idle", "pass", "handling", "ending"}
  /\ start \in 0..MaxLedger /\ handledTo \in 0..MaxLedger /\ through \in 0..MaxLedger
  /\ watched \in SUBSET ({Factory} \cup Vaults)
  /\ toRead \in SUBSET (watched \X (1..MaxLedger))
  /\ got \in SUBSET chain
  /\ failedAt \in (1..MaxLedger) \cup {None}
  /\ faults \in 0..MaxFaults
  /\ missed \in SUBSET chain

Lost(e)      == GivenUp(e) \/ e \in missed
Explained(e) == e \in handled \/ Lost(e) \/ Lost(DeployOf(e.vault))

\* The cursor never moves past an event that could still be retried: whatever
\* failed, stopped half way or restarted, an event behind the cursor was
\* handled, or was tried MAX_ATTEMPTS times, or was out of the pass's reach,
\* or belongs to a vault whose DEPLOY was (handleEvents, cursorAfterPass).
CursorPassesOnlySettledEvents ==
  cursor # None => \A e \in chain : e.ledger <= cursor => Explained(e)

\* An event marked handled is in the mirror: the project and its milestones
\* show the vault as it was after that event or later, never before it.
HandledIsMirrored ==
  \A e \in handled : rows[e.vault] # None /\ rows[e.vault].seen >= e.ledger

\* A project is filed under its vault's address only when its DEPLOY had used
\* up its attempts: not because the vault's own events come before it in the
\* log, nor because a pass stopped between them (chainOrder).
FiledUnderItsProject ==
  \A v \in Known : rows[v].id = "address" => GivenUp(DeployOf(v))

\* One event that always fails holds nobody up for ever: once ledgers stop
\* closing, every event is settled, whatever the handlers do (MAX_ATTEMPTS).
EveryEventSettled == <>[](\A e \in chain : Explained(e))

\* What is settled stays settled: an event that was handled, given up or out of
\* reach is never owed again, whatever passes, failures or restarts follow
\* (recordEvent, markHandled, countAttempt).
SettledForGood == [][\A e \in chain : Explained(e) => Explained(e)']_vars

\* The mirror never goes back: no retry, replay from an older cursor or half
\* finished handler removes a row, shows an older vault than the row did, or
\* files a project under its address again (syncVault).
MirrorNeverGoesBack ==
  [][\A v \in Known :
       /\ rows'[v] # None
       /\ rows'[v].seen >= rows[v].seen
       /\ rows[v].id = "project" => rows'[v].id = "project"]_vars

\* Where nothing was lost the mirror is whole: every vault with an event behind
\* the cursor has its row, under its project, showing that event.
NothingLostIsMirrored ==
  cursor # None /\ (\A e \in chain : ~Lost(e)) =>
    \A e \in chain : e.ledger <= cursor =>
      /\ rows[e.vault] # None
      /\ rows[e.vault].seen >= e.ledger /\ rows[e.vault].id = "project"

=============================================================================
