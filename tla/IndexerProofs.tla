--------------------------- MODULE IndexerProofs ---------------------------
(***************************************************************************)
(* Proofs about Indexer, for any vaults, bounds and retention.             *)
(***************************************************************************)
EXTENDS Indexer, TLAPS

\* The log: every event closed, one operation per place, and each vault's
\* events behind one DEPLOY.
AllClosed  == \A e \in chain : e.ledger <= latest
OnePerPlace ==
  \A e, f \in chain :
     e.ledger = f.ledger /\ e.op = f.op =>
       e.vault = f.vault /\ ((e.kind = "CHANGE") <=> (f.kind = "CHANGE"))
OneDeploy ==
  \A d, e \in chain : d.kind = "DEPLOY" /\ e.kind = "DEPLOY" /\ d.vault = e.vault => d = e
DeployFirst ==
  \A e \in chain : \E d \in chain :
     d.kind = "DEPLOY" /\ d.vault = e.vault /\ (d = e \/ ChainOrder(d, e))
ChainInv == AllClosed /\ OnePerPlace /\ OneDeploy /\ DeployFirst

\* Between passes nothing of a pass is left; within one, the range starts in
\* the past, and nothing failed before the end.
ShapeInv ==
  /\ cursor # None => cursor <= latest
  /\ phase = "idle" => got = {} /\ toRead = {} /\ watched = {}
  /\ phase # "idle" => start \in 1..latest /\ through <= latest
  /\ phase \in {"idle", "pass", "handling"} => failedAt = None
  /\ phase = "handling" =>
        toRead = {} /\ \E e \in DOMAIN attempts \ handled : IsNext(e)
  /\ phase = "ending" => failedAt # None /\ toRead = {} /\ got = {}

\* A contract whose scan of `e`'s ledger is still to come.
Pending(e) == \E c \in toRead : c[1] = Source(e) /\ c[2] <= e.ledger

\* A vault still to be discovered by reading the factory.
Undiscovered(e) ==
  /\ e.vault \notin watched
  /\ <<Factory, start>> \in toRead
  /\ DeployOf(e.vault).ledger >= start

\* What a pass owes: everything before its range is accounted for, and within
\* what every group was scanned through, so is everything not still at hand.
PassInv ==
  /\ phase # "idle" => \A e \in chain : e.ledger < start => Explained(e)
  /\ phase \in {"pass", "handling"} =>
       /\ \A e \in chain :
            e.ledger >= start /\ e.ledger <= through =>
              e \in got \/ Explained(e) \/ Pending(e) \/ Undiscovered(e)
       /\ \A c \in toRead : c[2] >= start
       /\ \A c \in toRead : c[1] = Factory => c[2] = start
  /\ phase = "ending" =>
       \A e \in chain :
         e.ledger >= start /\ e.ledger <= through /\ e.ledger < failedAt => Explained(e)

\* A vault is read only with its row there, its DEPLOY at hand or given up.
WatchInv ==
  \A v \in watched \cap Vaults :
     phase \in {"pass", "handling"} =>
       \/ rows[v] # None
       \/ \E d \in chain : /\ d.kind = "DEPLOY" /\ d.vault = v
                           /\ d \in got \/ GivenUp(d)

GotInv == \A e \in got : Source(e) \in watched

KnownInv == \A v \in Vaults : rows[v] # None => Deployed(v)

IndInv ==
  /\ TypeOK /\ ChainInv /\ ShapeInv /\ HandledIsMirrored
  /\ CursorPassesOnlySettledEvents /\ PassInv
  /\ WatchInv /\ GotInv /\ KnownInv /\ FiledUnderItsProject

-----------------------------------------------------------------------------
(***************************************************************************)
(* The log                                                                 *)
(***************************************************************************)

LEMMA DeployFacts ==
  ASSUME chain \subseteq Event, ChainInv, NEW e \in chain
  PROVE  /\ DeployOf(e.vault) \in chain
         /\ DeployOf(e.vault).kind = "DEPLOY" /\ DeployOf(e.vault).vault = e.vault
         /\ DeployOf(e.vault) = e \/ ChainOrder(DeployOf(e.vault), e)
         /\ DeployOf(e.vault).ledger <= e.ledger
<1>1. PICK d \in chain : /\ d.kind = "DEPLOY" /\ d.vault = e.vault
                         /\ d = e \/ ChainOrder(d, e)
  BY DEF ChainInv, AllClosed, OnePerPlace, OneDeploy, DeployFirst
<1>2. /\ DeployOf(e.vault) \in chain
      /\ DeployOf(e.vault).kind = "DEPLOY" /\ DeployOf(e.vault).vault = e.vault
  BY <1>1 DEF DeployOf
<1>3. DeployOf(e.vault) = d
  BY <1>1, <1>2 DEF ChainInv, AllClosed, OnePerPlace, OneDeploy, DeployFirst
<1>4. d \in Event /\ e \in Event
  OBVIOUS
<1>5. d.ledger \in Int /\ e.ledger \in Int
  BY <1>4 DEF Event
<1>6. d.ledger <= e.ledger
  BY <1>1, <1>5 DEF ChainOrder
<1> QED BY <1>1, <1>2, <1>3, <1>6

\* Two events are in some order.
LEMMA OrderIsTotal ==
  ASSUME chain \subseteq Event, ChainInv, NEW e \in chain, NEW f \in chain, e # f
  PROVE  ChainOrder(e, f) \/ ChainOrder(f, e)
<1>1. /\ e \in Event /\ f \in Event
      /\ e.ledger \in Int /\ f.ledger \in Int /\ e.op \in Int /\ f.op \in Int
  BY DEF Event
<1>2. CASE e.ledger # f.ledger \/ e.op # f.op
  BY <1>1, <1>2 DEF ChainOrder
<1>3. CASE e.ledger = f.ledger /\ e.op = f.op
  <2>1. e.vault = f.vault /\ ((e.kind = "CHANGE") <=> (f.kind = "CHANGE"))
    BY <1>3 DEF ChainInv, AllClosed, OnePerPlace, OneDeploy, DeployFirst
  <2>2. e.kind # f.kind
    BY <1>1, <1>3, <2>1 DEF Event
  <2>3. e.kind \in Kinds /\ f.kind \in Kinds
    BY <1>1 DEF Event
  <2> QED BY <1>3, <2>1, <2>2, <2>3 DEF Kinds, ChainOrder
<1> QED BY <1>2, <1>3

LEMMA NextIsUnique ==
  ASSUME chain \subseteq Event, got \subseteq chain, ChainInv,
         NEW e, NEW f, IsNext(e), IsNext(f)
  PROVE  e = f
BY OrderIsTotal DEF IsNext

LEMMA NextIsFirst ==
  ASSUME chain \subseteq Event, got \subseteq chain, NEW e, IsNext(e), NEW f \in got
  PROVE  e.ledger <= f.ledger
<1>1. e \in Event /\ f \in Event
  BY DEF IsNext
<1>2. e.ledger \in Int /\ f.ledger \in Int
  BY <1>1 DEF Event
<1> QED BY <1>2 DEF IsNext, ChainOrder

-----------------------------------------------------------------------------
(***************************************************************************)
(* What is settled stays settled                                           *)
(***************************************************************************)

\* What a step may not take back.
Stays(e) ==
  /\ e \in handled => e \in handled'
  /\ GivenUp(e) => GivenUp(e)'
  /\ e \in missed => e \in missed'
  /\ e \in chain'
  /\ DeployOf(e.vault)' = DeployOf(e.vault)

LEMMA DeployStays ==
  ASSUME chain \subseteq Event, chain' \subseteq Event, ChainInv, ChainInv',
         chain \subseteq chain', NEW e \in chain
  PROVE  DeployOf(e.vault)' = DeployOf(e.vault)
<1>1. /\ DeployOf(e.vault) \in chain
      /\ DeployOf(e.vault).kind = "DEPLOY" /\ DeployOf(e.vault).vault = e.vault
  BY DeployFacts
<1>2. e \in chain'
  OBVIOUS
<1>3. \E d \in chain' : d.vault = e.vault /\ d.kind = "DEPLOY"
  BY <1>1
<1>4. DeployOf(e.vault)' \in chain' /\ DeployOf(e.vault)'.vault = e.vault
      /\ DeployOf(e.vault)'.kind = "DEPLOY"
  BY <1>3 DEF DeployOf
<1> QED BY <1>1, <1>4 DEF ChainInv, AllClosed, OnePerPlace, OneDeploy, DeployFirst

LEMMA GivenUpStays ==
  ASSUME TypeOK, ChainInv, ShapeInv, Next, NEW e \in chain, GivenUp(e)
  PROVE  GivenUp(e)'
<1> USE IndexerAssumption DEF GivenUp, Attempts, CountedAttempt
<1>1. CASE CloseLedger
  BY <1>1 DEF CloseLedger, dbVars, IsNext, ChainOrder
<1>2. CASE Start
  BY <1>2 DEF Start, StartFrom, chainVars, dbVars
<1>3. CASE ScanGroup
  BY <1>3 DEF ScanGroup, ReadPages, chainVars, dbVars
<1>4. CASE Skip
  BY <1>4 DEF Skip, chainVars, dbVars
<1>5. CASE Attempt
  <2>1. phase = "pass" /\ phase' = "handling" /\ handled' = handled /\ got' = got
    BY <1>5 DEF Attempt
  <2>2. PICK f \in got : /\ IsNext(f) /\ f \notin handled /\ ~GivenUp(f)
                         /\ attempts' = [g \in DOMAIN attempts \cup {f} |->
                                           IF g = f THEN CountedAttempt(f) ELSE attempts[g]]
    BY <1>5 DEF Attempt
  <2>3. f # e
    BY <2>2
  <2>4. ~IsNext(e)
    BY <2>2, <2>3, NextIsUnique DEF TypeOK
  <2>5. ~IsNext(e)'
    BY <2>1, <2>4 DEF IsNext, ChainOrder
  <2>6. e \in DOMAIN attempts
    BY DEF TypeOK
  <2> QED BY <2>1, <2>2, <2>3, <2>5, <2>6
<1>6. CASE Handle
  <2>1. PICK f \in got : IsNext(f) /\ handled' = handled \cup {f}
    BY <1>6 DEF Handle
  <2>2. phase = "handling" /\ phase' = "pass" /\ attempts' = attempts
    BY <1>6 DEF Handle
  <2>3. f # e
    BY <2>1, <2>2
  <2> QED BY <2>1, <2>2, <2>3
<1>7. CASE Fail
  BY <1>7 DEF Fail
<1>8. CASE End
  BY <1>8 DEF End, Idle
<1>9. CASE Crash
  BY <1>9 DEF Crash, Idle, dbVars
<1> QED BY <1>1, <1>2, <1>3, <1>4, <1>5, <1>6, <1>7, <1>8, <1>9 DEF Next, Pass

LEMMA SettledStays ==
  ASSUME TypeOK, TypeOK', ChainInv, ChainInv', ShapeInv, Next, NEW e \in chain
  PROVE  Stays(e)
<1> DEFINE Kept == chain \subseteq chain' /\ handled \subseteq handled' /\ missed \subseteq missed'
<1>1. Kept
  <2>1. CASE CloseLedger
    BY <2>1 DEF CloseLedger, dbVars
  <2>2. ASSUME NEW stored \in {cursor, None}, NEW listed \in {Known, {}}, StartFrom(stored, listed)
        PROVE  Kept
    BY <2>2 DEF StartFrom, chainVars, dbVars
  <2>3. ASSUME NEW group \in SUBSET toRead, NEW from \in 1..MaxLedger,
               NEW last \in (from - 1)..latest, NEW op \in 0..MaxOps, ReadPages(group, from, last, op)
        PROVE  Kept
    BY <2>3 DEF ReadPages, chainVars, dbVars
  <2>4. CASE Skip
    BY <2>4 DEF Skip, chainVars, dbVars
  <2>5. CASE Attempt
    BY <2>5 DEF Attempt, chainVars
  <2>6. CASE Handle
    BY <2>6 DEF Handle, chainVars
  <2>7. CASE Fail
    BY <2>7 DEF Fail, chainVars
  <2>8. CASE End
    BY <2>8 DEF End, chainVars
  <2>9. CASE Crash
    BY <2>9 DEF Crash, chainVars, dbVars
  <2> QED BY <2>1, <2>2, <2>3, <2>4, <2>5, <2>6, <2>7, <2>8, <2>9 DEF Next, Pass, Start, ScanGroup
<1>4. DeployOf(e.vault)' = DeployOf(e.vault)
  BY <1>1, DeployStays DEF TypeOK
<1> QED BY <1>1, <1>4, GivenUpStays DEF Stays

LEMMA ExplainedStays ==
  ASSUME TypeOK, TypeOK', ChainInv, ChainInv', ShapeInv, Next, NEW e \in chain, Explained(e)
  PROVE  Explained(e)'
<1>1. Stays(e)
  BY SettledStays
<1>2. PICK d \in chain : d = DeployOf(e.vault)
  BY DeployFacts DEF TypeOK
<1>3. Stays(d)
  BY SettledStays
<1>4. DeployOf(e.vault)' = d
  BY <1>1, <1>2 DEF Stays
<1>5. Lost(d) => Lost(d)'
  BY <1>3 DEF Lost, Stays
<1>6. Lost(e) => Lost(e)'
  BY <1>1 DEF Lost, Stays
<1> QED BY <1>1, <1>2, <1>4, <1>5, <1>6 DEF Explained, Stays

-----------------------------------------------------------------------------
(***************************************************************************)
(* Types and the log                                                       *)
(***************************************************************************)

LEMMA RowType ==
  ASSUME TypeOK, NEW e \in chain, NEW both \in BOOLEAN
  PROVE  RowFor(e, both) \in Row /\ RowFor(e, both) # None
<1>1. e.vault \in Vaults
  BY DEF TypeOK, Event
<1>2. rows[e.vault] \in Row \cup {None}
  BY <1>1 DEF TypeOK
<1>3. ProjectId(e) \in {"project", "address"}
  BY <1>2 DEF ProjectId, Row
<1>4. RowFor(e, both).seen \in Nat
  BY <1>2 DEF RowFor, Row, TypeOK
<1>5. RowFor(e, both) \in Row
  BY <1>3, <1>4 DEF RowFor, Row
<1> QED BY <1>5, IndexerAssumption

LEMMA TypeStep == TypeOK /\ ChainInv /\ ShapeInv /\ Next => TypeOK'
<1> SUFFICES ASSUME TypeOK, ChainInv, ShapeInv, Next PROVE TypeOK'
  OBVIOUS
<1> USE IndexerAssumption DEF TypeOK
<1>e. \A e \in chain : e.ledger \in 1..MaxLedger /\ e.vault \in Vaults
  BY DEF Event
<1>1. CASE CloseLedger
  <2>1. chain' \in SUBSET Event /\ latest' \in 0..MaxLedger /\ chain \subseteq chain'
    BY <1>1 DEF CloseLedger, EventsOf
  <2> QED BY <1>1, <2>1 DEF CloseLedger, dbVars, scanVars
<1>2. ASSUME NEW stored \in {cursor, None}, NEW listed \in {Known, {}}, StartFrom(stored, listed)
      PROVE  TypeOK'
  <2> USE <1>2 DEF StartFrom
  <2>2. OldestLedger \in 1..(latest + 1)
    BY DEF OldestLedger
  <2>3. start' \in 1..latest
    BY <2>2 DEF StartLedger, Larger
  <2>4. faults' \in 0..MaxFaults
    BY DEF Fault
  <2>5. watched' \in SUBSET ({Factory} \cup Vaults)
    BY DEF Known
  <2>6. toRead' \in SUBSET (watched' \X (1..MaxLedger))
    BY <2>3
  <2>7. missed' \in SUBSET chain
    OBVIOUS
  <2>8. handledTo' \in 0..MaxLedger /\ start' \in 0..MaxLedger
    BY <2>3
  <2> QED BY <2>4, <2>5, <2>6, <2>7, <2>8 DEF chainVars, dbVars
<1>3. ASSUME NEW group \in SUBSET toRead, NEW from \in 1..MaxLedger,
             NEW last \in (from - 1)..latest, NEW op \in 0..MaxOps, ReadPages(group, from, last, op)
      PROVE  TypeOK'
  <2> DEFINE read  == PagesOf(group, from, last, op)
             found == {e \in read : e.kind = "DEPLOY" /\ e.vault \notin watched}
  <2>2. /\ faults' = faults \/ Fault
        /\ got' = got \cup read
        /\ through' = Smaller(through, last)
        /\ watched' = watched \cup {e.vault : e \in found}
        /\ toRead' = (toRead \ group) \cup {<<e.vault, e.ledger>> : e \in found}
        /\ UNCHANGED <<chainVars, dbVars, phase, start, handledTo, failedAt, missed>>
    BY <1>3 DEF ReadPages
  <2>3. read \subseteq chain /\ found \subseteq chain
    BY DEF PagesOf
  <2> HIDE DEF read
  <2>4. watched' \in SUBSET ({Factory} \cup Vaults) /\ watched \subseteq watched'
    BY <1>e, <2>2, <2>3
  <2>5. toRead' \in SUBSET (watched' \X (1..MaxLedger))
    <3>1. ASSUME NEW e \in found PROVE <<e.vault, e.ledger>> \in watched' \X (1..MaxLedger)
      BY <1>e, <2>2, <2>3
    <3> QED BY <2>2, <2>4, <3>1
  <2>6. faults' \in 0..MaxFaults /\ got' \in SUBSET chain
    BY <2>2, <2>3 DEF Fault
  <2>7. through' \in 0..MaxLedger
    BY <2>2 DEF Smaller
  <2> QED BY <2>2, <2>4, <2>5, <2>6, <2>7 DEF chainVars, dbVars
<1>4. CASE Skip
  BY <1>e, <1>4 DEF Skip, chainVars, dbVars, scanVars, Larger
<1>5. CASE Attempt
  <2>1. PICK f \in got : /\ f \notin handled /\ ~GivenUp(f)
                         /\ attempts' = [g \in DOMAIN attempts \cup {f} |->
                                           IF g = f THEN CountedAttempt(f) ELSE attempts[g]]
    BY <1>5 DEF Attempt
  <2>2. CountedAttempt(f) \in 1..MAX_ATTEMPTS
    BY <1>5, <2>1 DEF Attempt, GivenUp, Attempts, CountedAttempt
  <2>3. /\ DOMAIN attempts' \in SUBSET chain /\ DOMAIN attempts \subseteq DOMAIN attempts'
        /\ \A g \in DOMAIN attempts' : attempts'[g] \in 1..MAX_ATTEMPTS
    BY <2>1, <2>2
  <2> QED BY <1>5, <2>3 DEF Attempt, chainVars, scanVars
<1>6. CASE Handle
  <2>1. PICK e \in got : /\ IsNext(e)
                         /\ rows' = [rows EXCEPT ![e.vault] = RowFor(e, TRUE)]
                         /\ handled' = handled \cup {e}
                         /\ handledTo' = Larger(handledTo, e.ledger)
                         /\ got' = got \ {e}
    BY <1>6 DEF Handle
  <2>2. rows' \in [Vaults -> Row \cup {None}]
    BY <1>e, <2>1, RowType
  <2>3. e \in DOMAIN attempts
    BY <1>6, <2>1, NextIsUnique DEF Handle, ShapeInv
  <2>4. handledTo' \in 0..MaxLedger
    BY <1>e, <2>1 DEF Larger
  <2> QED BY <1>6, <2>1, <2>2, <2>3, <2>4 DEF Handle, chainVars, scanVars
<1>7. CASE Fail
  <2>1. PICK e \in got : /\ failedAt' = e.ledger
                         /\ \/ rows' = rows
                            \/ \E both \in BOOLEAN : rows' = [rows EXCEPT ![e.vault] = RowFor(e, both)]
    BY <1>7 DEF Fail
  <2>2. rows' \in [Vaults -> Row \cup {None}]
    BY <1>e, <2>1, RowType
  <2> QED BY <1>7, <1>e, <2>1, <2>2 DEF Fail, chainVars, scanVars
<1>8. CASE End
  <2>1. cursor' \in Nat \cup {None}
    BY <1>8 DEF End, CursorAfterPass, Smaller
  <2> QED BY <1>8, <2>1 DEF End, Idle, chainVars
<1>9. CASE Crash
  BY <1>9 DEF Crash, Idle, Fault, chainVars, dbVars
<1> QED BY <1>1, <1>2, <1>3, <1>4, <1>5, <1>6, <1>7, <1>8, <1>9 DEF Next, Pass, Start, ScanGroup

\* Only a closing ledger adds to the log.
LEMMA LogKept ==
  ASSUME Next, ~CloseLedger
  PROVE  chain' = chain /\ latest' = latest
<1>1. Start \/ ScanGroup => chain' = chain /\ latest' = latest
  BY DEF Start, StartFrom, ScanGroup, ReadPages, chainVars
<1> QED BY <1>1 DEF Next, Pass, Skip, Attempt, Handle, Fail, End, Crash, chainVars

LEMMA ChainClose == TypeOK /\ ChainInv /\ CloseLedger => ChainInv'
<1> SUFFICES ASSUME TypeOK, ChainInv, CloseLedger PROVE ChainInv'
  OBVIOUS
<1>0. PICK n \in 0..MaxOps : \E ops \in [1..n -> Vaults], first \in [Vaults -> 1..MaxOps] :
        /\ \A i \in 1..n : first[ops[i]] <= i /\ ops[first[ops[i]]] = ops[i]
        /\ chain' = chain \cup EventsOf(ops, first, latest + 1)
  BY DEF CloseLedger
<1>1. PICK ops \in [1..n -> Vaults], first \in [Vaults -> 1..MaxOps] :
        /\ \A i \in 1..n : first[ops[i]] <= i /\ ops[first[ops[i]]] = ops[i]
        /\ chain' = chain \cup EventsOf(ops, first, latest + 1)
  BY <1>0
<1> DEFINE new == EventsOf(ops, first, latest + 1)
<1>2. \A e \in new :
        /\ e \in Event /\ e.ledger = latest + 1 /\ e.op \in 1..n /\ ops[e.op] = e.vault
        /\ (e.kind = "CHANGE") <=> (Deployed(e.vault) \/ e.op > first[e.vault])
        /\ first[e.vault] <= e.op /\ ops[first[e.vault]] = e.vault
        /\ first[e.vault] \in 1..n
  <2>1. SUFFICES ASSUME NEW e \in new
                 PROVE /\ e \in Event /\ e.ledger = latest + 1 /\ e.op \in 1..n /\ ops[e.op] = e.vault
                       /\ (e.kind = "CHANGE") <=> (Deployed(e.vault) \/ e.op > first[e.vault])
                       /\ first[e.vault] <= e.op /\ ops[first[e.vault]] = e.vault
                       /\ first[e.vault] \in 1..n
    OBVIOUS
  <2>2. /\ e \in Event /\ e.ledger = latest + 1 /\ e.op \in 1..n /\ ops[e.op] = e.vault
        /\ (e.kind = "CHANGE") <=> (Deployed(e.vault) \/ e.op > first[e.vault])
    BY DEF EventsOf
  <2>3. e.vault \in Vaults
    BY <2>2 DEF Event
  <2>4. first[e.vault] <= e.op /\ ops[first[e.vault]] = e.vault /\ first[e.vault] \in Nat \ {0}
    BY <1>1, <2>2, <2>3
  <2> QED BY <2>2, <2>4
<1>3. latest \in Nat /\ latest' = latest + 1 /\ latest + 1 \in 1..MaxLedger
  BY IndexerAssumption DEF CloseLedger, TypeOK
<1>4. \A e \in chain : e \in Event /\ e.ledger \in Nat /\ e.ledger <= latest
  BY DEF TypeOK, ChainInv, AllClosed, Event
<1> HIDE DEF new
<1>5. chain' = chain \cup new
  BY <1>1 DEF new
<1>6. AllClosed'
  BY <1>2, <1>3, <1>4, <1>5 DEF AllClosed
<1>7. ASSUME NEW e \in chain', NEW f \in chain', e.ledger = f.ledger, e.op = f.op
      PROVE  e.vault = f.vault /\ ((e.kind = "CHANGE") <=> (f.kind = "CHANGE"))
  <2>1. CASE e \in chain /\ f \in chain
    BY <1>7, <2>1 DEF ChainInv, OnePerPlace, OneDeploy
  <2>2. CASE e \in new /\ f \in new
    BY <1>2, <1>7, <2>2
  <2>3. (e \in chain /\ f \in new) \/ (e \in new /\ f \in chain) => FALSE
    BY <1>2, <1>3, <1>4, <1>7
  <2> QED BY <1>5, <2>1, <2>2, <2>3
<1>8. ASSUME NEW d \in chain', NEW e \in chain', d.kind = "DEPLOY", e.kind = "DEPLOY", d.vault = e.vault
      PROVE  d = e
  <2>1. CASE d \in chain /\ e \in chain
    BY <1>8, <2>1 DEF ChainInv, OnePerPlace, OneDeploy
  <2>2. CASE d \in new /\ e \in new
    <3>1. d.op = first[d.vault] /\ e.op = first[e.vault]
      <4>1. ~(d.op > first[d.vault]) /\ ~(e.op > first[e.vault])
        BY <1>2, <1>8, <2>2
      <4> QED BY <1>2, <2>2, <4>1
    <3>2. d \in Event /\ e \in Event /\ d.ledger = e.ledger
      BY <1>2, <2>2
    <3> QED BY <1>8, <3>1, <3>2 DEF Event
  <2>3. (d \in chain /\ e \in new) \/ (d \in new /\ e \in chain) => FALSE
    BY <1>2, <1>8 DEF Deployed
  <2> QED BY <1>5, <2>1, <2>2, <2>3
<1>9. ASSUME NEW e \in chain'
      PROVE  \E d \in chain' : /\ d.kind = "DEPLOY" /\ d.vault = e.vault
                               /\ d = e \/ ChainOrder(d, e)
  <2>1. CASE e \in chain
    BY <1>5, <2>1 DEF ChainInv, DeployFirst, OnePerPlace, OneDeploy
  <2>2. CASE e \in new /\ Deployed(e.vault)
    <3>1. PICK f \in chain : f.vault = e.vault
      BY <2>2 DEF Deployed
    <3>2. PICK d \in chain : d.kind = "DEPLOY" /\ d.vault = e.vault
      BY <3>1 DEF ChainInv, DeployFirst
    <3>3. d.ledger < e.ledger
      BY <1>2, <1>3, <1>4, <2>2
    <3> QED BY <1>5, <3>2, <3>3 DEF ChainOrder
  <2>3. CASE e \in new /\ ~Deployed(e.vault)
    <3> DEFINE d == [vault |-> e.vault, kind |-> "DEPLOY", ledger |-> latest + 1, op |-> first[e.vault]]
    <3>1. e.vault \in Vaults /\ first[e.vault] \in 1..MaxOps
      BY <1>2, <2>3 DEF Event
    <3>2. d \in Event
      BY <1>3, <3>1 DEF Event, Kinds
    <3>3. d \in new
      <4>1. ~(d.op > first[d.vault]) /\ d.op \in DOMAIN ops /\ ops[d.op] = d.vault
        BY <1>2, <2>3
      <4>2. ~Deployed(d.vault)
        BY <2>3
      <4> QED BY <3>2, <4>1, <4>2 DEF new, EventsOf
    <3>4. d = e \/ ChainOrder(d, e)
      <4>1. CASE e.op = first[e.vault]
        <5>1. e.kind \in {"DEPLOY", "OPENING"}
          <6>1. e.kind \in Kinds /\ e.kind # "CHANGE"
            BY <1>2, <2>3, <3>1, <4>1 DEF Event
          <6> QED BY <6>1 DEF Kinds
        <5>2. CASE e.kind = "DEPLOY"
          BY <1>2, <2>3, <4>1, <5>2 DEF Event
        <5>3. CASE e.kind = "OPENING"
          BY <1>2, <2>3, <4>1, <5>3 DEF ChainOrder
        <5> QED BY <5>1, <5>2, <5>3
      <4>2. CASE e.op # first[e.vault]
        BY <1>2, <2>3, <4>2 DEF ChainOrder
      <4> QED BY <4>1, <4>2
    <3> QED BY <1>5, <3>3, <3>4
  <2> QED BY <1>5, <2>1, <2>2, <2>3
<1>10. DeployFirst'
  BY <1>9 DEF DeployFirst, ChainOrder
<1>11. OnePerPlace'
  BY <1>7 DEF OnePerPlace
<1>12. OneDeploy'
  BY <1>8 DEF OneDeploy
<1> QED BY <1>6, <1>10, <1>11, <1>12 DEF ChainInv

LEMMA ChainStep == TypeOK /\ ChainInv /\ Next => ChainInv'
<1>1. TypeOK /\ ChainInv /\ Next /\ ~CloseLedger => ChainInv'
  BY LogKept DEF ChainInv, AllClosed, OnePerPlace, OneDeploy, DeployFirst, ChainOrder
<1> QED BY <1>1, ChainClose

-----------------------------------------------------------------------------
(***************************************************************************)
(* The shape of a pass, and the mirror                                     *)
(***************************************************************************)

LEMMA ShapeStep == TypeOK /\ ChainInv /\ ShapeInv /\ Next => ShapeInv'
<1> SUFFICES ASSUME TypeOK, ChainInv, ShapeInv, Next PROVE ShapeInv'
  OBVIOUS
<1> USE IndexerAssumption DEF ShapeInv
<1>t. /\ latest \in Nat /\ start \in Nat /\ through \in Nat /\ handledTo \in Nat
      /\ cursor # None => cursor \in Nat
      /\ failedAt # None => failedAt \in Nat
      /\ \A e \in chain : e.ledger \in Nat /\ e.ledger <= latest
  BY DEF TypeOK, ChainInv, AllClosed, Event
<1>1. CASE CloseLedger
  <2>1. UNCHANGED <<dbVars, phase, scanVars, got, handledTo, failedAt>> /\ latest' = latest + 1
    BY <1>1 DEF CloseLedger
  <2> QED BY <1>t, <2>1 DEF dbVars, scanVars, IsNext, ChainOrder
<1>2. ASSUME NEW stored \in {cursor, None}, NEW listed \in {Known, {}}, StartFrom(stored, listed)
      PROVE  ShapeInv'
  <2>1. /\ StartLedger(stored) <= latest /\ start' = StartLedger(stored) /\ through' = latest
        /\ phase = "idle" /\ phase' = "pass" /\ UNCHANGED <<chain, latest, cursor, failedAt>>
    BY <1>2 DEF StartFrom, chainVars, dbVars
  <2>2. StartLedger(stored) \in Int /\ StartLedger(stored) >= 1
    BY <1>t DEF StartLedger, Larger, OldestLedger
  <2> QED BY <1>t, <2>1, <2>2
<1>3. ASSUME NEW group \in SUBSET toRead, NEW from \in 1..MaxLedger,
             NEW last \in (from - 1)..latest, NEW op \in 0..MaxOps, ReadPages(group, from, last, op)
      PROVE  ShapeInv'
  <2>1. /\ phase = "pass" /\ through' = Smaller(through, last)
        /\ UNCHANGED <<phase, start, latest, cursor, failedAt>>
    BY <1>3 DEF ReadPages, chainVars, dbVars
  <2> QED BY <1>t, <2>1 DEF Smaller
<1>4. CASE Skip
  <2>1. phase = "pass" /\ UNCHANGED <<phase, start, through, latest, cursor, failedAt>>
    BY <1>4 DEF Skip, chainVars, dbVars, scanVars
  <2> QED BY <1>t, <2>1
<1>5. CASE Attempt
  <2>1. /\ phase = "pass" /\ phase' = "handling" /\ toRead = {} /\ toRead' = toRead
        /\ UNCHANGED <<start, through, latest, cursor, failedAt, handled, got>>
    BY <1>5 DEF Attempt, chainVars, scanVars
  <2>2. PICK f \in got : /\ IsNext(f) /\ f \notin handled
                         /\ attempts' = [g \in DOMAIN attempts \cup {f} |->
                                           IF g = f THEN CountedAttempt(f) ELSE attempts[g]]
    BY <1>5 DEF Attempt
  <2>3. f \in DOMAIN attempts' \ handled'
    BY <2>1, <2>2
  <2>4. IsNext(f)'
    BY <2>1, <2>2 DEF IsNext, ChainOrder
  <2> QED BY <1>t, <2>1, <2>3, <2>4
<1>6. CASE Handle
  <2>1. /\ phase = "handling" /\ phase' = "pass"
        /\ UNCHANGED <<start, through, latest, cursor, failedAt, toRead>>
    BY <1>6 DEF Handle, chainVars, scanVars
  <2> QED BY <1>t, <2>1
<1>7. CASE Fail
  <2>1. PICK e \in got : failedAt' = e.ledger /\ got' = {}
    BY <1>7 DEF Fail
  <2>2. /\ phase = "handling" /\ phase' = "ending"
        /\ UNCHANGED <<start, through, latest, cursor, toRead>>
    BY <1>7 DEF Fail, chainVars, scanVars
  <2>3. failedAt' # None
    BY <1>t, <2>1 DEF TypeOK
  <2> QED BY <1>t, <2>1, <2>2, <2>3
<1>8. CASE End
  <2>1. phase # "idle" /\ CursorAfterPass <= latest
    <3>1. phase # "idle"
      BY <1>8 DEF End
    <3>2. CursorAfterPass <= through
      BY <1>t DEF CursorAfterPass, Smaller
    <3>3. CursorAfterPass \in Int
      BY <1>t DEF CursorAfterPass, Smaller
    <3> QED BY <1>t, <3>1, <3>2, <3>3
  <2>2. cursor' \in {cursor, CursorAfterPass} /\ latest' = latest
    BY <1>8 DEF End, chainVars
  <2> QED BY <1>8, <1>t, <2>1, <2>2 DEF End, Idle
<1>9. CASE Crash
  BY <1>9 DEF Crash, Idle, chainVars, dbVars
<1> QED BY <1>1, <1>2, <1>3, <1>4, <1>5, <1>6, <1>7, <1>8, <1>9 DEF Next, Pass, Start, ScanGroup

\* A row never goes back, and never falls behind an event marked handled.
LEMMA MirrorStep == TypeOK /\ ChainInv /\ HandledIsMirrored /\ Next => HandledIsMirrored'
<1> SUFFICES ASSUME TypeOK, ChainInv, HandledIsMirrored, Next PROVE HandledIsMirrored'
  OBVIOUS
<1> USE DEF HandledIsMirrored
<1>t. /\ latest \in Nat
      /\ \A e \in chain : e.ledger \in Nat /\ e.ledger <= latest /\ e.vault \in Vaults
      /\ handled \subseteq chain /\ got \subseteq chain
      /\ \A v \in Vaults : rows[v] # None => rows[v].seen \in Nat
  BY DEF TypeOK, ChainInv, AllClosed, Event, Row
<1>1. ASSUME NEW e \in got, NEW both \in BOOLEAN,
             rows' = [rows EXCEPT ![e.vault] = RowFor(e, both)]
      PROVE  /\ \A f \in handled : rows'[f.vault] # None /\ rows'[f.vault].seen >= f.ledger
             /\ both => rows'[e.vault] # None /\ rows'[e.vault].seen >= e.ledger
  <2>1. e \in chain /\ e.vault \in Vaults /\ rows \in [Vaults -> Row \cup {None}]
    BY <1>t DEF TypeOK
  <2>2. rows'[e.vault] = RowFor(e, both) /\ rows'[e.vault] # None
    BY <1>1, <2>1, RowType
  <2>3. rows'[e.vault].seen = IF both THEN latest
                              ELSE IF rows[e.vault] = None THEN 0 ELSE rows[e.vault].seen
    BY <2>2 DEF RowFor
  <2>4. ASSUME NEW f \in handled PROVE rows'[f.vault] # None /\ rows'[f.vault].seen >= f.ledger
    <3>1. CASE f.vault = e.vault
      BY <1>t, <2>2, <2>3, <3>1
    <3>2. CASE f.vault # e.vault
      BY <1>1, <1>t, <2>1, <3>2
    <3> QED BY <3>1, <3>2
  <2> QED BY <1>t, <2>1, <2>2, <2>3, <2>4
<1>2. CASE Handle
  <2>1. PICK e \in got : /\ rows' = [rows EXCEPT ![e.vault] = RowFor(e, TRUE)]
                         /\ handled' = handled \cup {e}
    BY <1>2 DEF Handle
  <2> QED BY <1>1, <2>1
<1>3. CASE Fail
  <2>1. handled' = handled
    BY <1>3 DEF Fail
  <2>2. PICK e \in got : \/ rows' = rows
                         \/ \E both \in BOOLEAN : rows' = [rows EXCEPT ![e.vault] = RowFor(e, both)]
    BY <1>3 DEF Fail
  <2> QED BY <1>1, <2>1, <2>2
<1>4. ASSUME ~Handle, ~Fail PROVE UNCHANGED <<rows, handled>>
  BY <1>4 DEF Next, Pass, CloseLedger, Start, StartFrom, ScanGroup, ReadPages, Skip, Attempt, End,
              Crash, dbVars
<1> QED BY <1>2, <1>3, <1>4

-----------------------------------------------------------------------------
(***************************************************************************)
(* The range of a pass, and the cursor                                     *)
(***************************************************************************)

LEMMA LedgerTypes ==
  ASSUME TypeOK, ChainInv, ShapeInv
  PROVE  /\ latest \in Nat /\ start \in Nat /\ through \in Nat /\ handledTo \in Nat
         /\ cursor # None => cursor \in Nat /\ cursor <= latest
         /\ failedAt # None => failedAt \in Nat
         /\ \A e \in chain : e.ledger \in Nat /\ e.ledger <= latest /\ e.vault \in Vaults
BY IndexerAssumption DEF TypeOK, ChainInv, AllClosed, ShapeInv, Event

\* Nothing new is closed behind the latest ledger.
LEMMA NewEvents ==
  ASSUME TypeOK, CloseLedger, NEW e \in chain' \ chain
  PROVE  e.ledger = latest + 1
BY DEF CloseLedger, EventsOf

LEMMA CursorStep ==
  ASSUME TypeOK, TypeOK', ChainInv, ChainInv', ShapeInv, PassInv,
         CursorPassesOnlySettledEvents, Next
  PROVE  CursorPassesOnlySettledEvents'
<1>t. /\ latest \in Nat /\ start \in Nat /\ through \in Nat /\ handledTo \in Nat
      /\ cursor # None => cursor \in Nat /\ cursor <= latest
      /\ failedAt # None => failedAt \in Nat
      /\ \A e \in chain : e.ledger \in Nat /\ e.ledger <= latest /\ e.vault \in Vaults
  BY LedgerTypes
<1> USE <1>t
<1>1. \A e \in chain : Explained(e) => Explained(e)'
  BY ExplainedStays
<1>2. CASE CloseLedger
  <2>1. cursor' = cursor
    BY <1>2 DEF CloseLedger, dbVars
  <2>2. ASSUME NEW e \in chain', cursor # None, e.ledger <= cursor PROVE e \in chain
    <3>1. e \notin chain => e.ledger = latest + 1
      BY <1>2, NewEvents
    <3> QED BY <2>2, <3>1
  <2> QED BY <1>1, <2>1, <2>2 DEF CursorPassesOnlySettledEvents
<1>3. CASE End
  <2>1. cursor' \in {cursor, CursorAfterPass} /\ chain' = chain
    BY <1>3 DEF End, chainVars
  <2>2. /\ CursorAfterPass \in Int /\ CursorAfterPass <= through
        /\ failedAt # None => CursorAfterPass < failedAt
    BY DEF CursorAfterPass, Smaller
  <2>3. ASSUME NEW e \in chain, e.ledger <= CursorAfterPass PROVE Explained(e)
    <3>1. CASE e.ledger < start
      BY <1>3, <3>1 DEF End, PassInv
    <3>2. CASE e.ledger >= start /\ phase = "ending"
      <4>1. failedAt # None
        BY <3>2 DEF ShapeInv
      <4>2. e.ledger < failedAt /\ e.ledger <= through
        BY <2>2, <2>3, <4>1
      <4> QED BY <3>2, <4>2 DEF PassInv
    <3>3. CASE e.ledger >= start /\ phase # "ending"
      <4>1. phase = "pass" /\ toRead = {} /\ got = {}
        BY <1>3, <3>3 DEF End
      <4>2. ~Pending(e) /\ ~Undiscovered(e)
        BY <4>1 DEF Pending, Undiscovered
      <4>3. e.ledger <= through
        BY <2>2, <2>3
      <4> QED BY <3>3, <4>1, <4>2, <4>3 DEF PassInv
    <3> QED BY <3>1, <3>2, <3>3
  <2> QED BY <1>1, <2>1, <2>3 DEF CursorPassesOnlySettledEvents
<1>4. CASE ~CloseLedger /\ ~End
  <2>1. chain' = chain
    BY <1>4, LogKept
  <2>2. cursor' = cursor
    <3>1. Start \/ ScanGroup => cursor' = cursor
      BY DEF Start, StartFrom, ScanGroup, ReadPages, dbVars
    <3> QED BY <1>4, <3>1 DEF Next, Pass, Skip, Attempt, Handle, Fail, Crash, dbVars
  <2> QED BY <1>1, <2>1, <2>2 DEF CursorPassesOnlySettledEvents
<1> QED BY <1>2, <1>3, <1>4

\* A pass starts with nothing behind its range unaccounted for: what an earlier
\* cursor left, a cold start or a dropped ledger is in `missed`.
LEMMA PassStart ==
  ASSUME TypeOK, TypeOK', ChainInv, ChainInv', ShapeInv, HandledIsMirrored,
         CursorPassesOnlySettledEvents, Next,
         NEW stored \in {cursor, None}, NEW listed \in {Known, {}}, StartFrom(stored, listed)
  PROVE  PassInv'
<1>t. /\ latest \in Nat /\ start \in Nat /\ through \in Nat /\ handledTo \in Nat
      /\ cursor # None => cursor \in Nat /\ cursor <= latest
      /\ failedAt # None => failedAt \in Nat
      /\ \A e \in chain : e.ledger \in Nat /\ e.ledger <= latest /\ e.vault \in Vaults
  BY LedgerTypes
<1> USE <1>t
<1>1. \A e \in chain : Explained(e) => Explained(e)'
  BY ExplainedStays
<1>2. /\ toRead' = {<<c, start'>> : c \in {Factory} \cup listed}
      /\ watched' = {Factory} \cup listed
      /\ phase' = "pass" /\ through' = latest
      /\ missed' = missed
           \cup {e \in chain : e.ledger < start' /\ (cursor = None \/ e.ledger > cursor)}
           \cup {e \in chain : e.vault \in Known \ listed /\ e.kind # "DEPLOY"}
      /\ UNCHANGED <<chain, rows, handled>>
  BY DEF StartFrom, chainVars, dbVars
<1>u. start' \in Nat
  BY DEF TypeOK
<1>3. ASSUME NEW e \in chain, e.ledger < start' PROVE Explained(e)'
  <2>1. CASE cursor # None /\ e.ledger <= cursor
    BY <1>1, <2>1 DEF CursorPassesOnlySettledEvents
  <2>2. CASE cursor = None \/ e.ledger > cursor
    BY <1>2, <1>3, <2>2 DEF Explained, Lost
  <2> QED BY <2>1, <2>2
<1>4. ASSUME NEW e \in chain, e.ledger >= start'
      PROVE  Explained(e)' \/ Pending(e)' \/ Undiscovered(e)'
  <2>1. CASE e.kind = "DEPLOY" \/ e.vault \in listed
    <3>1. Source(e) \in {Factory} \cup listed
      BY <2>1 DEF Source
    <3>2. <<Source(e), start'>> \in toRead'
      BY <1>2, <3>1
    <3> QED BY <1>4, <3>2 DEF Pending, Source
  <2>2. CASE e.kind # "DEPLOY" /\ e.vault \in Known \ listed
    BY <1>2, <2>2 DEF Explained, Lost
  <2>3. CASE e.kind # "DEPLOY" /\ e.vault \notin Known /\ e.vault \notin listed
    <3>1. PICK d \in chain : d = DeployOf(e.vault) /\ d.vault = e.vault
      BY DeployFacts DEF TypeOK
    <3>2. DeployOf(e.vault)' = d
      BY <3>1, SettledStays DEF Stays
    <3>3. CASE d.ledger >= start'
      <4>1. e.vault \notin watched' /\ <<Factory, start'>> \in toRead'
        BY <1>2, <2>3, IndexerAssumption
      <4> QED BY <3>2, <3>3, <4>1 DEF Undiscovered
    <3>4. CASE d.ledger < start'
      <4>1. Explained(d)'
        BY <1>3, <3>4
      <4>2. d \notin handled'
        BY <1>2, <2>3, <3>1 DEF HandledIsMirrored, Known
      <4>3. DeployOf(d.vault)' = d
        BY <3>1, <3>2
      <4>4. Lost(d)'
        BY <4>1, <4>2, <4>3 DEF Explained
      <4> QED BY <3>2, <4>4 DEF Explained
    <3> QED BY <1>u, <3>3, <3>4
  <2> QED BY <2>1, <2>2, <2>3
<1>5. /\ \A c \in toRead' : c[2] >= start'
      /\ \A c \in toRead' : c[1] = Factory => c[2] = start'
  BY <1>2, <1>u
<1> QED BY <1>2, <1>3, <1>4, <1>5 DEF PassInv

\* Reading a group turns what was pending into what is at hand, and a vault
\* met in the factory's events into a pending one.
LEMMA PassRead ==
  ASSUME TypeOK, TypeOK', ChainInv, ChainInv', ShapeInv, PassInv, Next,
         NEW group \in SUBSET toRead, NEW from \in 1..MaxLedger,
         NEW last \in (from - 1)..latest, NEW op \in 0..MaxOps, ReadPages(group, from, last, op)
  PROVE  PassInv'
<1>t. /\ latest \in Nat /\ start \in Nat /\ through \in Nat /\ handledTo \in Nat
      /\ cursor # None => cursor \in Nat /\ cursor <= latest
      /\ failedAt # None => failedAt \in Nat
      /\ \A e \in chain : e.ledger \in Nat /\ e.ledger <= latest /\ e.vault \in Vaults
  BY LedgerTypes
<1> USE <1>t
<1> DEFINE read  == PagesOf(group, from, last, op)
           found == {e \in read : e.kind = "DEPLOY" /\ e.vault \notin watched}
<1>1. \A e \in chain : Explained(e) => Explained(e)'
  BY ExplainedStays
<1>2. /\ phase = "pass" /\ UNCHANGED <<phase, start, chain, latest>>
      /\ got' = got \cup read
      /\ through' = Smaller(through, last)
      /\ watched' = watched \cup {e.vault : e \in found}
      /\ toRead' = (toRead \ group) \cup {<<e.vault, e.ledger>> : e \in found}
      /\ \A c \in group : c[2] >= from
      /\ \E c \in group : c[2] = from
  BY DEF ReadPages, chainVars
<1>3. through' <= through /\ through' <= last /\ from \in Int /\ last \in Int /\ through' \in Int
  BY <1>2 DEF Smaller
<1>4. from >= start /\ (<<Factory, start>> \in group => from = start)
  <2>1. from >= start
    BY <1>2 DEF PassInv
  <2>2. <<Factory, start>> \in group => start >= from
    BY <1>2
  <2> QED BY <2>1, <2>2, <1>3
<1>5. ASSUME NEW e \in chain, e.ledger <= last, NEW c \in group, c[1] = Source(e), c[2] <= e.ledger
      PROVE  e \in read
  <2>1. c[2] \in Nat
    BY DEF TypeOK
  <2>2. e.ledger >= from
    BY <1>2, <1>3, <1>5, <2>1
  <2> QED BY <1>5, <2>2 DEF PagesOf
<1> HIDE DEF read
<1>6. read \subseteq chain
  BY DEF read, PagesOf
<1>7. ASSUME NEW e \in chain, e.ledger >= start, e.ledger <= through'
      PROVE  e \in got' \/ Explained(e)' \/ Pending(e)' \/ Undiscovered(e)'
  <2>1. e.ledger <= through /\ e.ledger <= last
    BY <1>3, <1>7
  <2>2. CASE e \in got \/ Explained(e)
    BY <1>1, <1>2, <2>2
  <2>3. CASE Pending(e)
    <3>1. PICK c \in toRead : c[1] = Source(e) /\ c[2] <= e.ledger
      BY <2>3 DEF Pending
    <3>2. CASE c \in group
      BY <1>2, <1>5, <2>1, <3>1, <3>2
    <3>3. CASE c \notin group
      BY <1>2, <3>1, <3>3 DEF Pending, Source
    <3> QED BY <3>2, <3>3
  <2>4. CASE Undiscovered(e)
    <3>1. PICK d \in chain : /\ d = DeployOf(e.vault) /\ d.vault = e.vault /\ d.kind = "DEPLOY"
                             /\ d.ledger <= e.ledger
      BY DeployFacts DEF TypeOK
    <3>2. DeployOf(e.vault)' = d
      BY <3>1, SettledStays DEF Stays
    <3>3. e.vault \notin watched /\ <<Factory, start>> \in toRead /\ d.ledger >= start
      BY <2>4, <3>1 DEF Undiscovered
    <3>4. CASE <<Factory, start>> \in group
      <4>1. Source(d) = Factory
        BY <3>1 DEF Source
      <4>2. d \in read
        BY <1>5, <2>1, <3>1, <3>3, <3>4, <4>1
      <4>3. <<e.vault, d.ledger>> \in toRead'
        BY <1>2, <3>1, <3>3, <4>2
      <4>4. CASE e.kind = "DEPLOY"
        <5>1. e = d
          BY <3>1, <4>4 DEF ChainInv, OneDeploy
        <5> QED BY <1>2, <4>2, <5>1
      <4>5. CASE e.kind # "DEPLOY"
        BY <3>1, <4>3, <4>5 DEF Pending, Source
      <4> QED BY <4>4, <4>5
    <3>5. CASE <<Factory, start>> \notin group
      <4>1. ASSUME NEW f \in found PROVE FALSE
        <5>1. f \in read /\ f.kind = "DEPLOY"
          OBVIOUS
        <5>2. PICK c \in group : c[1] = Factory
          BY <5>1 DEF read, PagesOf, Source
        <5>3. c \in toRead /\ c[2] = start
          BY <1>2, <5>2 DEF PassInv
        <5>4. c = <<Factory, start>>
          BY <5>2, <5>3 DEF TypeOK
        <5> QED BY <3>5, <5>4
      <4>2. watched' = watched /\ <<Factory, start>> \in toRead'
        BY <1>2, <3>3, <3>5, <4>1
      <4> QED BY <1>2, <3>2, <3>3, <4>2 DEF Undiscovered
    <3> QED BY <3>4, <3>5
  <2> QED BY <1>2, <1>7, <2>1, <2>2, <2>3, <2>4 DEF PassInv
<1>8. ASSUME NEW c \in toRead' PROVE c[2] >= start /\ (c[1] = Factory => c[2] = start)
  <2>1. CASE c \in toRead
    BY <1>2, <2>1 DEF PassInv
  <2>2. CASE c \notin toRead
    <3>1. PICK f \in found : c = <<f.vault, f.ledger>>
      BY <1>2, <2>2
    <3>2. f.ledger >= from /\ f.vault \in Vaults /\ f.ledger \in Nat
      BY <1>6 DEF read, PagesOf
    <3> QED BY <1>3, <1>4, <3>1, <3>2, IndexerAssumption
  <2> QED BY <2>1, <2>2
<1>9. \A e \in chain : e.ledger < start => Explained(e)'
  BY <1>1, <1>2 DEF PassInv
<1> QED BY <1>2, <1>7, <1>8, <1>9 DEF PassInv

\* Within a pass an event leaves the batch only handled or given up; a failure
\* leaves behind it nothing but later events.
LEMMA PassStep ==
  ASSUME TypeOK, TypeOK', ChainInv, ChainInv', ShapeInv, PassInv, HandledIsMirrored,
         CursorPassesOnlySettledEvents, Next
  PROVE  PassInv'
<1>t. /\ latest \in Nat /\ start \in Nat /\ through \in Nat /\ handledTo \in Nat
      /\ cursor # None => cursor \in Nat /\ cursor <= latest
      /\ failedAt # None => failedAt \in Nat
      /\ \A e \in chain : e.ledger \in Nat /\ e.ledger <= latest /\ e.vault \in Vaults
  BY LedgerTypes
<1> USE <1>t
<1>e. \A e \in chain : Explained(e) => Explained(e)'
  BY ExplainedStays
<1>d. \A e \in chain : DeployOf(e.vault)' = DeployOf(e.vault)
  BY SettledStays DEF Stays
<1>1. CASE CloseLedger
  <2>1. UNCHANGED <<phase, scanVars, got, failedAt>>
    BY <1>1 DEF CloseLedger
  <2>2. ASSUME NEW e \in chain', phase # "idle", e.ledger <= through \/ e.ledger < start
        PROVE  e \in chain
    <3>1. e \notin chain => e.ledger = latest + 1
      BY <1>1, NewEvents
    <3> QED BY <2>2, <3>1 DEF ShapeInv
  <2>3. ASSUME NEW e \in chain PROVE /\ Pending(e) => Pending(e)'
                                     /\ Undiscovered(e) => Undiscovered(e)'
    BY <1>d, <2>1 DEF Pending, Undiscovered, Source, scanVars
  <2> QED BY <1>e, <2>1, <2>2, <2>3 DEF PassInv, scanVars
<1>2. CASE Start
  BY <1>2, PassStart DEF Start
<1>3. CASE ScanGroup
  BY <1>3, PassRead DEF ScanGroup
<1>4. ASSUME phase \in {"pass", "handling"}, phase' \in {"pass", "handling"}, toRead = {},
             UNCHANGED <<chain, scanVars>>,
             \A e \in got : e \in got' \/ Explained(e)'
      PROVE  PassInv'
  <2>1. start' = start /\ through' = through /\ toRead' = {} /\ chain' = chain
    BY <1>4 DEF scanVars
  <2>2. ASSUME NEW e \in chain, e.ledger < start PROVE Explained(e)'
    BY <1>4, <1>e, <2>2 DEF PassInv
  <2>3. ASSUME NEW e \in chain, e.ledger >= start, e.ledger <= through
        PROVE  e \in got' \/ Explained(e)'
    BY <1>4, <1>e, <2>3 DEF PassInv, Pending, Undiscovered
  <2> QED BY <1>4, <2>1, <2>2, <2>3 DEF PassInv
<1>5. CASE Skip
  <2>1. PICK e \in got : (e \in handled \/ GivenUp(e)) /\ got' = got \ {e}
    BY <1>5 DEF Skip
  <2>2. e \in chain
    BY DEF TypeOK
  <2>3. Explained(e)'
    BY <1>e, <2>1, <2>2 DEF Explained, Lost
  <2>4. \A f \in got : f \in got' \/ Explained(f)'
    BY <2>1, <2>3
  <2> QED BY <1>4, <1>5, <2>4 DEF Skip, chainVars
<1>6. CASE Attempt
  BY <1>4, <1>6 DEF Attempt, chainVars
<1>7. CASE Handle
  <2>1. PICK e \in got : handled' = handled \cup {e} /\ got' = got \ {e}
    BY <1>7 DEF Handle
  <2>2. Explained(e)'
    BY <2>1 DEF Explained
  <2>3. \A f \in got : f \in got' \/ Explained(f)'
    BY <2>1, <2>2
  <2>4. toRead = {}
    BY <1>7 DEF Handle, ShapeInv
  <2> QED BY <1>4, <1>7, <2>3, <2>4 DEF Handle, chainVars
<1>8. CASE Fail
  <2>1. PICK e \in got : IsNext(e) /\ failedAt' = e.ledger
    BY <1>8 DEF Fail
  <2>2. /\ phase = "handling" /\ phase' = "ending" /\ toRead = {}
        /\ start' = start /\ through' = through /\ chain' = chain
    BY <1>8 DEF Fail, ShapeInv, chainVars, scanVars
  <2>3. ASSUME NEW f \in chain, f.ledger >= start, f.ledger <= through, f.ledger < e.ledger
        PROVE  Explained(f)'
    <3>1. f \notin got
      <4>1. f \in got => e.ledger <= f.ledger
        BY <2>1, NextIsFirst DEF TypeOK
      <4>2. e \in chain
        BY DEF TypeOK
      <4> QED BY <2>3, <4>1, <4>2
    <3> QED BY <1>e, <2>2, <2>3, <3>1 DEF PassInv, Pending, Undiscovered
  <2>4. \A f \in chain : f.ledger < start => Explained(f)'
    BY <1>e, <2>2 DEF PassInv
  <2> QED BY <2>1, <2>2, <2>3, <2>4 DEF PassInv
<1>9. CASE End \/ Crash
  BY <1>9 DEF End, Crash, Idle, PassInv
<1> QED BY <1>1, <1>2, <1>3, <1>5, <1>6, <1>7, <1>8, <1>9 DEF Next, Pass

-----------------------------------------------------------------------------
(***************************************************************************)
(* What a row is filed under                                               *)
(***************************************************************************)

LEMMA GotStep == TypeOK /\ ShapeInv /\ GotInv /\ Next => GotInv'
<1> SUFFICES ASSUME TypeOK, ShapeInv, GotInv, Next PROVE GotInv'
  OBVIOUS
<1> USE DEF GotInv, Source
<1>1. CASE CloseLedger
  BY <1>1 DEF CloseLedger, scanVars
<1>2. CASE Start
  BY <1>2 DEF Start, StartFrom, ShapeInv
<1>3. ASSUME NEW group \in SUBSET toRead, NEW from \in 1..MaxLedger,
             NEW last \in (from - 1)..latest, NEW op \in 0..MaxOps, ReadPages(group, from, last, op)
      PROVE  GotInv'
  <2>1. /\ got' = got \cup PagesOf(group, from, last, op)
        /\ watched \subseteq watched'
    BY <1>3 DEF ReadPages
  <2>2. ASSUME NEW e \in PagesOf(group, from, last, op) PROVE Source(e) \in watched
    <3>1. PICK c \in group : c[1] = Source(e)
      BY DEF PagesOf
    <3>2. c \in watched \X (1..MaxLedger)
      BY DEF TypeOK
    <3> QED BY <3>1, <3>2
  <2> QED BY <2>1, <2>2
<1>4. CASE Skip \/ Attempt \/ Handle \/ Fail
  BY <1>4 DEF Skip, Attempt, Handle, Fail, scanVars
<1>5. CASE End \/ Crash
  BY <1>5 DEF End, Crash, Idle
<1> QED BY <1>1, <1>2, <1>3, <1>4, <1>5 DEF Next, Pass, ScanGroup

\* A row that is there stays there, under the same id unless a DEPLOY writes it.
LEMMA RowsStay ==
  ASSUME TypeOK, Next, NEW v \in Vaults, rows[v] # None
  PROVE  rows'[v] # None
<1>1. ASSUME NEW e \in got, NEW both \in BOOLEAN, rows' = [rows EXCEPT ![e.vault] = RowFor(e, both)]
      PROVE  rows'[v] # None
  <2>1. RowFor(e, both) # None /\ rows \in [Vaults -> Row \cup {None}]
    BY RowType DEF TypeOK
  <2> QED BY <1>1, <2>1
<1>2. CASE Handle
  BY <1>1, <1>2 DEF Handle
<1>3. CASE Fail
  BY <1>1, <1>3 DEF Fail
<1>4. CASE ~Handle /\ ~Fail
  <2>1. Start \/ ScanGroup => rows' = rows
    BY DEF Start, StartFrom, ScanGroup, ReadPages, dbVars
  <2> QED BY <1>4, <2>1 DEF Next, Pass, CloseLedger, Skip, Attempt, End, Crash, dbVars
<1> QED BY <1>2, <1>3, <1>4

LEMMA WatchStep ==
  ASSUME TypeOK, TypeOK', ChainInv, ChainInv', ShapeInv, WatchInv, HandledIsMirrored,
         HandledIsMirrored', Next
  PROVE  WatchInv'
<1> DEFINE Met(v) == \E d \in chain : /\ d.kind = "DEPLOY" /\ d.vault = v
                                      /\ d \in got \/ GivenUp(d)
<1>g. \A d \in chain : GivenUp(d) => GivenUp(d)'
  BY GivenUpStays
<1>r. \A v \in Vaults : rows[v] # None => rows'[v] # None
  BY RowsStay
<1>1. ASSUME chain \subseteq chain', watched' = watched, phase \in {"pass", "handling"},
             \A d \in got : d \in got' \/ d \in handled' \/ GivenUp(d)'
      PROVE  WatchInv'
  <2> SUFFICES ASSUME NEW v \in watched \cap Vaults, rows'[v] = None
               PROVE  \E d \in chain' : /\ d.kind = "DEPLOY" /\ d.vault = v
                                        /\ d \in got' \/ GivenUp(d)'
    BY <1>1 DEF WatchInv
  <2>1. rows[v] = None
    BY <1>r
  <2>2. PICK d \in chain : /\ d.kind = "DEPLOY" /\ d.vault = v /\ (d \in got \/ GivenUp(d))
    BY <1>1, <2>1 DEF WatchInv
  <2>3. d \notin handled'
    BY <2>2 DEF HandledIsMirrored
  <2> QED BY <1>1, <1>g, <2>2, <2>3
<1>2. CASE CloseLedger
  <2>1. UNCHANGED <<phase, got, watched, rows, handled>> /\ chain \subseteq chain'
    BY <1>2 DEF CloseLedger, dbVars, scanVars
  <2>2. CASE phase \in {"pass", "handling"}
    BY <1>1, <2>1, <2>2
  <2>3. CASE phase \notin {"pass", "handling"}
    BY <2>1, <2>3 DEF WatchInv
  <2> QED BY <2>2, <2>3
<1>3. ASSUME NEW stored \in {cursor, None}, NEW listed \in {Known, {}}, StartFrom(stored, listed)
      PROVE  WatchInv'
  <2>1. watched' = {Factory} \cup listed /\ rows' = rows
    BY <1>3 DEF StartFrom, dbVars
  <2> QED BY <2>1, IndexerAssumption DEF WatchInv, Known
<1>4. ASSUME NEW group \in SUBSET toRead, NEW from \in 1..MaxLedger,
             NEW last \in (from - 1)..latest, NEW op \in 0..MaxOps, ReadPages(group, from, last, op)
      PROVE  WatchInv'
  <2> DEFINE read  == PagesOf(group, from, last, op)
             found == {e \in read : e.kind = "DEPLOY" /\ e.vault \notin watched}
  <2>1. /\ phase = "pass" /\ phase' = phase /\ UNCHANGED <<rows, chain, handled>>
        /\ got' = got \cup read
        /\ watched' = watched \cup {e.vault : e \in found}
    BY <1>4 DEF ReadPages, chainVars, dbVars
  <2>2. read \subseteq chain
    BY DEF PagesOf
  <2> HIDE DEF read
  <2>3. ASSUME NEW v \in watched' \cap Vaults, rows'[v] = None
        PROVE  \E d \in chain' : /\ d.kind = "DEPLOY" /\ d.vault = v
                                 /\ d \in got' \/ GivenUp(d)'
    <3>1. CASE v \in watched
      BY <1>g, <2>1, <2>3, <3>1 DEF WatchInv
    <3>2. CASE v \notin watched
      BY <2>1, <2>2, <2>3, <3>2
    <3> QED BY <3>1, <3>2
  <2> QED BY <2>1, <2>3 DEF WatchInv
<1>5. CASE Skip
  <2>1. PICK e \in got : (e \in handled \/ GivenUp(e)) /\ got' = got \ {e}
    BY <1>5 DEF Skip
  <2>2. phase = "pass" /\ handled' = handled /\ chain' = chain /\ watched' = watched
    BY <1>5 DEF Skip, dbVars, chainVars, scanVars
  <2>3. got \subseteq chain
    BY DEF TypeOK
  <2> QED BY <1>1, <1>g, <2>1, <2>2, <2>3
<1>6. CASE Attempt
  BY <1>1, <1>6 DEF Attempt, chainVars, scanVars
<1>7. CASE Handle
  <2>1. PICK e \in got : handled' = handled \cup {e} /\ got' = got \ {e}
    BY <1>7 DEF Handle
  <2> QED BY <1>1, <1>7, <2>1 DEF Handle, chainVars, scanVars
<1>8. CASE Fail \/ End \/ Crash
  BY <1>8 DEF Fail, End, Crash, Idle, WatchInv
<1> QED BY <1>2, <1>3, <1>4, <1>5, <1>6, <1>7, <1>8 DEF Next, Pass, Start, ScanGroup

LEMMA FiledStep ==
  ASSUME TypeOK, TypeOK', ChainInv, ChainInv', ShapeInv, WatchInv, GotInv,
         KnownInv, FiledUnderItsProject, Next
  PROVE  FiledUnderItsProject'
<1>t. rows \in [Vaults -> Row \cup {None}] /\ got \subseteq chain
      /\ \A e \in chain : e \in Event /\ e.vault \in Vaults
  BY DEF TypeOK, Event
<1>g. \A d \in chain : GivenUp(d) => GivenUp(d)'
  BY GivenUpStays
<1>1. ASSUME NEW v \in Vaults, GivenUp(DeployOf(v)), NEW e \in chain, e.vault = v
      PROVE  GivenUp(DeployOf(v))'
  <2>1. PICK d \in chain : d = DeployOf(v)
    BY <1>1, DeployFacts DEF TypeOK
  <2>2. DeployOf(v)' = d
    BY <1>1, <2>1, SettledStays DEF Stays
  <2> QED BY <1>1, <1>g, <2>1, <2>2
<1>2. ASSUME NEW e \in got, IsNext(e), phase = "handling", NEW both \in BOOLEAN,
             rows' = [rows EXCEPT ![e.vault] = RowFor(e, both)],
             NEW v \in Vaults, rows'[v] # None, rows'[v].id = "address"
      PROVE  GivenUp(DeployOf(v))'
  <2>1. e \in chain /\ e.vault \in Vaults
    BY <1>t
  <2>2. CASE v # e.vault \/ (rows[v] # None /\ rows[v].id = "address")
    <3>1. rows[v] # None /\ rows[v].id = "address"
      BY <1>2, <1>t, <2>1, <2>2
    <3>2. GivenUp(DeployOf(v))
      BY <3>1 DEF FiledUnderItsProject, Known
    <3>3. PICK f \in chain : f.vault = v
      BY <3>1 DEF KnownInv, Deployed
    <3> QED BY <1>1, <3>2, <3>3
  <2>3. CASE v = e.vault /\ ~(rows[v] # None /\ rows[v].id = "address")
    <3>1. rows'[v] = RowFor(e, both)
      BY <1>2, <1>t, <2>1, <2>3
    <3>2. ProjectId(e) = "address"
      BY <1>2, <3>1 DEF RowFor
    <3>3. e.kind # "DEPLOY" /\ rows[v] = None
      BY <2>3, <3>2 DEF ProjectId
    <3>4. v \in watched
      BY <1>2, <2>3, <3>3 DEF GotInv, Source
    <3>5. PICK d \in chain : d.kind = "DEPLOY" /\ d.vault = v /\ (d \in got \/ GivenUp(d))
      BY <1>2, <3>3, <3>4 DEF WatchInv
    <3>6. DeployOf(v) = d /\ (d = e \/ ChainOrder(d, e))
      BY <2>1, <2>3, <3>5, DeployFacts DEF TypeOK, ChainInv, OneDeploy
    <3>7. d # e
      BY <3>3, <3>5
    <3>8. d \notin got
      BY <1>2, <3>6, <3>7 DEF IsNext
    <3> QED BY <1>1, <2>1, <2>3, <3>5, <3>6, <3>8
  <2> QED BY <2>2, <2>3
<1>3. CASE Handle
  <2>1. PICK e \in got : IsNext(e) /\ rows' = [rows EXCEPT ![e.vault] = RowFor(e, TRUE)]
    BY <1>3 DEF Handle
  <2>2. phase = "handling"
    BY <1>3 DEF Handle
  <2> QED BY <1>2, <2>1, <2>2 DEF FiledUnderItsProject, Known
<1>4. ASSUME UNCHANGED rows PROVE FiledUnderItsProject'
  <2> SUFFICES ASSUME NEW v \in Vaults, rows[v] # None, rows[v].id = "address"
               PROVE  GivenUp(DeployOf(v))'
    BY <1>4 DEF FiledUnderItsProject, Known
  <2>1. PICK f \in chain : f.vault = v
    BY DEF KnownInv, Deployed
  <2> QED BY <1>1, <2>1 DEF FiledUnderItsProject, Known
<1>5. CASE Fail
  <2>1. PICK e \in got :
          IsNext(e) /\ (\/ UNCHANGED rows
                        \/ \E both \in BOOLEAN : rows' = [rows EXCEPT ![e.vault] = RowFor(e, both)])
    BY <1>5 DEF Fail
  <2>2. phase = "handling"
    BY <1>5 DEF Fail
  <2>3. CASE \E both \in BOOLEAN : rows' = [rows EXCEPT ![e.vault] = RowFor(e, both)]
    BY <1>2, <2>1, <2>2, <2>3 DEF FiledUnderItsProject, Known
  <2> QED BY <1>4, <2>1, <2>3
<1>6. CASE ~Handle /\ ~Fail
  <2>1. Start \/ ScanGroup => rows' = rows
    BY DEF Start, StartFrom, ScanGroup, ReadPages, dbVars
  <2>2. rows' = rows
    BY <1>6, <2>1 DEF Next, Pass, CloseLedger, Skip, Attempt, End, Crash, dbVars
  <2> QED BY <1>4, <2>2
<1> QED BY <1>3, <1>5, <1>6

LEMMA KnownStep == TypeOK /\ KnownInv /\ Next => KnownInv'
<1> SUFFICES ASSUME TypeOK, KnownInv, Next PROVE KnownInv'
  OBVIOUS
<1>1. ASSUME NEW e \in got, NEW both \in BOOLEAN, rows' = [rows EXCEPT ![e.vault] = RowFor(e, both)],
             chain' = chain
      PROVE  KnownInv'
  <2>1. e \in chain /\ rows \in [Vaults -> Row \cup {None}]
    BY DEF TypeOK
  <2> QED BY <1>1, <2>1 DEF KnownInv, Deployed
<1>2. CASE Handle
  BY <1>1, <1>2 DEF Handle, chainVars
<1>3. CASE Fail
  BY <1>1, <1>3 DEF Fail, chainVars, KnownInv, Deployed
<1>4. CASE CloseLedger
  BY <1>4 DEF CloseLedger, dbVars, KnownInv, Deployed
<1>5. CASE ~Handle /\ ~Fail /\ ~CloseLedger
  <2>1. Start \/ ScanGroup => rows' = rows
    BY DEF Start, StartFrom, ScanGroup, ReadPages, dbVars
  <2>2. rows' = rows
    BY <1>5, <2>1 DEF Next, Pass, Skip, Attempt, End, Crash, dbVars
  <2> QED BY <1>5, <2>2, LogKept DEF KnownInv, Deployed
<1> QED BY <1>2, <1>3, <1>4, <1>5

-----------------------------------------------------------------------------
(***************************************************************************)
(* The theorems                                                            *)
(***************************************************************************)

LEMMA InitInv == Init => IndInv
<1> SUFFICES ASSUME Init PROVE IndInv
  OBVIOUS
<1> USE IndexerAssumption DEF Init
<1>1. TypeOK
  BY DEF TypeOK
<1>2. ChainInv /\ ShapeInv
  BY DEF ChainInv, AllClosed, OnePerPlace, OneDeploy, DeployFirst, ShapeInv
<1>3. HandledIsMirrored /\ CursorPassesOnlySettledEvents
  BY DEF HandledIsMirrored, CursorPassesOnlySettledEvents
<1>4. PassInv /\ WatchInv /\ GotInv /\ KnownInv /\ FiledUnderItsProject
  BY DEF PassInv, WatchInv, GotInv, KnownInv, FiledUnderItsProject, Known
<1> QED BY <1>1, <1>2, <1>3, <1>4 DEF IndInv

LEMMA NextInv == IndInv /\ Next => IndInv'
<1> SUFFICES ASSUME IndInv, Next PROVE IndInv'
  OBVIOUS
<1> USE DEF IndInv
<1>1. TypeOK' /\ ChainInv'
  BY TypeStep, ChainStep
<1>2. ShapeInv' /\ HandledIsMirrored'
  BY ShapeStep, MirrorStep
<1>3. CursorPassesOnlySettledEvents'
  BY <1>1, CursorStep
<1>4. PassInv'
  BY <1>1, PassStep
<1>5. WatchInv'
  BY <1>1, <1>2, WatchStep
<1>6. FiledUnderItsProject'
  BY <1>1, FiledStep
<1>7. GotInv' /\ KnownInv'
  BY GotStep, KnownStep
<1> QED BY <1>1, <1>2, <1>3, <1>4, <1>5, <1>6, <1>7

LEMMA StutterInv == IndInv /\ UNCHANGED vars => IndInv'
<1> SUFFICES ASSUME IndInv, UNCHANGED vars PROVE IndInv'
  OBVIOUS
<1> USE DEF vars, chainVars, dbVars, scanVars, IndInv
<1>1. TypeOK' /\ ShapeInv'
  BY DEF TypeOK, ShapeInv, IsNext, ChainOrder
<1>2. ChainInv'
  BY DEF ChainInv, AllClosed, OnePerPlace, OneDeploy, DeployFirst, ChainOrder
<1>3. \A e : Explained(e) => Explained(e)'
  BY DEF Explained, Lost, GivenUp, Attempts, IsNext, ChainOrder, DeployOf
<1>4. HandledIsMirrored' /\ CursorPassesOnlySettledEvents'
  BY <1>3 DEF HandledIsMirrored, CursorPassesOnlySettledEvents
<1>5. PassInv'
  BY <1>3 DEF PassInv, Pending, Undiscovered, Source, DeployOf
<1>6. WatchInv' /\ GotInv' /\ KnownInv' /\ FiledUnderItsProject'
  BY DEF WatchInv, GotInv, KnownInv, FiledUnderItsProject, Known, Source, Deployed, GivenUp,
         Attempts, IsNext, ChainOrder, DeployOf
<1> QED BY <1>1, <1>2, <1>4, <1>5, <1>6

LEMMA IndexerInvariant == Spec => []IndInv
<1>1. IndInv /\ [Next]_vars => IndInv'
  BY NextInv, StutterInv
<1> QED BY InitInv, <1>1, PTL DEF Spec

\* The indexer's state is always of its type, and no attempt is ever made past
\* MAX_ATTEMPTS (handleEvents).
THEOREM IndexerTypes == Spec => []TypeOK
<1>1. IndInv => TypeOK
  BY DEF IndInv
<1> QED BY IndexerInvariant, <1>1, PTL

\* However passes fail, stop half way or restart, the cursor leaves behind it
\* only events that were handled, given up after MAX_ATTEMPTS, or out of reach
\* of the pass (collectEvents, handleEvents, cursorAfterPass).
THEOREM CursorIsSafe == Spec => []CursorPassesOnlySettledEvents
<1>1. IndInv => CursorPassesOnlySettledEvents
  BY DEF IndInv
<1> QED BY IndexerInvariant, <1>1, PTL

\* What is marked handled is in the mirror, as of that event or later
\* (handleEvent, syncVault).
THEOREM MirrorKeepsUp == Spec => []HandledIsMirrored
<1>1. IndInv => HandledIsMirrored
  BY DEF IndInv
<1> QED BY IndexerInvariant, <1>1, PTL

\* A vault is filed under its address only after its DEPLOY was given up
\* (chainOrder, collectEvents, syncVault).
THEOREM RowsAreFiledRight == Spec => []FiledUnderItsProject
<1>1. IndInv => FiledUnderItsProject
  BY DEF IndInv
<1> QED BY IndexerInvariant, <1>1, PTL

\* What was handled, given up or out of reach is never owed again.
THEOREM SettledStaysSettled == Spec => SettledForGood
<1>1. IndInv /\ IndInv' /\ [Next]_vars => [\A e \in chain : Explained(e) => Explained(e)']_vars
  BY ExplainedStays DEF IndInv
<1> QED BY IndexerInvariant, <1>1, PTL DEF Spec, SettledForGood

\* No row shows a ledger that has not closed.
RowsArePast == \A v \in Vaults : rows[v] # None => rows[v].seen <= latest

\* A row that is written shows at least what it showed, under the same project.
LEMMA RowForKeeps ==
  ASSUME TypeOK, RowsArePast, NEW e \in chain, NEW both \in BOOLEAN
  PROVE  /\ RowFor(e, both).seen \in 0..latest
         /\ rows[e.vault] # None =>
              /\ RowFor(e, both).seen >= rows[e.vault].seen
              /\ rows[e.vault].id = "project" => RowFor(e, both).id = "project"
<1>1. e.vault \in Vaults
  BY DEF TypeOK, Event
<1>2. rows[e.vault] # None => rows[e.vault].seen \in Nat /\ rows[e.vault].seen <= latest
  BY <1>1 DEF TypeOK, Row, RowsArePast
<1>3. latest \in Nat
  BY DEF TypeOK
<1>4. RowFor(e, both).seen \in 0..latest
      /\ (rows[e.vault] # None => RowFor(e, both).seen >= rows[e.vault].seen)
  BY <1>2, <1>3 DEF RowFor
<1>5. rows[e.vault] # None /\ rows[e.vault].id = "project" => RowFor(e, both).id = "project"
  BY DEF RowFor, ProjectId
<1> QED BY <1>4, <1>5

\* Each step of the mirror, or of the chain.
LEMMA MirrorKept ==
  ASSUME TypeOK, TypeOK', RowsArePast, Next
  PROVE  /\ RowsArePast'
         /\ \A v \in Known : /\ rows'[v] # None
                             /\ rows'[v].seen >= rows[v].seen
                             /\ rows[v].id = "project" => rows'[v].id = "project"
<1> DEFINE Onward == RowsArePast' /\ \A v \in Known :
             /\ rows'[v] # None
             /\ rows'[v].seen >= rows[v].seen
             /\ rows[v].id = "project" => rows'[v].id = "project"
<1> SUFFICES Onward OBVIOUS
<1>t. /\ rows \in [Vaults -> Row \cup {None}] /\ got \subseteq chain
      /\ latest \in Nat /\ latest' \in Nat /\ Known \subseteq Vaults
  BY DEF TypeOK, Known
<1>r. \A v \in Vaults : rows[v] # None => rows[v].seen \in Nat
  BY <1>t DEF Row
<1>1. ASSUME UNCHANGED rows, latest' >= latest
      PROVE  Onward
  BY <1>1, <1>t, <1>r DEF RowsArePast, Known
<1>2. ASSUME NEW e \in got, NEW both \in BOOLEAN, latest' = latest,
             rows' = [rows EXCEPT ![e.vault] = RowFor(e, both)]
      PROVE  Onward
  <2>1. e \in chain /\ e.vault \in Vaults
    BY <1>t DEF TypeOK, Event
  <2>2. RowFor(e, both) # None
    BY <2>1, RowType
  <2>3. /\ RowFor(e, both).seen \in 0..latest
        /\ rows[e.vault] # None =>
             /\ RowFor(e, both).seen >= rows[e.vault].seen
             /\ rows[e.vault].id = "project" => RowFor(e, both).id = "project"
    BY <2>1, RowForKeeps
  <2>4. \A v \in Vaults : rows'[v] = IF v = e.vault THEN RowFor(e, both) ELSE rows[v]
    BY <1>2, <1>t, <2>1
  <2>5. RowsArePast'
    BY <1>2, <1>t, <2>3, <2>4 DEF RowsArePast
  <2>6. ASSUME NEW v \in Known
        PROVE  /\ rows'[v] # None /\ rows'[v].seen >= rows[v].seen
               /\ rows[v].id = "project" => rows'[v].id = "project"
    <3>1. v \in Vaults /\ rows[v] # None /\ rows[v].seen \in Nat
      BY <1>r DEF Known
    <3>2. CASE v = e.vault
      BY <2>2, <2>3, <2>4, <3>1, <3>2
    <3>3. CASE v # e.vault
      BY <2>4, <3>1, <3>3
    <3> QED BY <3>2, <3>3
  <2> QED BY <2>5, <2>6
<1>3. CASE Handle
  BY <1>2, <1>3 DEF Handle, chainVars
<1>4. CASE Fail
  BY <1>1, <1>2, <1>4, <1>t DEF Fail, chainVars
<1>5. CASE ~Handle /\ ~Fail
  <2>1. Start \/ ScanGroup => rows' = rows /\ latest' = latest
    BY DEF Start, StartFrom, ScanGroup, ReadPages, dbVars, chainVars
  <2>2. rows' = rows /\ latest' >= latest
    BY <1>5, <1>t, <2>1 DEF Next, Pass, CloseLedger, Skip, Attempt, End, Crash, dbVars, chainVars
  <2> QED BY <1>1, <2>2
<1> QED BY <1>3, <1>4, <1>5

\* No step of the indexer takes the mirror back.
THEOREM MirrorMovesForward == Spec => MirrorNeverGoesBack
<1> DEFINE Forward == \A v \in Known : /\ rows'[v] # None
                                       /\ rows'[v].seen >= rows[v].seen
                                       /\ rows[v].id = "project" => rows'[v].id = "project"
<1>1. Init => RowsArePast
  BY DEF Init, RowsArePast
<1>2. IndInv /\ IndInv' /\ RowsArePast /\ [Next]_vars => RowsArePast'
  <2>1. RowsArePast /\ UNCHANGED vars => RowsArePast'
    BY DEF RowsArePast, vars, chainVars, dbVars
  <2> QED BY <2>1, MirrorKept DEF IndInv
<1>3. IndInv /\ IndInv' /\ RowsArePast /\ [Next]_vars => [Forward]_vars
  BY MirrorKept DEF IndInv
<1> QED BY IndexerInvariant, <1>1, <1>2, <1>3, PTL DEF Spec, MirrorNeverGoesBack

\* Where nothing was lost, every vault behind the cursor is in the mirror.
THEOREM MirrorIsWhole == Spec => []NothingLostIsMirrored
<1>1. IndInv => NothingLostIsMirrored
  <2> SUFFICES ASSUME IndInv, cursor # None, \A e \in chain : ~Lost(e),
                      NEW e \in chain, e.ledger <= cursor
               PROVE  /\ rows[e.vault] # None
                      /\ rows[e.vault].seen >= e.ledger /\ rows[e.vault].id = "project"
    BY DEF NothingLostIsMirrored
  <2>1. DeployOf(e.vault) \in chain
    BY DeployFacts DEF IndInv, TypeOK
  <2>2. e \in handled
    BY <2>1 DEF IndInv, CursorPassesOnlySettledEvents, Explained
  <2>3. rows[e.vault] # None /\ rows[e.vault].seen >= e.ledger
    BY <2>2 DEF IndInv, HandledIsMirrored
  <2>4. e.vault \in Vaults
    BY DEF IndInv, TypeOK, Event
  <2>5. rows[e.vault].id # "address"
    BY <2>1, <2>3, <2>4 DEF IndInv, FiledUnderItsProject, Known, Lost
  <2>6. rows[e.vault].id \in {"project", "address"}
    BY <2>3, <2>4 DEF IndInv, TypeOK, Row
  <2> QED BY <2>3, <2>5, <2>6
<1> QED BY IndexerInvariant, <1>1, PTL

=============================================================================
