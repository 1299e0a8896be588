----------------------------- MODULE KycProofs ------------------------------
(***************************************************************************)
(* What an identity check promises, for every number of reviewers, tabs    *)
(* and wallets, every set of documents and every length of the windows.    *)
(***************************************************************************)
EXTENDS Kyc, TLAPS

Signing == {"sign", "compare", "replace", "again"}
Filing  == {"insert", "update", "refile", "reread", "attach"}

-----------------------------------------------------------------------------
(***************************************************************************)
(* What the building blocks of the actions leave                           *)
(***************************************************************************)
\* The call s goes on to next, and the others keep what they have read, or
\* know no longer that it is current.
Passes(s, next) ==
  /\ job' \in [Sessions -> Maybe(Job)]
  /\ job'[s] = next
  /\ \A t \in Sessions \ {s} :
       /\ (job'[t] = None) <=> (job[t] = None)
       /\ job[t] # None =>
            /\ job'[t].step = job[t].step /\ job'[t].wallet = job[t].wallet
            /\ job'[t].hash = job[t].hash /\ job'[t].status = job[t].status
            /\ job'[t].fresh => job'[t] = job[t]

\* The same, and no other call is current.
Displaces(s, next) ==
  /\ Passes(s, next)
  /\ \A t \in Sessions \ {s} : job[t] # None => ~job'[t].fresh

LEMMA OvertakenDisplaces ==
  ASSUME TypeOK, NEW s \in Sessions, NEW next \in Maybe(Job), job' = Overtaken(s, next)
  PROVE  Displaces(s, next)
<1> USE KycAssumption
<1>1. \A t \in Sessions : job[t] # None => job[t] \in Job /\ [job[t] EXCEPT !.fresh = FALSE] \in Job
  BY DEF TypeOK, Maybe, Job
<1>2. \A t \in Sessions \ {s} : job'[t] = IF job[t] = None THEN None ELSE [job[t] EXCEPT !.fresh = FALSE]
  BY DEF Overtaken
<1>3. job' \in [Sessions -> Maybe(Job)] /\ job'[s] = next
  BY <1>1 DEF Overtaken, Maybe
<1>4. \A t \in Sessions : job[t] # None => [job[t] EXCEPT !.fresh = FALSE] # None
  BY <1>1
<1>5. \A j \in Job :
        LET k == [j EXCEPT !.fresh = FALSE]
        IN k.step = j.step /\ k.wallet = j.wallet /\ k.hash = j.hash /\ k.status = j.status /\ k.fresh = FALSE
  BY DEF Job
<1>6. ASSUME NEW t \in Sessions \ {s}
      PROVE  /\ (job'[t] = None) <=> (job[t] = None)
             /\ job[t] # None =>
                  /\ job'[t].step = job[t].step /\ job'[t].wallet = job[t].wallet
                  /\ job'[t].hash = job[t].hash /\ job'[t].status = job[t].status
                  /\ ~job'[t].fresh
  <2>1. CASE job[t] = None
    BY <2>1, <1>2
  <2>2. CASE job[t] # None
    <3>1. job[t] \in Job /\ job'[t] = [job[t] EXCEPT !.fresh = FALSE] /\ job'[t] # None
      BY <2>2, <1>1, <1>2, <1>4
    <3> QED BY <2>2, <3>1, <1>5
  <2> QED BY <2>1, <2>2
<1> QED BY <1>3, <1>6 DEF Displaces, Passes

LEMMA ContinuePasses ==
  ASSUME TypeOK, NEW s \in Sessions, NEW next \in Maybe(Job), job' = [job EXCEPT ![s] = next]
  PROVE  Passes(s, next) /\ \A t \in Sessions \ {s} : job'[t] = job[t]
BY DEF TypeOK, Passes

LEMMA ToIsJob ==
  ASSUME TypeOK, NEW s \in Sessions, job[s] # None, NEW step \in Steps
  PROVE  /\ To(s, step) \in Job
         /\ To(s, step) # None
         /\ To(s, step).step = step /\ To(s, step).wallet = job[s].wallet
         /\ To(s, step).hash = job[s].hash /\ To(s, step).status = job[s].status
         /\ To(s, step).fresh = job[s].fresh
<1>1. job[s] \in Job
  BY DEF TypeOK, Maybe
<1> QED BY <1>1, KycAssumption DEF To, Job

LEMMA SaveFields ==
  ASSUME TypeOK, NEW new \in Row, Save(new), row # None
  PROVE  /\ row' \in Row /\ row' # None
         /\ row'.status = new.status /\ row'.wallet = new.wallet /\ row'.filed = new.filed
         /\ row'.hash = new.hash /\ row'.at = today
         /\ row'.kept = Kept(new) /\ row'.until = Until(new)
<1>1. Kept(new) \in BOOLEAN /\ Until(new) \in Maybe(Nat)
  BY KycAssumption DEF Kept, Until, Row, Maybe
<1>2. row' \in Row
  BY <1>1 DEF Save, Row, TypeOK
<1>3. row' = [new EXCEPT !.until = Until(new), !.kept = Kept(new), !.at = today]
  BY DEF Save
<1>4. row'.status = new.status /\ row'.wallet = new.wallet /\ row'.filed = new.filed
      /\ row'.hash = new.hash /\ row'.at = today /\ row'.kept = Kept(new) /\ row'.until = Until(new)
  BY <1>3 DEF Row
<1> QED BY <1>2, <1>4, KycAssumption

-----------------------------------------------------------------------------
(***************************************************************************)
(* What a call knows                                                       *)
(***************************************************************************)
\* What a call has read is of its kind, and of the wallet on file if it read one.
Fits(s) == job[s] # None =>
  LET j == job[s] IN
  /\ s \in Tabs =>
       /\ j.step \in Filing /\ j.hash \in Hash /\ j.hash.wallet = j.wallet
       /\ j.step = "attach" => j.wallet # None
       /\ j.step \in {"insert", "update", "refile"} => j.hash.details \in Details
       /\ j.step # "insert" => row # None
  /\ s \in Reviewers =>
       /\ row # None /\ j.step \in Steps \ (Filing \cup {"end"})
       /\ j.wallet # None => row.wallet = j.wallet
       /\ j.step \in Signing => j.hash \in Hash
       /\ j.step \in Signing \cup {"unsign"} => j.wallet # None
  /\ s = Sweeper => row # None /\ j.step = "end"

\* What a call that nobody has overtaken has read is still so.
Current(s) == job[s] # None /\ job[s].fresh =>
  LET j == job[s] IN
  /\ s \in Tabs =>
       /\ j.step \in {"update", "refile"} => (row.wallet # None => row.wallet = j.wallet)
       /\ j.step = "attach" /\ row.kept => j.hash.details = row.filed
  /\ s \in Reviewers =>
       /\ row.status = j.status /\ row.wallet = j.wallet
       /\ j.step \in Signing => j.hash = row.hash
       /\ j.step = "decide" /\ j.wallet # None => record[j.wallet] = row.hash
       /\ j.step \in {"again", "clear", "reject"} /\ j.wallet # None => record[j.wallet] = None
  /\ s = Sweeper => today - row.at >= LIMIT

Shape == TypeOK /\ \A s \in Sessions : Fits(s) /\ Current(s)

RowStays == row # None => row' # None /\ (row.wallet # None => row'.wallet = row.wallet)

\* A reviewer's call is at one of the steps, or one was cut off or overtaken.
Undone(steps) == unsettled \/ \E r \in Reviewers : \E step \in steps : At(r, step)

RecordIsOfItsWallet ==
  \A w \in Wallets : record[w] # None => row # None /\ row.wallet = w

ApprovalHasAnEnd ==
  row # None /\ row.status = "approved" /\ row.until = None => Undone({"reject"})

RecordRunsOut ==
  \A w \in Wallets : record[w] # None /\ row.until = None => Undone({"decide", "reject"})

ApprovalOnRecord ==
  row # None /\ row.status = "approved" /\ row.wallet # None =>
    record[row.wallet] = row.hash \/ waiting \/ Undone({"again", "clear", "reject"})

IndInv ==
  /\ Shape
  /\ RecordIsOfItsWallet /\ ApprovalHasAnEnd /\ RecordRunsOut /\ ApprovalOnRecord

\* An action of the call s that writes needs a look at s only.
LEMMA WriteKeepsShape ==
  ASSUME Shape, NEW s \in Sessions, NEW next \in Maybe(Job), Displaces(s, next),
         TypeOK', RowStays, Fits(s)', Current(s)'
  PROVE  Shape'
<1>1. ASSUME NEW t \in Sessions \ {s}
      PROVE  Fits(t)' /\ Current(t)'
  <2>1. Fits(t)
    BY DEF Shape
  <2>2. Fits(t)'
    BY <2>1 DEF Fits, RowStays, Displaces, Passes
  <2>3. Current(t)'
    BY DEF Current, Displaces, Passes
  <2> QED BY <2>2, <2>3
<1> QED BY <1>1 DEF Shape

\* So does one that only reads.
LEMMA ReadKeepsShape ==
  ASSUME Shape, NEW s \in Sessions, NEW next \in Maybe(Job),
         job' = [job EXCEPT ![s] = next], UNCHANGED <<today, row, record>>,
         TypeOK', Fits(s)', Current(s)'
  PROVE  Shape'
<1>1. ASSUME NEW t \in Sessions \ {s}
      PROVE  Fits(t)' /\ Current(t)'
  <2>1. job'[t] = job[t] /\ Fits(t) /\ Current(t)
    BY DEF Shape, TypeOK
  <2> QED BY <2>1 DEF Fits, Current
<1> QED BY <1>1 DEF Shape

-----------------------------------------------------------------------------
(***************************************************************************)
(* The applicant's calls                                                   *)
(***************************************************************************)
LEMMA SubmitReadShape ==
  ASSUME Shape, NEW t \in Tabs, NEW d \in Details, NEW w \in Maybe(Wallets), SubmitRead(t, d, w)
  PROVE  Shape'
<1> USE KycAssumption
<1> DEFINE Filed(step) == [step |-> step, wallet |-> w, hash |-> [details |-> d, wallet |-> w],
                           status |-> None, fresh |-> TRUE]
<1>1. PICK step \in {"insert", "update", "refile"} :
        /\ Start(t, Filed(step))
        /\ step # "insert" => row # None
        /\ step # "insert" => (row.wallet # None => row.wallet = w)
  BY DEF SubmitRead
<1> DEFINE next == Filed(step)
<1>2. next \in Job /\ next # None /\ t \in Sessions
  <2>1. [details |-> d, wallet |-> w] \in Maybe(Hash) /\ None \in Maybe(Statuses) /\ step \in Steps
    BY DEF Hash, Maybe, Steps
  <2>2. next \in Job
    BY <2>1 DEF Job
  <2> QED BY <2>2 DEF Sessions
<1>3. job' = [job EXCEPT ![t] = next] /\ UNCHANGED <<today, linked, row, record, waiting, unsettled>>
  BY <1>1 DEF Start, SubmitRead
<1>4. next.step = step /\ next.wallet = w /\ next.hash \in Hash /\ next.hash.wallet = w
      /\ next.hash.details \in Details
  BY DEF Hash, Maybe
<1> HIDE DEF next
<1>5. job'[t] = next
  BY <1>2, <1>3 DEF Shape, TypeOK
<1>6. TypeOK'
  BY <1>1, <1>2, <1>3 DEF Shape, TypeOK, Start, Maybe, next
<1>7. Fits(t)' /\ Current(t)'
  BY <1>1, <1>3, <1>4, <1>5 DEF Fits, Current, Filing, Sessions
<1> QED BY <1>2, <1>3, <1>6, <1>7, ReadKeepsShape DEF next, Maybe

LEMMA InsertShape ==
  ASSUME Shape, NEW t \in Tabs, Insert(t)
  PROVE  Shape'
<1> USE KycAssumption
<1>1. t \in Sessions /\ None \in Maybe(Job) /\ job' = Overtaken(t, None)
  BY DEF Insert, Overtake, Sessions, Maybe
<1>2. Displaces(t, None)
  BY <1>1, OvertakenDisplaces DEF Shape
<1>3. job[t] \in Job /\ job[t].hash \in Hash /\ job[t].hash.details \in Details
  BY <1>1 DEF Insert, At, Shape, Fits, TypeOK, Maybe
<1>4. row' \in Row /\ row'.status = "pending" /\ row'.kept
  BY <1>3 DEF Insert, Row, Job, Maybe, Statuses, Shape, TypeOK
<1>5. TypeOK'
  BY <1>2, <1>4 DEF Shape, TypeOK, Insert, Overtake, Maybe, Displaces, Passes
<1>6. RowStays
  BY DEF Insert, RowStays
<1>7. Fits(t)' /\ Current(t)'
  BY <1>2 DEF Fits, Current, Displaces, Passes
<1> QED BY <1>1, <1>2, <1>5, <1>6, <1>7, WriteKeepsShape

LEMMA ResubmitShape ==
  ASSUME Shape, NEW t \in Tabs, Resubmit(t)
  PROVE  Shape'
<1> USE KycAssumption
<1> DEFINE next == AfterUpdate(t)
<1>1. t \in Sessions /\ job[t] # None /\ job[t] \in Job /\ row # None /\ row \in Row
      /\ job[t].hash \in Hash /\ job[t].hash.details \in Details /\ job[t].hash.wallet = job[t].wallet
  BY DEF Resubmit, At, Shape, Fits, TypeOK, Maybe, Sessions
<1>2. /\ next \in Maybe(Job)
      /\ next # None => /\ next.step = "reread" /\ next.hash = job[t].hash
                        /\ next.wallet = job[t].wallet
  BY <1>1, ToIsJob DEF AfterUpdate, Shape, Steps, Maybe
<1>3. ASSUME RowStays, job'[t] = next, row' # None
      PROVE  Fits(t)' /\ Current(t)'
  BY <1>1, <1>2, <1>3 DEF Fits, Current, RowStays, Filing, Sessions
<1>4. CASE row.status = "approved" /\ ~Due(row.until)
  <2>1. job' = [job EXCEPT ![t] = next] /\ UNCHANGED <<today, linked, row, record, calls, waiting, unsettled>>
    BY <1>4 DEF Resubmit, Continue
  <2> HIDE DEF next
  <2>2. job'[t] = next /\ RowStays /\ row' # None
    BY <1>1, <2>1 DEF Shape, TypeOK, RowStays
  <2>3. TypeOK'
    BY <1>2, <2>1 DEF Shape, TypeOK
  <2> QED BY <1>1, <1>2, <1>3, <2>1, <2>2, <2>3, ReadKeepsShape
<1>5. CASE ~(row.status = "approved" /\ ~Due(row.until))
  <2> DEFINE new == [row EXCEPT !.status = "pending", !.filed = job[t].hash.details, !.kept = TRUE,
                                !.hash = job[t].hash]
  <2>1. /\ Save(new) /\ job' = Overtaken(t, next) /\ waiting' = FALSE
        /\ UNCHANGED <<today, linked, record, calls, unsettled>>
    BY <1>5 DEF Resubmit, Overtake
  <2>2. new \in Row /\ new.status = "pending" /\ new.kept = TRUE /\ new.wallet = row.wallet
    BY <1>1 DEF Row, Statuses
  <2> HIDE DEF new, next
  <2>3. row' \in Row /\ row' # None /\ row'.status = "pending" /\ row'.kept /\ row'.wallet = row.wallet
    BY <1>1, <2>1, <2>2, SaveFields DEF Shape, Kept
  <2>4. Displaces(t, next)
    BY <1>1, <1>2, <2>1, OvertakenDisplaces DEF Shape
  <2>5. TypeOK'
    BY <2>1, <2>3, <2>4 DEF Shape, TypeOK, Displaces, Passes, Maybe
  <2>6. RowStays
    BY <2>3 DEF RowStays
  <2> QED BY <1>1, <1>2, <1>3, <2>3, <2>4, <2>5, <2>6, WriteKeepsShape DEF Displaces, Passes
<1> QED BY <1>4, <1>5

LEMMA AttachReadShape ==
  ASSUME Shape, NEW t \in Tabs, AttachRead(t)
  PROVE  Shape'
<1> USE KycAssumption
<1> DEFINE next == Attaching
<1>1. t \in Sessions /\ row # None /\ row \in Row /\ linked \in Wallets /\ linked # None
  BY DEF AttachRead, CanAttach, Shape, TypeOK, Maybe, Sessions
<1>2. /\ next \in Job /\ next.step = "attach" /\ next.wallet = linked /\ next.hash \in Hash
      /\ next.hash.wallet = linked /\ (row.kept => next.hash.details = row.filed)
  BY <1>1 DEF Attaching, Job, Steps, Hash, Maybe, Row
<1>3. job' = [job EXCEPT ![t] = next] /\ calls' \in 0..MaxCalls
      /\ UNCHANGED <<today, linked, row, record, waiting, unsettled>>
  BY DEF AttachRead, Start, Continue, Shape, TypeOK
<1> HIDE DEF next
<1>4. job'[t] = next
  BY <1>1, <1>3 DEF Shape, TypeOK
<1>5. TypeOK'
  BY <1>2, <1>3 DEF Shape, TypeOK, Maybe
<1>6. Fits(t)' /\ Current(t)'
  BY <1>1, <1>2, <1>3, <1>4 DEF Fits, Current, Filing, Sessions
<1> QED BY <1>1, <1>2, <1>3, <1>5, <1>6, ReadKeepsShape DEF Maybe

LEMMA AttachShape ==
  ASSUME Shape, NEW t \in Tabs, Attach(t)
  PROVE  Shape'
<1> USE KycAssumption
<1> DEFINE new == [row EXCEPT !.wallet = job[t].wallet, !.hash = job[t].hash]
<1>1. t \in Sessions /\ row # None /\ row \in Row /\ row.wallet = None /\ job[t] \in Job
      /\ job[t].wallet \in Wallets /\ job[t].hash \in Hash
  BY DEF Attach, StillWalletless, At, Shape, Fits, TypeOK, Maybe, Job, Sessions
<1>2. None \in Maybe(Job) /\ job' = Overtaken(t, None) /\ Save(new)
      /\ waiting' \in BOOLEAN /\ UNCHANGED <<today, linked, record, calls, unsettled>>
  BY DEF Attach, Overtake, Maybe
<1>3. new \in Row /\ new.status = row.status /\ new.wallet = job[t].wallet /\ new.kept = row.kept
  BY <1>1 DEF Row, Maybe
<1> HIDE DEF new
<1>4. row' \in Row /\ row' # None /\ row'.status = row.status
      /\ row'.kept = (row.kept /\ (row.status = "pending" \/ (row.status = "approved" /\ row'.wallet = None)))
  BY <1>1, <1>2, <1>3, SaveFields DEF Shape, Kept
<1>5. Displaces(t, None)
  BY <1>1, <1>2, OvertakenDisplaces DEF Shape
<1>6. TypeOK'
  BY <1>1, <1>2, <1>4, <1>5 DEF Shape, TypeOK, Displaces, Passes, Maybe
<1>7. RowStays
  BY <1>1, <1>4 DEF RowStays
<1>8. Fits(t)' /\ Current(t)'
  BY <1>5 DEF Fits, Current, Displaces, Passes
<1> QED BY <1>1, <1>2, <1>5, <1>6, <1>7, <1>8, WriteKeepsShape

-----------------------------------------------------------------------------
(***************************************************************************)
(* The reviewers' calls                                                    *)
(***************************************************************************)
LEMMA ReviewerFits ==
  ASSUME Shape, NEW r \in Reviewers, job[r] # None
  PROVE  /\ r \in Sessions /\ job[r] \in Job /\ row # None /\ row \in Row
         /\ job[r].step \in Steps \ (Filing \cup {"end"})
         /\ job[r].wallet \in Maybe(Wallets)
         /\ job[r].wallet # None => row.wallet = job[r].wallet
         /\ job[r].step \in Signing => job[r].hash \in Hash
         /\ job[r].step \in Signing \cup {"unsign"} => job[r].wallet \in Wallets
         /\ r \notin Tabs /\ r # Sweeper
<1>1. r \in Sessions /\ Fits(r) /\ r \notin Tabs /\ r # Sweeper
  BY KycAssumption DEF Shape, Sessions
<1>2. job[r] \in Job /\ row \in Maybe(Row)
  BY <1>1 DEF Shape, TypeOK, Maybe
<1>3. job[r].wallet \in Maybe(Wallets)
  BY <1>2 DEF Job
<1> QED BY <1>1, <1>2, <1>3 DEF Fits, Maybe

\* A call of a reviewer begins with what is on file.
LEMMA ReadShape ==
  ASSUME Shape, NEW r \in Reviewers, row # None,
         NEW step \in {"sign", "decide", "clear", "unsign"},
         NEW hash \in Maybe(Hash), Start(r, Read(step, hash)),
         step = "sign" => hash = row.hash,
         step \in {"sign", "unsign"} <=> row.wallet # None,
         UNCHANGED <<today, linked, row, record, waiting, unsettled>>
  PROVE  Shape'
<1> USE KycAssumption
<1> DEFINE next == Read(step, hash)
<1>1. r \in Sessions /\ row \in Row /\ r \notin Tabs /\ r # Sweeper
  BY DEF Sessions, Shape, TypeOK, Maybe
<1>2. /\ next \in Job /\ next.step = step /\ next.wallet = row.wallet /\ next.hash = hash
      /\ next.status = row.status
  BY <1>1 DEF Read, Job, Steps, Row, Maybe
<1>3. job' = [job EXCEPT ![r] = next] /\ calls' \in 0..MaxCalls
  BY DEF Start, Shape, TypeOK
<1>4. row.hash \in Hash
  BY <1>1 DEF Row
<1> HIDE DEF next
<1>5. job'[r] = next
  BY <1>1, <1>3 DEF Shape, TypeOK
<1>6. TypeOK'
  BY <1>2, <1>3 DEF Shape, TypeOK, Maybe
<1>7. Fits(r)' /\ Current(r)'
  BY <1>1, <1>2, <1>4, <1>5 DEF Fits, Current, Filing, Signing, Steps
<1> QED BY <1>1, <1>2, <1>3, <1>6, <1>7, ReadKeepsShape DEF Maybe

LEMMA AttestReadShape ==
  ASSUME Shape, NEW r \in Reviewers, AttestRead(r)
  PROVE  Shape'
<1>1. row \in Row /\ row # None
  BY DEF AttestRead, Shape, TypeOK, Maybe
<1>2. row.hash \in Maybe(Hash) /\ None \in Maybe(Hash)
  BY <1>1 DEF Row, Maybe
<1> QED BY <1>1, <1>2, ReadShape DEF AttestRead

LEMMA RevokeReadShape ==
  ASSUME Shape, NEW r \in Reviewers, RevokeRead(r)
  PROVE  Shape'
<1>1. None \in Maybe(Hash)
  BY DEF Maybe
<1> QED BY <1>1, ReadShape DEF RevokeRead

\* A reviewer's call that reads goes on, with what it had read.
LEMMA GoesOnShape ==
  ASSUME Shape, NEW r \in Reviewers, job[r] # None, NEW next \in Maybe(Job),
         Continue(r, next), UNCHANGED <<today, linked, row, record, waiting>>,
         unsettled' \in BOOLEAN,
         (job[r].fresh /\ next # None) => Current(r)',
         \/ next = None
         \/ \E step \in Steps \ (Filing \cup {"end"}) :
              next = To(r, step) /\ (step \in Signing => job[r].step \in Signing)
                                /\ (step = "unsign" => job[r].wallet # None)
  PROVE  Shape'
<1>1. /\ r \in Sessions /\ r \notin Tabs /\ r # Sweeper /\ row # None
      /\ job[r].wallet # None => row.wallet = job[r].wallet
      /\ job[r].step \in Signing => job[r].hash \in Hash /\ job[r].wallet # None
  BY ReviewerFits, KycAssumption DEF Maybe
<1>2. job' = [job EXCEPT ![r] = next] /\ calls' = calls /\ job'[r] = next
  BY <1>1 DEF Continue, Shape, TypeOK
<1>3. TypeOK'
  BY <1>2 DEF Shape, TypeOK
<1>4. Fits(r)' /\ Current(r)'
  <2>1. CASE next = None
    BY <2>1, <1>2 DEF Fits, Current
  <2>2. CASE next # None
    <3>1. PICK step \in Steps \ (Filing \cup {"end"}) :
             next = To(r, step) /\ (step \in Signing => job[r].step \in Signing)
                               /\ (step = "unsign" => job[r].wallet # None)
      BY <2>2
    <3>2. next.step = step /\ next.wallet = job[r].wallet /\ next.hash = job[r].hash
          /\ next.fresh = job[r].fresh
      BY <1>1, <3>1, ToIsJob DEF Shape
    <3>3. Fits(r)'
      BY <1>1, <1>2, <3>1, <3>2 DEF Fits, Signing
    <3>4. Current(r)'
      BY <1>2, <2>2, <3>2 DEF Current
    <3> QED BY <3>3, <3>4
  <2> QED BY <2>1, <2>2
<1> QED BY <1>1, <1>2, <1>3, <1>4, ReadKeepsShape

LEMMA SignShape ==
  ASSUME Shape, NEW r \in Reviewers, job[r] # None, job[r].step \in {"sign", "again"}, Sign(r, "decide")
  PROVE  Shape'
<1> USE KycAssumption
<1> DEFINE next == To(r, "decide")
<1>1. /\ r \in Sessions /\ r \notin Tabs /\ r # Sweeper /\ row # None /\ job[r] \in Job
      /\ job[r].wallet \in Wallets /\ row.wallet = job[r].wallet /\ job[r].hash \in Hash
  BY ReviewerFits DEF Signing
<1>2. /\ next \in Maybe(Job) /\ next # None /\ next.step = "decide" /\ next.wallet = job[r].wallet
      /\ next.status = job[r].status /\ next.hash = job[r].hash /\ next.fresh = job[r].fresh
  BY <1>1, ToIsJob DEF Shape, Steps, Maybe
<1>3. /\ job' = Overtaken(r, next) /\ UNCHANGED <<today, linked, row, calls, waiting>>
      /\ record' = [record EXCEPT ![job[r].wallet] = job[r].hash]
      /\ unsettled' \in BOOLEAN
  BY <1>1 DEF Sign, Overtake, Review, Shape, TypeOK, Job
<1> HIDE DEF next
<1>4. Displaces(r, next)
  BY <1>1, <1>2, <1>3, OvertakenDisplaces DEF Shape
<1>5. TypeOK'
  BY <1>1, <1>3, <1>4 DEF Shape, TypeOK, Displaces, Passes, Maybe
<1>6. RowStays
  BY <1>3 DEF RowStays
<1>7. job'[r] = next /\ record'[job[r].wallet] = job[r].hash
  BY <1>1, <1>3, <1>4 DEF Displaces, Passes, Shape, TypeOK
<1>8. Fits(r)' /\ Current(r)'
  <2>1. job[r].fresh => row.status = job[r].status /\ job[r].hash = row.hash
    BY <1>1 DEF Shape, Current, Signing
  <2> QED BY <1>1, <1>2, <1>3, <1>7, <2>1 DEF Fits, Current, Filing, Signing, Steps
<1> QED BY <1>1, <1>2, <1>4, <1>5, <1>6, <1>8, WriteKeepsShape

\* A wallet taken off the record.
LEMMA UnsignShape ==
  ASSUME Shape, NEW r \in Reviewers, job[r] # None, job[r].step \in {"replace", "unsign"},
         NEW step \in {"again", "clear"}, step = "again" => job[r].step = "replace",
         record' = [record EXCEPT ![job[r].wallet] = None],
         Overtake(r, To(r, step)), Review(r), UNCHANGED <<today, linked, row, waiting>>
  PROVE  Shape'
<1> USE KycAssumption
<1> DEFINE next == To(r, step)
<1>1. /\ r \in Sessions /\ r \notin Tabs /\ r # Sweeper /\ row # None /\ job[r] \in Job
      /\ job[r].wallet \in Wallets /\ row.wallet = job[r].wallet
      /\ job[r].step = "replace" => job[r].hash \in Hash
  BY ReviewerFits DEF Signing
<1>2. /\ next \in Maybe(Job) /\ next # None /\ next.step = step /\ next.wallet = job[r].wallet
      /\ next.status = job[r].status /\ next.hash = job[r].hash /\ next.fresh = job[r].fresh
  BY <1>1, ToIsJob DEF Shape, Steps, Maybe
<1>3. job' = Overtaken(r, next) /\ calls' = calls /\ unsettled' \in BOOLEAN
  BY <1>1 DEF Overtake, Review, Shape, TypeOK, Job
<1> HIDE DEF next
<1>4. Displaces(r, next)
  BY <1>1, <1>2, <1>3, OvertakenDisplaces DEF Shape
<1>5. TypeOK'
  BY <1>1, <1>3, <1>4 DEF Shape, TypeOK, Displaces, Passes, Maybe
<1>6. RowStays
  BY DEF RowStays
<1>7. job'[r] = next /\ record'[job[r].wallet] = None
  BY <1>1, <1>4 DEF Displaces, Passes, Shape, TypeOK
<1>8. Fits(r)' /\ Current(r)'
  <2>1. job[r].fresh => row.status = job[r].status /\ (step = "again" => job[r].hash = row.hash)
    BY <1>1 DEF Shape, Current, Signing
  <2> QED BY <1>1, <1>2, <1>7, <2>1 DEF Fits, Current, Filing, Signing, Steps
<1> QED BY <1>1, <1>2, <1>4, <1>5, <1>6, <1>8, WriteKeepsShape

LEMMA AttestSignShape ==
  ASSUME Shape, NEW r \in Reviewers, AttestSign(r)
  PROVE  Shape'
<1>1. job[r] # None /\ job[r].step = "sign"
  BY DEF AttestSign, At
<1>2. CASE record[job[r].wallet] = None
  BY <1>1, <1>2, SignShape DEF AttestSign
<1>3. CASE record[job[r].wallet] # None
  <2> DEFINE next == To(r, "compare")
  <2>1. Continue(r, next) /\ UNCHANGED <<today, linked, row, record, waiting, unsettled>>
    BY <1>3 DEF AttestSign
  <2>2. /\ next \in Maybe(Job) /\ next.step = "compare" /\ next.wallet = job[r].wallet
        /\ next.status = job[r].status /\ next.hash = job[r].hash /\ job'[r] = next
    BY <1>1, <2>1, ReviewerFits, ToIsJob DEF Shape, TypeOK, Steps, Maybe, Continue
  <2>3. (job[r].fresh /\ next # None) => Current(r)'
    BY <1>1, <2>1, <2>2, ReviewerFits DEF Shape, Current, Signing
  <2>4. "compare" \in Steps \ (Filing \cup {"end"}) /\ "sign" \in Signing /\ "compare" # "unsign"
    BY DEF Steps, Filing, Signing
  <2>5. unsettled' \in BOOLEAN
    BY <2>1 DEF Shape, TypeOK
  <2> HIDE DEF next
  <2>6. \E step \in Steps \ (Filing \cup {"end"}) :
           next = To(r, step) /\ (step \in Signing => job[r].step \in Signing)
                             /\ (step = "unsign" => job[r].wallet # None)
    BY <1>1, <2>4 DEF next
  <2> QED BY <1>1, <2>1, <2>2, <2>3, <2>5, <2>6, GoesOnShape
<1> QED BY <1>2, <1>3

LEMMA AttestCompareShape ==
  ASSUME Shape, NEW r \in Reviewers, AttestCompare(r)
  PROVE  Shape'
<1> DEFINE w == job[r].wallet
           step == IF record[w] = job[r].hash THEN "decide" ELSE "replace"
           next == IF record[w] = None THEN None ELSE To(r, step)
<1>1. job[r] # None /\ job[r].step = "compare"
  BY DEF AttestCompare, At
<1>2. Continue(r, next) /\ UNCHANGED <<today, linked, row, record, waiting, unsettled>>
  BY DEF AttestCompare, AfterCompare
<1>3. /\ next \in Maybe(Job)
      /\ next # None => /\ next.step = step /\ next.wallet = job[r].wallet
                        /\ next.status = job[r].status /\ next.hash = job[r].hash
      /\ job'[r] = next
  BY <1>1, <1>2, ReviewerFits, ToIsJob DEF Shape, TypeOK, Steps, Maybe, Continue
<1>4. (job[r].fresh /\ next # None) => Current(r)'
  <2> HIDE DEF next
  <2>1. job[r].fresh => row.status = job[r].status /\ row.wallet = w /\ job[r].hash = row.hash
    BY <1>1, ReviewerFits DEF Shape, Current, Signing
  <2> QED BY <1>1, <1>2, <1>3, <2>1, ReviewerFits DEF Current, Signing
<1>5. next = None \/ \E st \in Steps \ (Filing \cup {"end"}) :
         next = To(r, st) /\ (st \in Signing => job[r].step \in Signing)
                         /\ (st = "unsign" => job[r].wallet # None)
  <2>1. step \in Steps \ (Filing \cup {"end"}) /\ job[r].step \in Signing /\ step # "unsign"
    BY <1>1 DEF Steps, Filing, Signing
  <2> QED BY <2>1
<1>6. unsettled' \in BOOLEAN
  BY <1>2 DEF Shape, TypeOK
<1> HIDE DEF next
<1> QED BY <1>1, <1>2, <1>3, <1>4, <1>5, <1>6, GoesOnShape

LEMMA AttestReplaceShape ==
  ASSUME Shape, NEW r \in Reviewers, AttestReplace(r)
  PROVE  Shape'
<1>1. job[r] # None /\ job[r].step = "replace"
  BY DEF AttestReplace, At
<1>2. CASE record[job[r].wallet] = None
  <2>1. Continue(r, None) /\ UNCHANGED <<today, linked, row, record, waiting, unsettled>>
    BY <1>2 DEF AttestReplace
  <2>2. None \in Maybe(Job) /\ unsettled' \in BOOLEAN
    BY <2>1 DEF Maybe, Shape, TypeOK
  <2> QED BY <1>1, <2>1, <2>2, GoesOnShape
<1>3. CASE record[job[r].wallet] # None
  BY <1>1, <1>3, UnsignShape DEF AttestReplace
<1> QED BY <1>2, <1>3

LEMMA AttestAgainShape ==
  ASSUME Shape, NEW r \in Reviewers, AttestAgain(r)
  PROVE  Shape'
BY SignShape DEF AttestAgain, At

LEMMA RevokeSignShape ==
  ASSUME Shape, NEW r \in Reviewers, RevokeSign(r)
  PROVE  Shape'
<1>1. job[r] # None /\ job[r].step = "unsign"
  BY DEF RevokeSign, At
<1>2. CASE record[job[r].wallet] = None
  <2> DEFINE next == To(r, "clear")
  <2>1. Continue(r, next) /\ UNCHANGED <<today, linked, row, record, waiting, unsettled>>
    BY <1>2 DEF RevokeSign
  <2>2. /\ next \in Maybe(Job) /\ next.step = "clear" /\ next.wallet = job[r].wallet
        /\ next.status = job[r].status /\ job'[r] = next /\ unsettled' \in BOOLEAN
    BY <1>1, <2>1, ReviewerFits, ToIsJob DEF Shape, TypeOK, Steps, Maybe, Continue
  <2>3. (job[r].fresh /\ next # None) => Current(r)'
    BY <1>1, <1>2, <2>1, <2>2, ReviewerFits DEF Shape, Current, Signing
  <2>4. "clear" \in Steps \ (Filing \cup {"end"}) /\ "clear" \notin Signing /\ "clear" # "unsign"
    BY DEF Steps, Filing, Signing
  <2> HIDE DEF next
  <2>5. \E step \in Steps \ (Filing \cup {"end"}) :
           next = To(r, step) /\ (step \in Signing => job[r].step \in Signing)
                             /\ (step = "unsign" => job[r].wallet # None)
    BY <2>4 DEF next
  <2> QED BY <1>1, <2>1, <2>2, <2>3, <2>5, GoesOnShape
<1>3. CASE record[job[r].wallet] # None
  BY <1>1, <1>3, UnsignShape DEF RevokeSign
<1> QED BY <1>2, <1>3

\* A decision, by itself or at the last step of a reviewer's call.
LEMMA DecisionShape ==
  ASSUME Shape, NEW r \in Reviewers, row # None, NEW status \in {"approved", "rejected"},
         Decided(status), job' = Overtaken(r, None), calls' \in 0..MaxCalls,
         waiting' \in BOOLEAN, unsettled' \in BOOLEAN, UNCHANGED <<today, linked, record>>
  PROVE  Shape' /\ row' # None /\ row'.status = status /\ row'.wallet = row.wallet
         /\ row'.hash = row.hash /\ Displaces(r, None)
         /\ row'.until = IF status = "approved" /\ row.status # "approved" THEN Expiry[row.filed] ELSE row.until
<1> USE KycAssumption
<1> DEFINE new == [row EXCEPT !.status = status]
<1>1. r \in Sessions /\ None \in Maybe(Job) /\ row \in Row
  BY DEF Sessions, Shape, TypeOK, Maybe
<1>2. Save(new)
  BY DEF Decided
<1>3. new \in Row /\ new.status = status /\ new.wallet = row.wallet /\ new.hash = row.hash
      /\ new.filed = row.filed /\ new.until = row.until
  BY <1>1 DEF Row, Statuses
<1> HIDE DEF new
<1>4. /\ row' \in Row /\ row' # None /\ row'.status = status /\ row'.wallet = row.wallet
      /\ row'.hash = row.hash
      /\ row'.kept => status = "approved" /\ row.wallet = None
      /\ row'.until = IF status = "approved" /\ row.status # "approved" THEN Expiry[row.filed] ELSE row.until
  BY <1>1, <1>2, <1>3, SaveFields DEF Shape, Kept, Until
<1>5. Displaces(r, None)
  BY <1>1, OvertakenDisplaces DEF Shape
<1>6. TypeOK'
  BY <1>4, <1>5 DEF Shape, TypeOK, Displaces, Passes, Maybe
<1>7. RowStays
  BY <1>4 DEF RowStays
<1>8. Fits(r)' /\ Current(r)'
  BY <1>5 DEF Fits, Current, Displaces, Passes
<1>9. Shape'
  BY <1>1, <1>5, <1>6, <1>7, <1>8, WriteKeepsShape
<1> QED BY <1>4, <1>5, <1>9

\* Whichever action decides, it writes the row in one way.
LEMMA DecidingIsDecision ==
  ASSUME Shape, NEW r \in Reviewers, NEW status \in {"approved", "rejected"},
         \/ Decide(r, status)
         \/ status = "approved" /\ AttestDecide(r)
         \/ status = "rejected" /\ RevokeDecide(r)
  PROVE  /\ row # None /\ Decided(status) /\ job' = Overtaken(r, None) /\ calls' \in 0..MaxCalls
         /\ waiting' \in BOOLEAN /\ unsettled' \in BOOLEAN /\ UNCHANGED <<today, linked, record>>
<1>1. CASE Decide(r, status)
  <2>1. waiting' \in BOOLEAN
    BY <1>1 DEF Decide
  <2>2. calls' \in 0..MaxCalls
    BY <1>1, KycAssumption DEF Decide, Shape, TypeOK
  <2> QED BY <1>1, <2>1, <2>2 DEF Decide, Shape, TypeOK
<1>2. CASE status = "approved" /\ AttestDecide(r)
  <2>1. unsettled' \in BOOLEAN
    BY <1>2 DEF AttestDecide, Shape, TypeOK
  <2>2. row # None
    BY <1>2, ReviewerFits DEF AttestDecide, At
  <2> QED BY <1>2, <2>1, <2>2 DEF AttestDecide, Overtake, Shape, TypeOK
<1>3. CASE status = "rejected" /\ RevokeDecide(r)
  <2>1. unsettled' \in BOOLEAN
    BY <1>3 DEF RevokeDecide, Review, Shape, TypeOK
  <2>2. row # None
    BY <1>3, ReviewerFits DEF RevokeDecide, At
  <2> QED BY <1>3, <2>1, <2>2 DEF RevokeDecide, Overtake, Shape, TypeOK
<1> QED BY <1>1, <1>2, <1>3

LEMMA DecideShape ==
  ASSUME Shape, NEW r \in Reviewers, NEW status \in {"approved", "rejected"},
         \/ Decide(r, status)
         \/ status = "approved" /\ AttestDecide(r)
         \/ status = "rejected" /\ RevokeDecide(r)
  PROVE  Shape' /\ row # None /\ row' # None /\ row'.status = status /\ row'.wallet = row.wallet
         /\ row'.hash = row.hash /\ Displaces(r, None)
         /\ row'.until = IF status = "approved" /\ row.status # "approved" THEN Expiry[row.filed] ELSE row.until
BY DecidingIsDecision, DecisionShape

LEMMA RevokeClearShape ==
  ASSUME Shape, NEW r \in Reviewers, RevokeClear(r)
  PROVE  /\ Shape' /\ row' # None /\ row'.status = row.status /\ row'.wallet = row.wallet
         /\ row'.hash = row.hash /\ row'.until = None
         /\ Displaces(r, IF job[r].status = "pending" THEN None ELSE To(r, "reject"))
<1> USE KycAssumption
<1> DEFINE new  == [row EXCEPT !.until = None]
           next == IF job[r].status = "pending" THEN None ELSE To(r, "reject")
<1>1. job[r] # None /\ job[r].step = "clear"
  BY DEF RevokeClear, At
<1>2. /\ r \in Sessions /\ row \in Row /\ row # None /\ r \notin Tabs /\ r # Sweeper
      /\ job[r] \in Job
      /\ job[r].wallet # None => row.wallet = job[r].wallet
  BY <1>1, ReviewerFits DEF Maybe
<1>3. /\ Save(new) /\ job' = Overtaken(r, next) /\ calls' = calls /\ unsettled' \in BOOLEAN
      /\ UNCHANGED <<today, linked, record, waiting>>
  BY <1>2 DEF RevokeClear, Overtake, Review, Shape, TypeOK, Job
<1>4. new \in Row /\ new.status = row.status /\ new.wallet = row.wallet /\ new.kept = row.kept
      /\ new.hash = row.hash /\ new.until = None
  BY <1>2 DEF Row, Maybe
<1>5. /\ next \in Maybe(Job)
      /\ next # None => /\ next.step = "reject" /\ next.wallet = job[r].wallet
                        /\ next.status = job[r].status /\ next.fresh = job[r].fresh
  BY <1>1, <1>2, ToIsJob DEF Shape, Steps, Maybe
<1> HIDE DEF new, next
<1>6. /\ row' \in Row /\ row' # None /\ row'.status = row.status /\ row'.wallet = row.wallet
      /\ row'.hash = row.hash /\ row'.until = None
      /\ row'.kept = (row.kept /\ (row.status = "pending" \/ (row.status = "approved" /\ row.wallet = None)))
  BY <1>2, <1>3, <1>4, SaveFields DEF Shape, Kept, Until
<1>7. Displaces(r, next)
  BY <1>2, <1>3, <1>5, OvertakenDisplaces DEF Shape
<1>8. TypeOK'
  BY <1>2, <1>3, <1>6, <1>7 DEF Shape, TypeOK, Displaces, Passes, Maybe
<1>9. RowStays
  BY <1>6 DEF RowStays
<1>10. job'[r] = next /\ record' = record
  BY <1>3, <1>7 DEF Displaces, Passes
<1>11. Fits(r)' /\ Current(r)'
  <2>1. job[r].fresh => /\ row.status = job[r].status /\ row.wallet = job[r].wallet
                        /\ job[r].wallet # None => record[job[r].wallet] = None
    BY <1>1, <1>2 DEF Shape, Current, Signing
  <2>2. "reject" \in Steps \ (Filing \cup {"end"}) /\ "reject" \notin Signing \cup {"unsign"}
    BY DEF Steps, Filing, Signing
  <2>3. Fits(r)'
    BY <1>2, <1>5, <1>6, <1>10, <2>2 DEF Fits
  <2>4. Current(r)'
    BY <1>2, <1>5, <1>6, <1>10, <2>1 DEF Current, Signing
  <2> QED BY <2>3, <2>4
<1>12. Shape'
  BY <1>2, <1>5, <1>7, <1>8, <1>9, <1>11, WriteKeepsShape
<1> QED BY <1>6, <1>7, <1>12 DEF next

-----------------------------------------------------------------------------
(***************************************************************************)
(* The sweep, and the rest                                                 *)
(***************************************************************************)
LEMMA SweepScanShape ==
  ASSUME Shape, SweepScan
  PROVE  Shape'
<1> USE KycAssumption
<1> DEFINE next == Read("end", None)
<1>1. Sweeper \in Sessions /\ Sweeper \notin Tabs \cup Reviewers /\ row \in Row /\ row # None
  BY DEF SweepScan, Sessions, Shape, TypeOK, Maybe
<1>2. next \in Job /\ next.step = "end"
  BY <1>1 DEF Read, Job, Steps, Row, Maybe
<1>3. /\ job' = [job EXCEPT ![Sweeper] = next] /\ calls' \in 0..MaxCalls /\ today - row.at >= LIMIT
      /\ UNCHANGED <<today, linked, row, record, waiting, unsettled>>
  BY DEF SweepScan, Start, Shape, TypeOK
<1> HIDE DEF next
<1>4. job'[Sweeper] = next
  BY <1>1, <1>3 DEF Shape, TypeOK
<1>5. TypeOK'
  BY <1>2, <1>3 DEF Shape, TypeOK, Maybe
<1>6. Fits(Sweeper)' /\ Current(Sweeper)'
  BY <1>1, <1>2, <1>3, <1>4 DEF Fits, Current
<1> QED BY <1>1, <1>2, <1>3, <1>5, <1>6, ReadKeepsShape DEF Maybe

\* An approval ended by the sweep had no wallet when it ended.
LEMMA SweepEndShape ==
  ASSUME Shape, SweepEnd
  PROVE  /\ Shape' /\ row # None /\ record' = record /\ unsettled' = unsettled /\ waiting' = waiting
         /\ \/ /\ row.wallet = None /\ row' # None /\ row'.status = "rejected" /\ row'.wallet = None
               /\ row.status = "approved" /\ today - row.at >= LIMIT
               /\ Displaces(Sweeper, None)
            \/ row' = row /\ job' = [job EXCEPT ![Sweeper] = None]
<1> USE KycAssumption
<1>1. /\ Sweeper \in Sessions /\ Sweeper \notin Tabs \cup Reviewers /\ None \in Maybe(Job)
      /\ job[Sweeper] # None /\ row \in Row /\ row # None
  BY DEF SweepEnd, At, Sessions, Shape, Fits, TypeOK, Maybe
<1>2. UNCHANGED <<today, linked, record, waiting, unsettled>>
  BY DEF SweepEnd
<1>3. CASE EndsScanned(job[Sweeper].fresh)
  <2> DEFINE new == [row EXCEPT !.status = "rejected", !.until = None]
  <2>1. Save(new) /\ job' = Overtaken(Sweeper, None) /\ calls' = calls
    BY <1>3 DEF SweepEnd, Overtake
  <2>2. new \in Row /\ new.status = "rejected" /\ new.wallet = row.wallet
    BY <1>1 DEF Row, Statuses, Maybe
  <2> HIDE DEF new
  <2>3. row' \in Row /\ row' # None /\ row'.status = "rejected" /\ ~row'.kept /\ row'.wallet = row.wallet
    BY <1>1, <2>1, <2>2, SaveFields DEF Shape, Kept
  <2>4. Displaces(Sweeper, None)
    BY <1>1, <2>1, OvertakenDisplaces DEF Shape
  <2>5. TypeOK'
    BY <1>2, <2>1, <2>3, <2>4 DEF Shape, TypeOK, Displaces, Passes, Maybe
  <2>6. RowStays
    BY <2>3 DEF RowStays
  <2>7. Fits(Sweeper)' /\ Current(Sweeper)'
    BY <2>4 DEF Fits, Current, Displaces, Passes
  <2>8. Shape'
    BY <1>1, <2>4, <2>5, <2>6, <2>7, WriteKeepsShape
  <2>9. row.wallet = None /\ row.status = "approved" /\ today - row.at >= LIMIT
    BY <1>1, <1>3 DEF EndsScanned, Walletless, Shape, Current
  <2> QED BY <1>1, <1>2, <2>3, <2>4, <2>8, <2>9
<1>4. CASE ~EndsScanned(job[Sweeper].fresh)
  <2>1. job' = [job EXCEPT ![Sweeper] = None] /\ UNCHANGED <<row, calls>>
    BY <1>4 DEF SweepEnd, Continue
  <2>2. job'[Sweeper] = None
    BY <1>1, <2>1 DEF Shape, TypeOK
  <2>3. TypeOK'
    BY <1>1, <1>2, <2>1 DEF Shape, TypeOK
  <2>4. Fits(Sweeper)' /\ Current(Sweeper)'
    BY <2>2 DEF Fits, Current
  <2>5. Shape'
    BY <1>1, <1>2, <2>1, <2>3, <2>4, ReadKeepsShape
  <2> QED BY <1>1, <1>2, <2>1, <2>5
<1> QED BY <1>3, <1>4

LEMMA CutOffShape ==
  ASSUME Shape, NEW s \in Sessions, CutOff(s)
  PROVE  Shape'
<1>1. /\ job' = [job EXCEPT ![s] = None] /\ calls' = calls /\ None \in Maybe(Job)
      /\ UNCHANGED <<today, linked, row, record, waiting>> /\ unsettled' \in BOOLEAN
  BY DEF CutOff, Continue, Midway, Shape, TypeOK, Maybe
<1>2. job'[s] = None
  BY <1>1 DEF Shape, TypeOK
<1>3. TypeOK'
  BY <1>1 DEF Shape, TypeOK
<1>4. Fits(s)' /\ Current(s)'
  BY <1>2 DEF Fits, Current
<1> QED BY <1>1, <1>3, <1>4, ReadKeepsShape

\* Neither a linked wallet nor a new day changes what a call knows.
LEMMA OutsideShape ==
  ASSUME Shape, Link \/ NextDay
  PROVE  Shape' /\ UNCHANGED <<row, record, job, waiting, unsettled>>
<1> USE KycAssumption
<1>1. UNCHANGED <<row, record, job, waiting, unsettled>> /\ today' \in Days /\ today' >= today
  BY DEF Link, NextDay, Shape, TypeOK, Days
<1>2. TypeOK'
  BY <1>1 DEF Link, NextDay, Shape, TypeOK, Maybe
<1>3. ASSUME NEW s \in Sessions
      PROVE  Fits(s)' /\ Current(s)'
  <2>1. Fits(s) /\ Current(s)
    BY DEF Shape
  <2>2. Fits(s)'
    BY <1>1, <2>1 DEF Fits
  <2>3. s = Sweeper /\ job[s] # None => row \in Row /\ row.at \in Days
    BY <2>1 DEF Fits, Shape, TypeOK, Maybe, Row
  <2>4. Current(s)'
    BY <1>1, <2>1, <2>3 DEF Current, Days, Shape, TypeOK
  <2> QED BY <2>2, <2>4
<1> QED BY <1>1, <1>2, <1>3 DEF Shape

LEMMA StutterShape ==
  ASSUME Shape, UNCHANGED vars
  PROVE  Shape'
BY DEF Shape, TypeOK, Fits, Current, At, vars

LEMMA InitShape == Init => IndInv
<1> SUFFICES ASSUME Init PROVE IndInv
  OBVIOUS
<1> USE KycAssumption
<1>1. TypeOK
  <2>1. today \in Days /\ linked \in Maybe(Wallets) /\ calls \in 0..MaxCalls /\ row = None /\ row \in Maybe(Row)
    BY DEF Init, Maybe, Days
  <2>2. record \in [Wallets -> Maybe(Hash)] /\ job \in [Sessions -> Maybe(Job)]
    BY DEF Init, Maybe
  <2>3. waiting \in BOOLEAN /\ unsettled \in BOOLEAN
    BY DEF Init
  <2> QED BY <2>1, <2>2, <2>3 DEF TypeOK
<1>2. Shape
  BY <1>1 DEF Init, Shape, Fits, Current
<1>3. RecordIsOfItsWallet /\ ApprovalHasAnEnd /\ RecordRunsOut /\ ApprovalOnRecord
  BY DEF Init, RecordIsOfItsWallet, ApprovalHasAnEnd, RecordRunsOut, ApprovalOnRecord
<1> QED BY <1>2, <1>3 DEF IndInv

LEMMA NextShape ==
  ASSUME Shape, [Next]_vars
  PROVE  Shape'
<1>1. ASSUME NEW t \in Tabs, Applicant(t) PROVE Shape'
  BY <1>1, SubmitReadShape, InsertShape, ResubmitShape, AttachReadShape, AttachShape DEF Applicant
<1>2. ASSUME NEW r \in Reviewers, Reviewer(r) PROVE Shape'
  BY <1>2, DecideShape, AttestReadShape, AttestSignShape, AttestCompareShape, AttestReplaceShape,
     AttestAgainShape, RevokeReadShape, RevokeSignShape, RevokeClearShape DEF Reviewer
<1> QED BY <1>1, <1>2, SweepScanShape, SweepEndShape, CutOffShape, OutsideShape, StutterShape DEF Next

-----------------------------------------------------------------------------
(***************************************************************************)
(* The record and the row                                                  *)
(***************************************************************************)
Mid == {"again", "decide", "clear", "reject"}

\* A step of s leaves every other call where it was.
LEMMA UndoneStays ==
  ASSUME NEW s \in Sessions, NEW next, Passes(s, next), unsettled => unsettled',
         NEW steps, \A step \in steps : At(s, step) => unsettled' \/ At(s, step)',
         Undone(steps)
  PROVE  Undone(steps)'
<1>1. CASE unsettled
  BY <1>1 DEF Undone
<1>2. CASE ~unsettled
  <2>1. PICK r \in Reviewers : \E step \in steps : At(r, step)
    BY <1>2 DEF Undone
  <2>2. PICK step \in steps : At(r, step)
    BY <2>1
  <2>3. r # s => At(r, step)'
    BY <2>2 DEF At, Passes, Sessions
  <2> QED BY <2>2, <2>3 DEF Undone
<1> QED BY <1>1, <1>2

\* A step that writes neither the row nor the record.
LEMMA QuietKeeps ==
  ASSUME IndInv, Shape', NEW s \in Sessions, NEW next, job' = [job EXCEPT ![s] = next],
         UNCHANGED <<row, record, waiting>>, unsettled => unsettled',
         \A step \in Mid : At(s, step) => unsettled'
  PROVE  IndInv'
<1>1. Passes(s, next)
  BY DEF IndInv, Shape, TypeOK, Passes
<1>2. ASSUME NEW steps \in SUBSET Mid, Undone(steps)
      PROVE  Undone(steps)'
  BY <1>1, <1>2, UndoneStays
<1>3. Undone({"reject"}) => Undone({"reject"})'
  BY <1>2 DEF Mid
<1>4. Undone({"decide", "reject"}) => Undone({"decide", "reject"})'
  BY <1>2 DEF Mid
<1>5. Undone({"again", "clear", "reject"}) => Undone({"again", "clear", "reject"})'
  BY <1>2 DEF Mid
<1> QED BY <1>3, <1>4, <1>5
     DEF IndInv, RecordIsOfItsWallet, ApprovalHasAnEnd, RecordRunsOut, ApprovalOnRecord

\* The calls of the applicant and of the sweep excuse nothing.
LEMMA OtherUndone ==
  ASSUME Shape, NEW s \in Sessions, s \notin Reviewers \/ job[s] = None, NEW next, Passes(s, next),
         unsettled' = unsettled, NEW steps, Undone(steps)
  PROVE  Undone(steps)'
<1>1. ASSUME NEW step \in steps, At(s, step), s \in Reviewers
      PROVE  FALSE
  BY <1>1 DEF At
<1>2. CASE unsettled
  BY <1>2 DEF Undone
<1>3. CASE ~unsettled
  <2>1. PICK r \in Reviewers : \E step \in steps : At(r, step)
    BY <1>3 DEF Undone
  <2>2. PICK step \in steps : At(r, step)
    BY <2>1
  <2>3. At(r, step)'
    BY <1>1, <2>2 DEF At, Passes, Sessions
  <2> QED BY <2>2, <2>3 DEF Undone
<1> QED BY <1>2, <1>3

-----------------------------------------------------------------------------
LEMMA ApplicantKeeps ==
  ASSUME IndInv, NEW t \in Tabs, Applicant(t)
  PROVE  IndInv'
<1> USE KycAssumption
<1>1. Shape /\ Shape' /\ t \in Sessions /\ t \notin Reviewers
  BY NextShape DEF IndInv, Next, Sessions
<1>2. \A step \in Mid : ~At(t, step)
  <2>1. Fits(t)
    BY <1>1 DEF Shape
  <2> QED BY <2>1 DEF Fits, At, Mid, Filing
<1>3. CASE \E d \in Details, w \in Maybe(Wallets) : SubmitRead(t, d, w)
  <2>1. PICK d \in Details, w \in Maybe(Wallets) : SubmitRead(t, d, w)
    BY <1>3
  <2>2. \E next : job' = [job EXCEPT ![t] = next]
    BY <2>1 DEF SubmitRead, Start
  <2>3. UNCHANGED <<row, record, waiting, unsettled>>
    BY <2>1 DEF SubmitRead
  <2> QED BY <1>1, <1>2, <2>2, <2>3, QuietKeeps
<1>4. CASE AttachRead(t)
  <2>1. \E next : job' = [job EXCEPT ![t] = next]
    BY <1>4 DEF AttachRead, Start, Continue
  <2>2. UNCHANGED <<row, record, waiting, unsettled>>
    BY <1>4 DEF AttachRead
  <2> QED BY <1>1, <1>2, <2>1, <2>2, QuietKeeps
<1>5. CASE Insert(t)
  <2>1. row = None /\ row'.status = "pending" /\ record' = record
    BY <1>5 DEF Insert
  <2>2. \A w \in Wallets : record[w] = None
    BY <2>1 DEF IndInv, RecordIsOfItsWallet
  <2> QED BY <1>1, <2>1, <2>2 DEF IndInv, RecordIsOfItsWallet, ApprovalHasAnEnd, RecordRunsOut, ApprovalOnRecord
<1>6. CASE Resubmit(t)
  <2>1. job[t] \in Job /\ row # None /\ row \in Row /\ job[t].hash \in Hash /\ job[t].hash.details \in Details
    BY <1>1, <1>6 DEF Resubmit, At, Shape, Fits, TypeOK, Maybe
  <2>2. CASE row.status = "approved" /\ ~Due(row.until)
    <3>1. job' = [job EXCEPT ![t] = AfterUpdate(t)] /\ UNCHANGED <<row, record, waiting, unsettled>>
      BY <1>6, <2>2 DEF Resubmit, Continue
    <3> QED BY <1>1, <1>2, <3>1, QuietKeeps
  <2>3. CASE ~(row.status = "approved" /\ ~Due(row.until))
    <3> DEFINE new == [row EXCEPT !.status = "pending", !.filed = job[t].hash.details, !.kept = TRUE,
                                  !.hash = job[t].hash]
    <3>1. Save(new) /\ job' = Overtaken(t, AfterUpdate(t)) /\ UNCHANGED <<record, unsettled>>
      BY <1>6, <2>3 DEF Resubmit, Overtake
    <3>2. new \in Row /\ new.status = "pending" /\ new.wallet = row.wallet /\ new.until = row.until
      BY <2>1 DEF Row, Statuses
    <3> HIDE DEF new
    <3>3. row' # None /\ row'.status = "pending" /\ row'.wallet = row.wallet /\ row'.until = row.until
      BY <1>1, <2>1, <3>1, <3>2, SaveFields DEF Shape, Until
    <3>4. AfterUpdate(t) \in Maybe(Job)
      BY <1>1, <1>6, ToIsJob DEF AfterUpdate, Shape, Steps, Maybe, At
    <3>5. Passes(t, AfterUpdate(t))
      BY <1>1, <3>1, <3>4, OvertakenDisplaces DEF Shape, Displaces
    <3>6. Undone({"decide", "reject"}) => Undone({"decide", "reject"})'
      BY <1>1, <3>1, <3>5, OtherUndone
    <3> QED BY <1>1, <2>1, <3>1, <3>3, <3>6
         DEF IndInv, RecordIsOfItsWallet, ApprovalHasAnEnd, RecordRunsOut, ApprovalOnRecord
  <2> QED BY <2>2, <2>3
<1>7. CASE Attach(t)
  <2> DEFINE new == [row EXCEPT !.wallet = job[t].wallet, !.hash = job[t].hash]
  <2>1. /\ row # None /\ row \in Row /\ row.wallet = None /\ job[t] \in Job
        /\ job[t].wallet \in Wallets /\ job[t].hash \in Hash
    BY <1>1, <1>7 DEF Attach, StillWalletless, At, Shape, Fits, TypeOK, Maybe, Job, Sessions
  <2>2. Save(new) /\ job' = Overtaken(t, None) /\ waiting' = (row.status = "approved")
        /\ UNCHANGED <<record, unsettled>> /\ None \in Maybe(Job)
    BY <1>7 DEF Attach, Overtake, Maybe
  <2>3. new \in Row /\ new.status = row.status /\ new.until = row.until
    BY <2>1 DEF Row, Maybe
  <2> HIDE DEF new
  <2>4. row' # None /\ row'.status = row.status /\ row'.until = row.until
    BY <1>1, <2>1, <2>2, <2>3, SaveFields DEF Shape, Until
  <2>5. Passes(t, None)
    BY <1>1, <2>2, OvertakenDisplaces DEF Shape, Displaces
  <2>6. Undone({"reject"}) => Undone({"reject"})'
    BY <1>1, <2>2, <2>5, OtherUndone
  <2>7. \A w \in Wallets : record[w] = None
    BY <2>1 DEF IndInv, RecordIsOfItsWallet
  <2> QED BY <1>1, <2>1, <2>2, <2>4, <2>6, <2>7
       DEF IndInv, RecordIsOfItsWallet, ApprovalHasAnEnd, RecordRunsOut, ApprovalOnRecord
<1> QED BY <1>3, <1>4, <1>5, <1>6, <1>7 DEF Applicant

-----------------------------------------------------------------------------
\* A wallet put on the record, to be approved next.
LEMMA SignKeeps ==
  ASSUME IndInv, NEW r \in Reviewers, job[r] # None, job[r].step \in {"sign", "again"}, Sign(r, "decide")
  PROVE  IndInv'
<1> DEFINE next == To(r, "decide")
           w == job[r].wallet
<1>1. Shape /\ Shape'
  BY SignShape DEF IndInv
<1>2. /\ r \in Sessions /\ row # None /\ job[r] \in Job /\ row.wallet = w
      /\ w \in Wallets /\ w # None /\ next \in Maybe(Job) /\ next # None /\ next.step = "decide"
  BY <1>1, ReviewerFits, ToIsJob, KycAssumption DEF Shape, Steps, Maybe, Signing
<1>3. /\ job' = Overtaken(r, next) /\ UNCHANGED <<row, waiting>>
      /\ record' = [record EXCEPT ![w] = job[r].hash]
      /\ unsettled' = (unsettled \/ ~job[r].fresh)
  BY DEF Sign, Overtake, Review
<1> HIDE DEF next
<1>4. Passes(r, next)
  BY <1>1, <1>2, <1>3, OvertakenDisplaces DEF Shape, Displaces
<1>5. Undone({"reject"}) => Undone({"reject"})'
  <2>1. ~At(r, "reject")
    BY DEF At
  <2> QED BY <1>2, <1>3, <1>4, <2>1, UndoneStays
<1>6. Undone({"decide", "reject"})'
  BY <1>2, <1>4 DEF Undone, At, Passes
<1>7. record'[w] = job[r].hash /\ \A v \in Wallets \ {w} : record'[v] = record[v]
  BY <1>1, <1>2, <1>3 DEF Shape, TypeOK
<1>8. RecordIsOfItsWallet'
  BY <1>2, <1>3, <1>7 DEF IndInv, RecordIsOfItsWallet
<1>9. ApprovalOnRecord'
  <2>1. CASE job[r].fresh
    <3>1. job[r].hash = row.hash
      BY <1>1, <1>2, <2>1, ReviewerFits DEF Shape, Current, Signing
    <3> QED BY <1>2, <1>3, <1>7, <3>1 DEF ApprovalOnRecord
  <2>2. CASE ~job[r].fresh
    BY <1>3, <2>2 DEF ApprovalOnRecord, Undone
  <2> QED BY <2>1, <2>2
<1> QED BY <1>1, <1>3, <1>5, <1>6, <1>8, <1>9 DEF IndInv, ApprovalHasAnEnd, RecordRunsOut

\* A wallet taken off the record, to be put back or to be turned down.
LEMMA UnsignKeeps ==
  ASSUME IndInv, NEW r \in Reviewers, job[r] # None, job[r].step \in {"replace", "unsign"},
         NEW step \in {"again", "clear"}, step = "again" => job[r].step = "replace",
         record' = [record EXCEPT ![job[r].wallet] = None],
         Overtake(r, To(r, step)), Review(r), UNCHANGED <<today, linked, row, waiting>>
  PROVE  IndInv'
<1> DEFINE next == To(r, step)
           w == job[r].wallet
<1>1. Shape /\ Shape'
  BY UnsignShape DEF IndInv
<1>2. /\ r \in Sessions /\ row # None /\ job[r] \in Job /\ row.wallet = w
      /\ w \in Wallets /\ w # None /\ next \in Maybe(Job) /\ next # None /\ next.step = step
  BY <1>1, ReviewerFits, ToIsJob, KycAssumption DEF Shape, Steps, Maybe, Signing
<1>3. job' = Overtaken(r, next) /\ (unsettled => unsettled')
  BY DEF Overtake, Review
<1> HIDE DEF next
<1>4. Passes(r, next)
  BY <1>1, <1>2, <1>3, OvertakenDisplaces DEF Shape, Displaces
<1>5. Undone({"reject"}) => Undone({"reject"})'
  <2>1. ~At(r, "reject")
    BY DEF At
  <2> QED BY <1>2, <1>3, <1>4, <2>1, UndoneStays
<1>6. Undone({"again", "clear", "reject"})'
  BY <1>2, <1>4 DEF Undone, At, Passes
<1>7. \A v \in Wallets : record'[v] = None
  BY <1>1, <1>2 DEF Shape, TypeOK, IndInv, RecordIsOfItsWallet
<1> QED BY <1>1, <1>5, <1>6, <1>7
     DEF IndInv, RecordIsOfItsWallet, ApprovalHasAnEnd, RecordRunsOut, ApprovalOnRecord

LEMMA AttestDecideKeeps ==
  ASSUME IndInv, NEW r \in Reviewers, AttestDecide(r)
  PROVE  IndInv'
<1> USE KycAssumption
<1>1. Shape /\ job[r] # None /\ job[r].step = "decide" /\ r \in Sessions
  BY DEF IndInv, AttestDecide, At, Sessions
<1>2. /\ UNCHANGED record
      /\ unsettled' = IF job[r].fresh THEN unsettled /\ job[r].status = "approved" ELSE TRUE
      /\ unsettled' \in BOOLEAN
  BY <1>1 DEF AttestDecide, Shape, TypeOK
<1>3. /\ Shape' /\ row' # None /\ row'.status = "approved" /\ row'.wallet = row.wallet
      /\ row'.hash = row.hash /\ Passes(r, None)
      /\ row'.until = IF row.status # "approved" THEN Expiry[row.filed] ELSE row.until
  BY <1>1, DecideShape DEF Displaces
<1>4. row # None /\ row \in Row /\ (job[r].wallet # None => row.wallet = job[r].wallet)
  BY <1>1, ReviewerFits
<1>5. Expiry[row.filed] # None
  BY <1>4 DEF Row
\* Past the decision an approval without a date is of somebody else's making.
<1>6. row'.until = None => Undone({"reject"})'
  <2>1. SUFFICES ASSUME row'.until = None PROVE Undone({"reject"})'
    OBVIOUS
  <2>2. row.status = "approved" /\ row.until = None
    BY <1>3, <1>5, <2>1
  <2>3. Undone({"reject"})
    BY <1>4, <2>2 DEF IndInv, ApprovalHasAnEnd
  <2>4. job[r].fresh => job[r].status = "approved"
    BY <1>1, <2>2, ReviewerFits DEF Shape, Current
  <2>5. unsettled => unsettled'
    BY <1>2, <2>4
  <2>6. ~At(r, "reject")
    BY <1>1 DEF At
  <2> QED BY <1>1, <1>3, <2>3, <2>5, <2>6, UndoneStays
<1>7. Undone({"reject"})' => Undone({"decide", "reject"})'
  BY DEF Undone
<1>8. row'.wallet # None => record'[row'.wallet] = row'.hash \/ unsettled'
  <2>1. CASE job[r].fresh
    <3>1. row.wallet = job[r].wallet /\ (job[r].wallet # None => record[job[r].wallet] = row.hash)
      BY <1>1, <2>1, ReviewerFits DEF Shape, Current
    <3> QED BY <1>2, <1>3, <3>1
  <2>2. CASE ~job[r].fresh
    BY <1>2, <2>2
  <2> QED BY <2>1, <2>2
<1>9. ApprovalOnRecord'
  BY <1>8 DEF ApprovalOnRecord, Undone
<1>10. RecordIsOfItsWallet'
  BY <1>2, <1>3 DEF IndInv, RecordIsOfItsWallet
<1> QED BY <1>3, <1>6, <1>7, <1>9, <1>10 DEF IndInv, ApprovalHasAnEnd, RecordRunsOut

LEMMA RevokeClearKeeps ==
  ASSUME IndInv, NEW r \in Reviewers, RevokeClear(r)
  PROVE  IndInv'
<1> USE KycAssumption
<1> DEFINE next == IF job[r].status = "pending" THEN None ELSE To(r, "reject")
<1>1. Shape /\ job[r] # None /\ job[r].step = "clear" /\ r \in Sessions
  BY DEF IndInv, RevokeClear, At, Sessions
<1>2. record' = record /\ waiting' = waiting /\ unsettled' = (unsettled \/ ~job[r].fresh)
  BY DEF RevokeClear, Review
<1>3. /\ Shape' /\ row' # None /\ row'.status = row.status /\ row'.wallet = row.wallet
      /\ row'.hash = row.hash /\ row'.until = None /\ Passes(r, next)
  BY <1>1, RevokeClearShape DEF Displaces
<1>4. row # None /\ (job[r].wallet # None => row.wallet = job[r].wallet)
  BY <1>1, ReviewerFits
\* A renewal under review stays pending; anything else is turned down next.
<1>5. row.status = "pending" \/ Undone({"reject"})'
  <2>1. CASE job[r].status = "pending"
    <3>1. job[r].fresh => row.status = "pending"
      BY <1>1, <2>1, ReviewerFits DEF Shape, Current
    <3> QED BY <1>2, <3>1 DEF Undone
  <2>2. CASE job[r].status # "pending"
    <3>1. next # None /\ next.step = "reject"
      BY <1>1, <2>2, ToIsJob DEF Shape, Steps
    <3>2. At(r, "reject")'
      BY <1>3, <3>1 DEF Passes, At
    <3> QED BY <3>2 DEF Undone
  <2> QED BY <2>1, <2>2
<1>6. Undone({"reject"})' => Undone({"decide", "reject"})' /\ Undone({"again", "clear", "reject"})'
  BY DEF Undone
<1>7. (\A w \in Wallets : record[w] = None) \/ unsettled'
  <2>1. CASE job[r].fresh
    <3>1. row.wallet = job[r].wallet /\ (job[r].wallet # None => record[job[r].wallet] = None)
      BY <1>1, <2>1, ReviewerFits DEF Shape, Current
    <3>2. \A w \in Wallets : w # None
      OBVIOUS
    <3> QED BY <3>1, <3>2 DEF IndInv, RecordIsOfItsWallet
  <2>2. CASE ~job[r].fresh
    BY <1>2, <2>2
  <2> QED BY <2>1, <2>2
<1>8. RecordIsOfItsWallet'
  BY <1>2, <1>3 DEF IndInv, RecordIsOfItsWallet
<1>9. RecordRunsOut'
  BY <1>2, <1>7 DEF RecordRunsOut, Undone
<1> QED BY <1>3, <1>5, <1>6, <1>8, <1>9 DEF IndInv, ApprovalHasAnEnd, ApprovalOnRecord

LEMMA RevokeDecideKeeps ==
  ASSUME IndInv, NEW r \in Reviewers, RevokeDecide(r)
  PROVE  IndInv'
<1> USE KycAssumption
<1>1. Shape /\ job[r] # None /\ job[r].step = "reject" /\ r \in Sessions
  BY DEF IndInv, RevokeDecide, At, Sessions
<1>2. /\ UNCHANGED record
      /\ unsettled' = (unsettled \/ ~job[r].fresh) /\ unsettled' \in BOOLEAN
  BY <1>1, ReviewerFits DEF RevokeDecide, Review, Shape, TypeOK, Job
<1>3. Shape' /\ row' # None /\ row'.status = "rejected" /\ row'.wallet = row.wallet
  BY <1>1, DecideShape
<1>4. (\A w \in Wallets : record[w] = None) \/ unsettled'
  <2>1. CASE job[r].fresh
    <3>1. row.wallet = job[r].wallet /\ (job[r].wallet # None => record[job[r].wallet] = None)
      BY <1>1, <2>1, ReviewerFits DEF Shape, Current
    <3>2. \A w \in Wallets : w # None
      OBVIOUS
    <3> QED BY <3>1, <3>2 DEF IndInv, RecordIsOfItsWallet
  <2>2. CASE ~job[r].fresh
    BY <1>2, <2>2
  <2> QED BY <2>1, <2>2
<1>5. RecordRunsOut'
  BY <1>2, <1>4 DEF RecordRunsOut, Undone
<1>6. RecordIsOfItsWallet'
  BY <1>2, <1>3 DEF IndInv, RecordIsOfItsWallet
<1> QED BY <1>3, <1>5, <1>6 DEF IndInv, ApprovalHasAnEnd, ApprovalOnRecord

\* A decision in the database alone leaves the record and what is unsettled as
\* they are: an approval it gives waits, and one given before stays what it was.
LEMMA DecideKeeps ==
  ASSUME IndInv, NEW r \in Reviewers, NEW decision \in {"approved", "rejected"}, Decide(r, decision)
  PROVE  IndInv'
<1> USE KycAssumption
<1>1. /\ Shape /\ r \in Sessions /\ row # None /\ row \in Row
      /\ job[r] = None /\ record' = record /\ unsettled' = unsettled
  BY DEF IndInv, Decide, Sessions, Shape, TypeOK, Maybe
<1>2. /\ Shape' /\ row' # None /\ row'.status = decision /\ row'.wallet = row.wallet
      /\ row'.hash = row.hash /\ Passes(r, None)
      /\ row'.until = IF decision = "approved" /\ row.status # "approved" THEN Expiry[row.filed] ELSE row.until
  BY <1>1, DecideShape DEF Displaces
<1>3. Expiry[row.filed] # None
  BY <1>1 DEF Row
<1>4. row'.until = None => row.until = None /\ (decision = "approved" => row.status = "approved")
  BY <1>2, <1>3
<1>5. ASSUME NEW steps, Undone(steps)
      PROVE  Undone(steps)'
  BY <1>1, <1>2, <1>5, OtherUndone
<1>6. ApprovalHasAnEnd'
  BY <1>1, <1>2, <1>4, <1>5 DEF IndInv, ApprovalHasAnEnd
<1>7. RecordRunsOut' /\ RecordIsOfItsWallet'
  BY <1>1, <1>2, <1>4, <1>5 DEF IndInv, RecordRunsOut, RecordIsOfItsWallet
<1>8. ApprovalOnRecord'
  <2>1. SUFFICES ASSUME decision = "approved", row.wallet # None, record[row.wallet] # row.hash, ~waiting'
                 PROVE  Undone({"again", "clear", "reject"})'
    BY <1>1, <1>2 DEF ApprovalOnRecord
  <2>2. row.status = "approved" /\ ~waiting
    BY <2>1 DEF Decide
  <2>3. Undone({"again", "clear", "reject"})
    BY <1>1, <2>1, <2>2 DEF IndInv, ApprovalOnRecord
  <2> QED BY <1>5, <2>3
<1> QED BY <1>2, <1>6, <1>7, <1>8 DEF IndInv

LEMMA ReviewerKeeps ==
  ASSUME IndInv, NEW r \in Reviewers, Reviewer(r)
  PROVE  IndInv'
<1>1. Shape /\ Shape' /\ r \in Sessions
  BY NextShape DEF IndInv, Next, Sessions
\* A read, or a step that found nothing to write.
<1>2. ASSUME NEW next, job' = [job EXCEPT ![r] = next], UNCHANGED <<row, record, waiting, unsettled>>,
             job[r] # None => job[r].step \notin Mid
      PROVE  IndInv'
  <2>1. \A step \in Mid : ~At(r, step)
    BY <1>2 DEF At
  <2> QED BY <1>1, <1>2, <2>1, QuietKeeps
<1>3. CASE AttestRead(r)
  BY <1>2, <1>3 DEF AttestRead, Start
<1>4. CASE RevokeRead(r)
  BY <1>2, <1>4 DEF RevokeRead, Start
<1>5. CASE AttestSign(r)
  <2>1. job[r] # None /\ job[r].step = "sign"
    BY <1>5 DEF AttestSign, At
  <2>2. CASE record[job[r].wallet] = None
    BY <1>5, <2>1, <2>2, SignKeeps DEF AttestSign
  <2>3. CASE record[job[r].wallet] # None
    BY <1>2, <1>5, <2>1, <2>3 DEF AttestSign, Continue, Mid
  <2> QED BY <2>2, <2>3
<1>6. CASE AttestCompare(r)
  BY <1>2, <1>6 DEF AttestCompare, Continue, At, Mid
<1>7. CASE AttestReplace(r)
  <2>1. job[r] # None /\ job[r].step = "replace"
    BY <1>7 DEF AttestReplace, At
  <2>2. CASE record[job[r].wallet] = None
    BY <1>2, <1>7, <2>1, <2>2 DEF AttestReplace, Continue, Mid
  <2>3. CASE record[job[r].wallet] # None
    BY <1>7, <2>1, <2>3, UnsignKeeps DEF AttestReplace
  <2> QED BY <2>2, <2>3
<1>8. CASE AttestAgain(r)
  BY <1>8, SignKeeps DEF AttestAgain, At
<1>9. CASE RevokeSign(r)
  <2>1. job[r] # None /\ job[r].step = "unsign"
    BY <1>9 DEF RevokeSign, At
  <2>2. CASE record[job[r].wallet] = None
    BY <1>2, <1>9, <2>1, <2>2 DEF RevokeSign, Continue, Mid
  <2>3. CASE record[job[r].wallet] # None
    BY <1>9, <2>1, <2>3, UnsignKeeps DEF RevokeSign
  <2> QED BY <2>2, <2>3
<1> QED BY <1>3, <1>4, <1>5, <1>6, <1>7, <1>8, <1>9, DecideKeeps, AttestDecideKeeps,
           RevokeClearKeeps, RevokeDecideKeeps DEF Reviewer

LEMMA OthersKeep ==
  ASSUME IndInv, \/ SweepScan \/ SweepEnd \/ Link \/ NextDay \/ UNCHANGED vars
                 \/ \E s \in Sessions : CutOff(s)
  PROVE  IndInv'
<1> USE KycAssumption
<1>1. Shape /\ Shape'
  BY NextShape DEF IndInv, Next
<1>2. CASE \E s \in Sessions : CutOff(s)
  <2>1. PICK s \in Sessions : CutOff(s)
    BY <1>2
  <2>2. job' = [job EXCEPT ![s] = None] /\ UNCHANGED <<row, record, waiting>>
        /\ unsettled' = (unsettled \/ Midway(s))
    BY <2>1 DEF CutOff, Continue
  <2>3. \A step \in Mid : At(s, step) => unsettled'
    BY <2>2 DEF Midway, At, Mid
  <2> QED BY <1>1, <2>2, <2>3, QuietKeeps
<1>3. CASE Link \/ NextDay \/ UNCHANGED vars
  <2>1. UNCHANGED <<row, record, job, waiting, unsettled>>
    BY <1>3 DEF Link, NextDay, vars
  <2> QED BY <1>1, <2>1
       DEF IndInv, RecordIsOfItsWallet, ApprovalHasAnEnd, RecordRunsOut, ApprovalOnRecord, Undone, At
<1>4. Sweeper \in Sessions /\ Sweeper \notin Reviewers /\ \A step \in Mid : ~At(Sweeper, step)
  <2>1. Sweeper \in Sessions /\ Sweeper \notin Reviewers
    BY DEF Sessions
  <2>2. Fits(Sweeper)
    BY <1>1, <2>1 DEF Shape
  <2> QED BY <2>1, <2>2 DEF Fits, At, Mid
<1>5. CASE SweepScan
  BY <1>1, <1>4, <1>5, QuietKeeps DEF SweepScan, Start
<1>6. CASE SweepEnd
  <2>1. /\ row # None /\ record' = record /\ unsettled' = unsettled /\ waiting' = waiting
        /\ \/ row.wallet = None /\ row' # None /\ row'.status = "rejected" /\ row'.wallet = None
           \/ row' = row /\ job' = [job EXCEPT ![Sweeper] = None]
    BY <1>1, <1>6, SweepEndShape
  <2>2. CASE row' = row /\ job' = [job EXCEPT ![Sweeper] = None]
    BY <1>1, <1>4, <2>1, <2>2, QuietKeeps
  <2>3. CASE row.wallet = None /\ row' # None /\ row'.status = "rejected" /\ row'.wallet = None
    <3>1. \A w \in Wallets : record'[w] = None
      BY <2>1, <2>3 DEF IndInv, RecordIsOfItsWallet
    <3> QED BY <1>1, <2>3, <3>1
         DEF IndInv, RecordIsOfItsWallet, ApprovalHasAnEnd, RecordRunsOut, ApprovalOnRecord
  <2> QED BY <2>1, <2>2, <2>3
<1> QED BY <1>2, <1>3, <1>5, <1>6

-----------------------------------------------------------------------------
(***************************************************************************)
(* The theorems                                                            *)
(***************************************************************************)
\* What every call knows, and what the row and the record say, in every
\* reachable state.
THEOREM InvariantHolds == Spec => []IndInv
<1>1. IndInv /\ [Next]_vars => IndInv'
  BY ApplicantKeeps, ReviewerKeeps, OthersKeep DEF Next
<1> QED BY InitShape, <1>1, PTL DEF Spec

\* A check under review has its details, and one decided for good has none.
THEOREM TypeCorrect == Spec => []TypeOK
<1>1. IndInv => TypeOK
  BY DEF IndInv, Shape
<1> QED BY InvariantHolds, <1>1, PTL

LEMMA UndoneIsUnsettled ==
  ASSUME NEW steps \in SUBSET Mid, Undone(steps)
  PROVE  ~Settled
BY DEF Undone, Settled, Midway, At, Mid, Sessions

\* An approved check is on the record with its hash, or it waits to be recorded
\* because its wallet came later or it was approved in the database alone,
\* unless a review was cut off or overtaken.
THEOREM ApprovalsAreRecorded == Spec => []ApprovalIsRecorded
<1>1. IndInv => ApprovalIsRecorded
  BY UndoneIsUnsettled DEF IndInv, ApprovalOnRecord, ApprovalIsRecorded, Mid
<1> QED BY InvariantHolds, <1>1, PTL

\* What stands on the record is of this check and has a date to run out on,
\* unless a review was cut off or overtaken.
THEOREM RecordsRunOut == Spec => []RecordHasAnEnd
<1>1. IndInv => RecordHasAnEnd
  BY UndoneIsUnsettled DEF IndInv, RecordIsOfItsWallet, RecordRunsOut, RecordHasAnEnd, Mid
<1> QED BY InvariantHolds, <1>1, PTL

\* The actions that write a row for a reviewer keep its wallet.
LEMMA ReviewKeepsWallet ==
  ASSUME Shape, NEW r \in Reviewers, Reviewer(r), row # None
  PROVE  row' # None /\ row'.wallet = row.wallet
<1>1. ASSUME NEW decision \in {"approved", "rejected"}, Decide(r, decision)
      PROVE  row' # None /\ row'.wallet = row.wallet
  BY <1>1, DecideShape
<1>2. CASE AttestDecide(r)
  BY <1>2, DecideShape
<1>3. CASE RevokeDecide(r)
  BY <1>3, DecideShape
<1>4. CASE RevokeClear(r)
  BY <1>4, RevokeClearShape
<1> QED BY <1>1, <1>2, <1>3, <1>4
     DEF Reviewer, AttestRead, AttestSign, AttestCompare, AttestReplace, AttestAgain, Sign,
         RevokeRead, RevokeSign

LEMMA RowStaysAlways ==
  ASSUME Shape, [Next]_vars
  PROVE  RowStays
<1> USE KycAssumption
<1>1. CASE row = None
  BY <1>1 DEF RowStays
<1>2. CASE row # None
  <2>1. row \in Row
    BY <1>2 DEF Shape, TypeOK, Maybe
  <2>2. ASSUME NEW t \in Tabs, Applicant(t) PROVE RowStays
    <3>1. CASE Resubmit(t)
      <4>1. job[t].hash \in Hash /\ job[t].hash.details \in Details
        BY <3>1 DEF Resubmit, At, Shape, Fits, Sessions
      <4> DEFINE new == [row EXCEPT !.status = "pending", !.filed = job[t].hash.details,
                                    !.kept = TRUE, !.hash = job[t].hash]
      <4>2. new \in Row /\ new.wallet = row.wallet
        BY <2>1, <4>1 DEF Row, Statuses
      <4>3. row' = row \/ Save(new)
        BY <3>1 DEF Resubmit
      <4> HIDE DEF new
      <4> QED BY <1>2, <4>2, <4>3, SaveFields DEF RowStays, Shape
    <3>2. CASE Attach(t)
      <4>1. job[t] \in Job /\ job[t].wallet \in Maybe(Wallets) /\ job[t].hash \in Hash /\ row.wallet = None
        BY <3>2 DEF Attach, StillWalletless, At, Shape, Fits, TypeOK, Sessions, Maybe, Job
      <4> DEFINE new == [row EXCEPT !.wallet = job[t].wallet, !.hash = job[t].hash]
      <4>2. new \in Row /\ Save(new)
        BY <2>1, <3>2, <4>1 DEF Row, Attach
      <4> HIDE DEF new
      <4> QED BY <1>2, <4>1, <4>2, SaveFields DEF RowStays, Shape
    <3> QED BY <1>2, <2>2, <3>1, <3>2 DEF Applicant, SubmitRead, Insert, AttachRead, RowStays
  <2>3. ASSUME NEW r \in Reviewers, Reviewer(r) PROVE RowStays
    BY <1>2, <2>3, ReviewKeepsWallet DEF RowStays
  <2>4. ASSUME SweepEnd PROVE RowStays
    BY <1>2, <2>4, SweepEndShape DEF RowStays
  <2> QED BY <2>2, <2>3, <2>4 DEF Next, RowStays, CutOff, SweepScan, Link, NextDay, vars
<1> QED BY <1>1, <1>2

\* Nothing moves a check from one wallet to another.
THEOREM WalletStays == Spec => WalletNeverMoves
<1>1. IndInv /\ [Next]_vars => [row # None /\ row.wallet # None => row'.wallet = row.wallet]_vars
  BY RowStaysAlways DEF IndInv, RowStays
<1> QED BY InvariantHolds, <1>1, PTL DEF Spec, WalletNeverMoves

\* Whoever writes the row leaves the other calls at the step they were at.
LEMMA RowIsWrittenByOne ==
  ASSUME Shape, Next, row' # row
  PROVE  \E s \in Sessions :
           /\ \E next : Passes(s, next)
           /\ s \in Tabs => Insert(s) \/ Resubmit(s) \/ Attach(s)
<1> USE KycAssumption
<1>1. None \in Maybe(Job) /\ Reviewers \cup Tabs \cup {Sweeper} = Sessions
  BY DEF Maybe, Sessions
<1>2. ASSUME NEW t \in Tabs, Applicant(t)
      PROVE  (\E next : Passes(t, next)) /\ (Insert(t) \/ Resubmit(t) \/ Attach(t))
  <2>1. Insert(t) \/ Resubmit(t) \/ Attach(t)
    BY <1>2 DEF Applicant, SubmitRead, AttachRead
  <2>2. \E next \in Maybe(Job) : job' = Overtaken(t, next)
    <3>1. CASE Insert(t) \/ Attach(t)
      BY <1>1, <3>1 DEF Insert, Attach, Overtake
    <3>2. CASE Resubmit(t)
      <4>1. AfterUpdate(t) \in Maybe(Job)
        BY <1>1, <3>2, ToIsJob DEF AfterUpdate, Shape, Steps, Maybe, At
      <4> QED BY <3>2, <4>1 DEF Resubmit, Overtake
    <3> QED BY <2>1, <3>1, <3>2
  <2> QED BY <1>1, <2>1, <2>2, OvertakenDisplaces DEF Shape, Displaces
<1>3. ASSUME NEW r \in Reviewers, Reviewer(r)
      PROVE  \E next : Passes(r, next)
  <2>1. \E next \in Maybe(Job) : job' = Overtaken(r, next)
    <3>1. CASE (\E decision \in {"approved", "rejected"} : Decide(r, decision))
               \/ AttestDecide(r) \/ RevokeDecide(r)
      BY <1>1, <3>1 DEF Decide, AttestDecide, RevokeDecide, Overtake
    <3>2. CASE RevokeClear(r)
      <4>1. To(r, "reject") \in Maybe(Job)
        BY <1>1, <3>2, ToIsJob DEF RevokeClear, Shape, Steps, Maybe, At
      <4> QED BY <1>1, <3>2, <4>1 DEF RevokeClear, Overtake
    <3> QED BY <1>3, <3>1, <3>2
         DEF Reviewer, AttestRead, AttestSign, AttestCompare, AttestReplace, AttestAgain, Sign,
             RevokeRead, RevokeSign
  <2> QED BY <1>1, <2>1, OvertakenDisplaces DEF Shape, Displaces
<1>4. ASSUME SweepEnd
      PROVE  \E next : Passes(Sweeper, next)
  BY <1>4, SweepEndShape DEF Displaces
<1> QED BY <1>1, <1>2, <1>3, <1>4 DEF Next, CutOff, SweepScan, Link, NextDay

\* A call of the applicant that nobody overtook leaves a hash of the details
\* and the wallet on file, if the details have not been deleted before.
THEOREM HashBinds == Spec => HashBindsDetailsToWallet
<1> USE KycAssumption
<1> DEFINE Binds == \A t \in Tabs :
             row' # row /\ Moves(t) /\ job[t].fresh /\ row'.wallet # None /\ (row'.kept \/ row.kept)
               => row'.hash = [details |-> row'.filed, wallet |-> row'.wallet]
<1>1. ASSUME IndInv, Next
      PROVE  Binds
  <2> SUFFICES ASSUME NEW t \in Tabs, row' # row, Moves(t), job[t].fresh, row'.wallet # None,
                      row'.kept \/ row.kept
               PROVE  row'.hash = [details |-> row'.filed, wallet |-> row'.wallet]
    OBVIOUS
  <2>1. Shape /\ t \in Sessions /\ t \notin Reviewers
    BY <1>1 DEF IndInv, Sessions
  <2>2. PICK s \in Sessions :
          /\ \E next : Passes(s, next)
          /\ s \in Tabs => Insert(s) \/ Resubmit(s) \/ Attach(s)
    BY <1>1, <2>1, RowIsWrittenByOne
  <2>3. s = t
    BY <2>1, <2>2 DEF Moves, Passes
  <2>4. Fits(t) /\ Current(t) /\ job[t] # None /\ job[t] \in Job
    BY <2>1 DEF Shape, Moves, TypeOK, Maybe
  <2>5. job[t].hash \in Hash /\ job[t].hash.wallet = job[t].wallet
    BY <2>4 DEF Fits
  <2>6. job[t].hash = [details |-> job[t].hash.details, wallet |-> job[t].wallet]
    BY <2>5 DEF Hash
  <2>7. CASE Insert(t)
    BY <2>6, <2>7 DEF Insert
  <2>8. CASE Resubmit(t)
    <3> DEFINE new == [row EXCEPT !.status = "pending", !.filed = job[t].hash.details,
                                  !.kept = TRUE, !.hash = job[t].hash]
    <3>1. row # None /\ row \in Row /\ job[t].step \in {"update", "refile"} /\ job[t].hash.details \in Details
      BY <2>1, <2>4, <2>8 DEF Resubmit, At, Fits, Shape, TypeOK, Maybe
    <3>2. Save(new)
      BY <2>8 DEF Resubmit
    <3>3. new \in Row /\ new.filed = job[t].hash.details /\ new.hash = job[t].hash /\ new.wallet = row.wallet
      BY <2>5, <3>1 DEF Row, Statuses
    <3> HIDE DEF new
    <3>4. row'.filed = job[t].hash.details /\ row'.hash = job[t].hash /\ row'.wallet = row.wallet
      BY <2>1, <3>1, <3>2, <3>3, SaveFields DEF Shape
    <3>5. row'.wallet = job[t].wallet
      BY <2>4, <3>1, <3>4 DEF Current
    <3> QED BY <2>6, <3>4, <3>5
  <2>9. CASE Attach(t)
    <3> DEFINE new == [row EXCEPT !.wallet = job[t].wallet, !.hash = job[t].hash]
    <3>1. row # None /\ row \in Row /\ job[t].step = "attach" /\ Save(new)
      BY <2>1, <2>4, <2>9 DEF Attach, At, Fits, Shape, TypeOK, Maybe
    <3>2. new \in Row /\ new.filed = row.filed /\ new.hash = job[t].hash /\ new.wallet = job[t].wallet
          /\ new.kept = row.kept
      BY <2>4, <2>5, <3>1 DEF Row, Hash, Job
    <3> HIDE DEF new
    <3>3. row'.filed = row.filed /\ row'.hash = job[t].hash /\ row'.wallet = job[t].wallet
      BY <2>1, <3>1, <3>2, SaveFields DEF Shape
    <3>4. row.kept
      BY <2>1, <3>1, SaveFields, <3>2 DEF Shape, Kept
    <3>5. job[t].hash.details = row.filed
      BY <2>4, <3>1, <3>4 DEF Current
    <3> QED BY <2>6, <3>3, <3>5
  <2> QED BY <2>2, <2>3, <2>7, <2>8, <2>9
<1>2. IndInv /\ [Next]_vars => [Binds]_vars
  BY <1>1
<1> HIDE DEF Binds
<1>3. Spec => [][Binds]_vars
  BY InvariantHolds, <1>2, PTL DEF Spec
<1> QED BY <1>3 DEF Binds, HashBindsDetailsToWallet

\* An approval that ends by itself had no wallet for as long as was promised.
THEOREM ApprovalsEndWhenDue == Spec => ApprovalEndsWhenDue
<1> USE KycAssumption
<1>1. ASSUME IndInv, Next, row # None, row.status = "approved", row.until # None,
             row'.status = "rejected", row'.until = None
      PROVE  row.wallet = None /\ today - row.at >= LIMIT
  <2>1. Shape /\ row \in Row
    BY <1>1 DEF IndInv, Shape, TypeOK, Maybe
  <2>2. ASSUME NEW t \in Tabs, Applicant(t) PROVE FALSE
    <3>1. CASE Resubmit(t)
      <4>1. job[t].hash \in Hash /\ job[t].hash.details \in Details
        BY <2>1, <3>1 DEF Resubmit, At, Shape, Fits, Sessions
      <4> DEFINE new == [row EXCEPT !.status = "pending", !.filed = job[t].hash.details,
                                    !.kept = TRUE, !.hash = job[t].hash]
      <4>2. new \in Row /\ new.status = "pending"
        BY <2>1, <4>1 DEF Row, Statuses
      <4>3. row' = row \/ Save(new)
        BY <3>1 DEF Resubmit
      <4> HIDE DEF new
      <4> QED BY <1>1, <2>1, <4>2, <4>3, SaveFields DEF Shape
    <3>2. CASE Attach(t)
      <4>1. job[t] \in Job /\ job[t].wallet \in Maybe(Wallets) /\ job[t].hash \in Hash
        BY <2>1, <3>2 DEF Attach, At, Shape, Fits, TypeOK, Sessions, Maybe, Job
      <4> DEFINE new == [row EXCEPT !.wallet = job[t].wallet, !.hash = job[t].hash]
      <4>2. new \in Row /\ Save(new) /\ new.status = row.status
        BY <2>1, <3>2, <4>1 DEF Row, Attach
      <4> HIDE DEF new
      <4> QED BY <1>1, <2>1, <4>2, SaveFields DEF Shape
    <3> QED BY <1>1, <2>2, <3>1, <3>2 DEF Applicant, SubmitRead, Insert, AttachRead
  <2>3. ASSUME NEW r \in Reviewers, Reviewer(r) PROVE FALSE
    <3>1. ASSUME NEW decision \in {"approved", "rejected"}, Decide(r, decision) PROVE FALSE
      BY <1>1, <2>1, <3>1, DecideShape
    <3>2. CASE AttestDecide(r)
      BY <1>1, <2>1, <3>2, DecideShape
    <3>3. CASE RevokeDecide(r)
      BY <1>1, <2>1, <3>3, DecideShape
    <3>4. CASE RevokeClear(r)
      BY <1>1, <2>1, <3>4, RevokeClearShape
    <3> QED BY <1>1, <2>3, <3>1, <3>2, <3>3, <3>4
         DEF Reviewer, AttestRead, AttestSign, AttestCompare, AttestReplace, AttestAgain, Sign,
             RevokeRead, RevokeSign
  <2>4. CASE SweepEnd
    BY <1>1, <2>1, <2>4, SweepEndShape
  <2> QED BY <1>1, <2>2, <2>3, <2>4 DEF Next, CutOff, SweepScan, Link, NextDay
<1> DEFINE Ended == row # None /\ row.status = "approved" /\ row.until # None
                  /\ row'.status = "rejected" /\ row'.until = None
                  => row.wallet = None /\ today - row.at >= LIMIT
<1>2. IndInv /\ [Next]_vars => [Ended]_vars
  BY <1>1
<1> HIDE DEF Ended
<1>3. Spec => [][Ended]_vars
  BY InvariantHolds, <1>2, PTL DEF Spec
<1> QED BY <1>3 DEF Ended, ApprovalEndsWhenDue

\* A write that approves sets the end, and one of an approved check keeps it or
\* clears it.
LEMMA SaveLasts ==
  ASSUME TypeOK, ApprovalLastsAsItsDocument, row # None, NEW new \in Row, Save(new),
         row.status = "approved" /\ new.status = "approved" =>
           new.filed = row.filed /\ new.until \in {row.until, None}
  PROVE  ApprovalLastsAsItsDocument'
BY SaveFields DEF ApprovalLastsAsItsDocument, Until

LEMMA LastsStep ==
  ASSUME Shape, ApprovalLastsAsItsDocument, [Next]_vars
  PROVE  ApprovalLastsAsItsDocument'
<1> USE KycAssumption
<1>t. TypeOK /\ (row # None => row \in Row)
  BY DEF Shape, TypeOK, Maybe
<1>1. CASE UNCHANGED row
  BY <1>1 DEF ApprovalLastsAsItsDocument
<1>2. ASSUME NEW t \in Tabs, Applicant(t)
      PROVE  ApprovalLastsAsItsDocument'
  <2>1. CASE Insert(t)
    BY <2>1 DEF Insert, ApprovalLastsAsItsDocument
  <2>2. CASE Resubmit(t)
    <3> DEFINE new == [row EXCEPT !.status = "pending", !.filed = job[t].hash.details,
                                  !.kept = TRUE, !.hash = job[t].hash]
    <3>1. row # None /\ job[t].hash \in Hash /\ job[t].hash.details \in Details
      BY <2>2 DEF Resubmit, At, Shape, Fits, Sessions
    <3>2. new \in Row /\ new.status = "pending"
      BY <1>t, <3>1 DEF Row, Statuses
    <3>3. row' = row \/ Save(new)
      BY <2>2 DEF Resubmit
    <3> HIDE DEF new
    <3> QED BY <1>t, <1>1, <3>1, <3>2, <3>3, SaveLasts
  <2>3. CASE Attach(t)
    <3> DEFINE new == [row EXCEPT !.wallet = job[t].wallet, !.hash = job[t].hash]
    <3>1. row # None /\ job[t] \in Job /\ job[t].wallet \in Maybe(Wallets) /\ job[t].hash \in Hash
      BY <2>3 DEF Attach, At, Shape, Fits, TypeOK, Sessions, Maybe, Job
    <3>2. new \in Row /\ Save(new) /\ new.filed = row.filed /\ new.until = row.until
      BY <1>t, <2>3, <3>1 DEF Row, Attach
    <3> HIDE DEF new
    <3> QED BY <1>t, <3>1, <3>2, SaveLasts
  <2> QED BY <1>1, <1>2, <2>1, <2>2, <2>3 DEF Applicant, SubmitRead, AttachRead
<1>3. ASSUME NEW r \in Reviewers, Reviewer(r)
      PROVE  ApprovalLastsAsItsDocument'
  <2>1. ASSUME NEW status \in {"approved", "rejected"}, row # None, Decided(status)
        PROVE  ApprovalLastsAsItsDocument'
    <3> DEFINE new == [row EXCEPT !.status = status]
    <3>1. new \in Row /\ Save(new) /\ new.filed = row.filed /\ new.until = row.until
      BY <1>t, <2>1 DEF Decided, Row, Statuses
    <3> HIDE DEF new
    <3> QED BY <1>t, <2>1, <3>1, SaveLasts
  <2>2. CASE \E decision \in {"approved", "rejected"} : Decide(r, decision)
    BY <2>1, <2>2 DEF Decide
  <2>3. CASE AttestDecide(r) \/ RevokeDecide(r)
    <3>1. row # None
      BY <2>3, ReviewerFits DEF AttestDecide, RevokeDecide, At
    <3> QED BY <2>1, <2>3, <3>1 DEF AttestDecide, RevokeDecide
  <2>4. CASE RevokeClear(r)
    <3>1. row' # None /\ row'.until = None
      BY <2>4, RevokeClearShape
    <3> QED BY <3>1 DEF ApprovalLastsAsItsDocument
  <2> QED BY <1>1, <1>3, <2>2, <2>3, <2>4
       DEF Reviewer, AttestRead, AttestSign, AttestCompare, AttestReplace, AttestAgain, Sign,
           RevokeRead, RevokeSign
<1>4. CASE SweepEnd
  <2>1. row' = row \/ row'.status = "rejected"
    BY <1>4, SweepEndShape
  <2> QED BY <1>1, <2>1 DEF ApprovalLastsAsItsDocument
<1> QED BY <1>1, <1>2, <1>3, <1>4 DEF Next, CutOff, SweepScan, Link, NextDay, vars

\* An approval lasts as long as the document it was given on.
THEOREM ApprovalsLastAsTheirDocuments == Spec => []ApprovalLastsAsItsDocument
<1>1. Init => ApprovalLastsAsItsDocument
  BY DEF Init, ApprovalLastsAsItsDocument
<1>2. IndInv /\ ApprovalLastsAsItsDocument /\ [Next]_vars => ApprovalLastsAsItsDocument'
  BY LastsStep DEF IndInv
<1> QED BY InvariantHolds, <1>1, <1>2, PTL DEF Spec

\* One check never has two wallets on the record.
THEOREM OneWalletIsOnRecord == Spec => []OneWalletOnRecord
<1>1. IndInv => OneWalletOnRecord
  BY DEF IndInv, RecordIsOfItsWallet, OneWalletOnRecord
<1> QED BY InvariantHolds, <1>1, PTL

=============================================================================
