---------------------------- MODULE LaunchProofs ----------------------------
(***************************************************************************)
(* No wallet opens a second vault unawares, for every number of pages,     *)
(* wallets, drafts and launches, and every length of the delays.           *)
(***************************************************************************)
EXTENDS Launch, TLAPS

\* What a page that is anywhere past "idle" works on.
PageInv ==
  \A p \in Pages :
    /\ stage[p] \in Asking \cup {"sending", "confirming"} => mine[p] \in Sent
    /\ stage[p] \notin {"idle", "arriving"} => attempt[p] # None
    /\ attempt[p] # None => attempt[p].aware \subseteq Sent

\* What the network applied, it applied in time.
NetworkInv ==
  /\ \A i \in Sent : /\ txs[i].status = "SUCCESS" => txs[i].at <= txs[i].expires
                     /\ txs[i].aware \subseteq Sent
  /\ stored # None => stored.launch \in Sent

ShapeInv == TypeOK /\ PageInv /\ NetworkInv

\* A launch no attempt has to account for any more.
Closed(i) == i \in told \/ i \in lost \/ NeverApplied(i)

\* An attempt past its first question knows what became of every launch it
\* has to account for.
AttemptInv ==
  \A p \in Pages : attempt[p] # None =>
    \A i \in attempt[p].aware : Closed(i) \/ (stage[p] = "prior" /\ mine[p] = i)

SentInv == \A j \in Sent : \A i \in txs[j].aware : Closed(i)

IndInv == ShapeInv /\ InFlightIsOnRecord /\ AttemptInv /\ SentInv

-----------------------------------------------------------------------------
LEMMA InitIndInv == Init => IndInv
<1> SUFFICES ASSUME Init PROVE IndInv
  OBVIOUS
<1> USE LaunchAssumption
<1>1. Sent = {}
  BY DEF Init, Sent
<1>2. TypeOK
  BY <1>1 DEF Init, TypeOK, Stages, Asking, Applied
<1>3. PageInv /\ NetworkInv
  BY <1>1 DEF Init, PageInv, NetworkInv, Asking
<1>4. InFlightIsOnRecord /\ AttemptInv /\ SentInv
  BY <1>1 DEF Init, InFlightIsOnRecord, AttemptInv, SentInv
<1> QED BY <1>2, <1>3, <1>4 DEF IndInv, ShapeInv

-----------------------------------------------------------------------------
\* What an answer of the node allows a page to conclude.
LEMMA AnswerFinal ==
  ASSUME TypeOK, NEW i \in Sent, NEW answer \in Answers(i), answer \in Final
  PROVE  txs[i].status = answer
BY DEF Answers, Final, Decided

LEMMA AnswerExpired ==
  ASSUME ShapeInv, NEW i \in Sent, "NOT_FOUND" \in Answers(i), ~Forgotten(i),
         now >= GiveUpAt(i)
  PROVE  NeverApplied(i)
<1>1. /\ txs[i].expires \in Nat /\ txs[i].at \in Nat /\ now \in Int
      /\ txs[i].status \in {"pending", "SUCCESS", "FAILED"}
  BY DEF ShapeInv, TypeOK, Sent, Tx
<1>2. txs[i].status = "SUCCESS" => txs[i].at <= txs[i].expires
  BY DEF ShapeInv, NetworkInv
<1> QED BY <1>1, <1>2, LaunchAssumption DEF Answers, Decided, GiveUpAt, NeverApplied, Forgotten

\* A final answer, or none within the deadline, settles the launch.
LEMMA PollSettles ==
  ASSUME ShapeInv, NEW i \in Sent, NEW answer \in Answers(i), NEW heard \in BOOLEAN,
         answer \in Final \/ now >= GiveUpAt(i)
  PROVE  /\ Outcome(answer, heard) \in {"SUCCESS", "FAILED", "EXPIRED", "UNKNOWN"}
         /\ Outcome(answer, heard) = "SUCCESS" => i \in Applied
         /\ Outcome(answer, heard) = "FAILED" => NeverApplied(i)
         /\ (Outcome(answer, heard) = "EXPIRED" /\ answer # "silence" /\ ~Forgotten(i))
              => NeverApplied(i)
<1>1. CASE answer \in Final
  <2>1. txs[i].status = answer
    BY <1>1, AnswerFinal DEF ShapeInv
  <2> QED BY <1>1, <2>1 DEF Outcome, Final, Applied, NeverApplied
<1>2. CASE answer \notin Final
  <2>1. answer \in {"silence", "NOT_FOUND"}
    <3>1. txs[i].status \in {"pending", "SUCCESS", "FAILED"}
      BY DEF ShapeInv, TypeOK, Sent, Tx
    <3> QED BY <1>2, <3>1 DEF Answers, Final, Decided
  <2>2. answer = "NOT_FOUND" /\ ~Forgotten(i) => NeverApplied(i)
    BY <1>2, AnswerExpired
  <2> QED BY <1>2, <2>1, <2>2 DEF Outcome, Final
<1> QED BY <1>1, <1>2

-----------------------------------------------------------------------------
LEMMA RecallFacts ==
  ASSUME ShapeInv
  PROVE  /\ Recall \in Record \cup {None}
         /\ Recall # None => Recall = stored /\ Recall.launch \in Sent
         /\ \A i : Forget(i) \in {stored, None}
         /\ \A kept, settled : Displaced(kept, settled) \subseteq Sent
BY DEF ShapeInv, TypeOK, NetworkInv, Recall, Forget, Displaced

\* A page's own move: the network and what the other pages work on stay.
LEMMA AskShape ==
  ASSUME ShapeInv, NEW p \in Pages, NEW i \in Launches \cup {None}, NEW why \in Stages,
         Ask(p, i, why)
  PROVE  /\ stage' \in [Pages -> Stages] /\ mine' \in [Pages -> Launches \cup {None}]
         /\ answered' \in [Pages -> BOOLEAN]
         /\ stage'[p] = why /\ mine'[p] = i
         /\ \A q \in Pages \ {p} : stage'[q] = stage[q] /\ mine'[q] = mine[q]
BY DEF ShapeInv, TypeOK, Ask

\* The part of the shape that is about the pages, from the one page that moved.
LEMMA PageShape ==
  ASSUME ShapeInv, NEW p \in Pages, Sent \subseteq Sent',
         stage' \in [Pages -> Stages], mine' \in [Pages -> Launches \cup {None}],
         attempt' \in [Pages -> Attempt \cup {None}],
         \A q \in Pages \ {p} :
            stage'[q] = stage[q] /\ mine'[q] = mine[q] /\ attempt'[q] = attempt[q],
         stage'[p] \in Asking \cup {"sending", "confirming"} => mine'[p] \in Sent',
         stage'[p] \notin {"idle", "arriving"} => attempt'[p] # None,
         attempt'[p] # None => attempt'[p].aware \subseteq Sent'
  PROVE  PageInv'
BY DEF ShapeInv, PageInv

\* Nothing was sent, nothing was applied.
LEMMA NetworkShape ==
  ASSUME ShapeInv, UNCHANGED network, stored' # None => stored'.launch \in Sent
  PROVE  NetworkInv' /\ Sent' = Sent /\ Applied' = Applied
<1>1. Sent' = Sent /\ Applied' = Applied
  BY DEF network, Sent, Applied
<1> QED BY <1>1 DEF ShapeInv, NetworkInv, network

LEMMA ReportShape ==
  ASSUME ShapeInv, NEW p \in Pages, mine[p] \in Sent, stage[p] \in Asking \cup {"confirming"},
         NEW outcome \in {"SUCCESS", "FAILED", "EXPIRED", "UNKNOWN"},
         outcome = "SUCCESS" => mine[p] \in Applied,
         lost' \subseteq Sent, UNCHANGED network, Report(p, outcome)
  PROVE  ShapeInv'
<1>1. stored' \in {stored, None}
  BY RecallFacts DEF Report, RecordAfter
<1>2. NetworkInv' /\ Sent' = Sent /\ Applied' = Applied
  BY <1>1, NetworkShape DEF ShapeInv, NetworkInv
<1>3. /\ stage' \in [Pages -> Stages] /\ mine' \in [Pages -> Launches \cup {None}]
      /\ answered' \in [Pages -> BOOLEAN] /\ attempt' \in [Pages -> Attempt \cup {None}]
  BY DEF Report, ShapeInv, TypeOK, Stages, Asking
<1>4. TypeOK'
  <2>1. told' \subseteq Applied
    BY DEF Report, ShapeInv, TypeOK
  <2> QED BY <1>1, <1>2, <1>3, <2>1 DEF ShapeInv, TypeOK, network
<1>5. PageInv'
  <2>1. \A q \in Pages \ {p} :
          stage'[q] = stage[q] /\ mine'[q] = mine[q] /\ attempt'[q] = attempt[q]
    BY DEF Report, ShapeInv, TypeOK
  <2>2. CASE stage[p] = "prior" /\ MayGoAhead(outcome)
    <3>1. stage'[p] = "checks" /\ attempt'[p] = attempt[p]
      BY <2>2 DEF Report, ShapeInv, TypeOK
    <3>2. attempt[p] # None /\ attempt[p].aware \subseteq Sent
      BY <2>2 DEF ShapeInv, PageInv
    <3> QED BY <1>2, <1>3, <2>1, <3>1, <3>2, PageShape DEF Asking
  <2>3. CASE ~(stage[p] = "prior" /\ MayGoAhead(outcome))
    <3>1. stage'[p] = "idle" /\ attempt'[p] = None
      BY <2>3 DEF Report, ShapeInv, TypeOK
    <3> QED BY <1>2, <1>3, <2>1, <3>1, PageShape DEF Asking
  <2> QED BY <2>2, <2>3
<1> QED BY <1>2, <1>4, <1>5 DEF ShapeInv

\* A page that starts over, or asks about a launch on its own.
LEMMA AskKeepsShape ==
  ASSUME ShapeInv, NEW p \in Pages, NEW i \in Launches \cup {None}, NEW why \in Stages,
         Ask(p, i, why), UNCHANGED network,
         stored' = None \/ stored' = stored \/ (stored' \in Record /\ stored'.launch \in Sent),
         told' \subseteq Applied, lost' \subseteq Sent,
         why \in Asking \cup {"sending", "confirming"} => i \in Sent,
         attempt' \in [Pages -> Attempt \cup {None}],
         \A q \in Pages \ {p} : attempt'[q] = attempt[q],
         why \notin {"idle", "arriving"} => attempt'[p] # None,
         attempt'[p] # None => attempt'[p].aware \subseteq Sent
  PROVE  ShapeInv'
<1>1. NetworkInv' /\ Sent' = Sent /\ Applied' = Applied
  BY NetworkShape DEF ShapeInv, NetworkInv
<1>2. TypeOK'
  BY <1>1, AskShape DEF ShapeInv, TypeOK, network
<1>3. PageInv'
  BY <1>1, AskShape, PageShape
<1> QED BY <1>1, <1>2, <1>3 DEF ShapeInv

LEMMA NetworkStep ==
  ASSUME ShapeInv, Network
  PROVE  ShapeInv'
<1>1. CASE Tick
  <2>1. Sent' = Sent /\ Applied' = Applied
    BY <1>1 DEF Tick, Sent, Applied
  <2>2. TypeOK'
    <3>1. now' \in 0..MaxTime
      BY <1>1, LaunchAssumption DEF Tick, ShapeInv, TypeOK
    <3>2. UNCHANGED <<txs, seq, stored, stage, attempt, mine, answered, told, lost>>
      BY <1>1 DEF Tick, page, history
    <3> QED BY <2>1, <3>1, <3>2 DEF ShapeInv, TypeOK
  <2>3. PageInv' /\ NetworkInv'
    BY <1>1, <2>1 DEF Tick, page, history, ShapeInv, PageInv, NetworkInv
  <2> QED BY <2>2, <2>3 DEF ShapeInv
<1>2. ASSUME NEW i \in Launches, NEW status \in {"SUCCESS", "FAILED"}, Apply(i, status)
      PROVE  ShapeInv'
  <2>1. i \in Sent /\ txs[i] \in Tx /\ txs[i].status = "pending" /\ now <= txs[i].expires
    BY <1>2 DEF Apply, ShapeInv, TypeOK, Sent
  <2>2. txs' = [txs EXCEPT ![i] = [txs[i] EXCEPT !.status = status, !.at = now]]
    BY <1>2 DEF Apply
  <2>3. [txs[i] EXCEPT !.status = status, !.at = now] \in Tx
    <3>1. now \in Nat
      BY LaunchAssumption DEF ShapeInv, TypeOK
    <3> QED BY <2>1, <3>1 DEF Tx
  <2>4. txs' \in [Launches -> Tx \cup {None}] /\ txs'[i] = [txs[i] EXCEPT !.status = status, !.at = now]
    BY <2>2, <2>3 DEF ShapeInv, TypeOK
  <2>5. \A j \in Launches : txs'[j] = None <=> txs[j] = None
    BY <2>1, <2>2, <2>3, <2>4, LaunchAssumption DEF ShapeInv, TypeOK, Sent
  <2>6. Sent' = Sent
    BY <2>5 DEF Sent
  <2>7. Applied \subseteq Applied'
    <3>1. \A j \in Applied : j # i /\ j \in Launches
      BY <2>1 DEF Applied, Sent
    <3> QED BY <2>2, <2>6, <3>1 DEF Applied, ShapeInv, TypeOK
  <2>8. seq' \in [Wallets -> Nat]
    <3>1. txs[i].creator \in Wallets
      BY <2>1 DEF Tx
    <3> QED BY <1>2, <3>1 DEF Apply, ShapeInv, TypeOK
  <2>9. TypeOK'
    <3>1. UNCHANGED <<now, stored, stage, attempt, mine, answered, told, lost>>
      BY <1>2 DEF Apply, page, history
    <3>2. told' \subseteq Applied'
      BY <2>7, <3>1 DEF ShapeInv, TypeOK
    <3> QED BY <2>4, <2>6, <2>8, <3>1, <3>2 DEF ShapeInv, TypeOK
  <2>10. PageInv'
    BY <1>2, <2>6 DEF Apply, page, history, ShapeInv, PageInv
  <2>11. NetworkInv'
    <3>1. ASSUME NEW j \in Sent
          PROVE  /\ txs'[j].status = "SUCCESS" => txs'[j].at <= txs'[j].expires
                 /\ txs'[j].aware \subseteq Sent
      <4>1. CASE j = i
        <5>1. txs'[j].at = now /\ txs'[j].expires = txs[i].expires /\ txs'[j].aware = txs[i].aware
          BY <2>1, <2>4, <4>1 DEF Tx
        <5> QED BY <2>1, <5>1 DEF ShapeInv, NetworkInv
      <4>2. CASE j # i
        BY <2>2, <3>1, <4>2 DEF ShapeInv, NetworkInv, TypeOK, Sent
      <4> QED BY <4>1, <4>2
    <3> QED BY <1>2, <2>6, <3>1 DEF Apply, ShapeInv, NetworkInv
  <2> QED BY <2>9, <2>10, <2>11 DEF ShapeInv
<1> QED BY <1>1, <1>2 DEF Network

LEMMA PageStep ==
  ASSUME ShapeInv, NEW p \in Pages,
         \/ Poll(p) \/ Reload(p) \/ Stop(p) \/ Dedupe(p) \/ Build(p)
         \/ Remember(p) \/ LoseAnswer(p) \/ Confirm(p) \/ Doubt(p)
  PROVE  ShapeInv'
<1>t. /\ attempt \in [Pages -> Attempt \cup {None}] /\ stage \in [Pages -> Stages]
      /\ mine \in [Pages -> Launches \cup {None}] /\ stored \in Record \cup {None}
      /\ lost \subseteq Sent /\ told \subseteq Applied /\ Sent \subseteq Launches /\ now \in Nat
  BY DEF ShapeInv, TypeOK, Sent
<1>p. /\ stage[p] \in Asking \cup {"sending", "confirming"} => mine[p] \in Sent
      /\ stage[p] \notin {"idle", "arriving"} => attempt[p] # None
      /\ attempt[p] # None => attempt[p].aware \subseteq Sent
  BY DEF ShapeInv, PageInv
<1>s. {"idle", "arriving", "prior", "asking", "checks", "build", "review", "sending", "confirming"} = Stages
  BY DEF Stages, Asking
<1>n. [attempt EXCEPT ![p] = None] \in [Pages -> Attempt \cup {None}]
  BY <1>t
<1>d. \A kept, settled : Displaced(kept, settled) \subseteq Sent
  BY RecallFacts
<1>1. CASE Poll(p)
  <2>1. mine[p] \in Sent /\ stage[p] \in Asking
    BY <1>1, <1>p DEF Poll
  <2>2. PICK answer \in Answers(mine[p]) :
          LET heard == answered[p] \/ answer # "silence"
              outcome == Outcome(answer, heard)
          IN IF answer \in Final \/ now >= GiveUpAt(mine[p])
             THEN /\ Report(p, outcome)
                  /\ lost' = lost \cup Displaced(RecordAfter(p, mine[p], outcome), {mine[p]})
                       \cup {l \in {mine[p]} : outcome = "EXPIRED" /\ (answer = "silence" \/ Forgotten(mine[p]))}
             ELSE /\ answered' = [answered EXCEPT ![p] = heard]
                  /\ UNCHANGED <<stored, stage, attempt, mine, history>>
    BY <1>1 DEF Poll
  <2> DEFINE heard == answered[p] \/ answer # "silence"
             outcome == Outcome(answer, heard)
  <2>3. heard \in BOOLEAN
    BY DEF ShapeInv, TypeOK
  <2>4. CASE answer \in Final \/ now >= GiveUpAt(mine[p])
    <3>1. /\ outcome \in {"SUCCESS", "FAILED", "EXPIRED", "UNKNOWN"}
          /\ outcome = "SUCCESS" => mine[p] \in Applied
      BY <2>1, <2>3, <2>4, PollSettles
    <3>2. Report(p, outcome) /\ lost' \subseteq Sent
      BY <2>1, <2>2, <2>4, <1>t, <1>d
    <3> QED BY <1>1, <2>1, <3>1, <3>2, ReportShape DEF Poll
  <2>5. CASE ~(answer \in Final \/ now >= GiveUpAt(mine[p]))
    <3>1. answered' = [answered EXCEPT ![p] = heard] /\ UNCHANGED <<network, stored, stage, attempt, mine, history>>
      BY <1>1, <2>2, <2>5 DEF Poll
    <3>2. NetworkInv' /\ Sent' = Sent /\ Applied' = Applied
      BY <3>1, NetworkShape DEF ShapeInv, NetworkInv
    <3> QED BY <2>3, <3>1, <3>2 DEF network, history, ShapeInv, TypeOK, PageInv
  <2> QED BY <2>4, <2>5
<1>2. CASE Reload(p)
  <2>1. lost' \subseteq Sent
    BY <1>2, <1>t, <1>p, <1>d DEF Reload
  <2>2. attempt'[p] = None /\ attempt' \in [Pages -> Attempt \cup {None}]
        /\ \A q \in Pages \ {p} : attempt'[q] = attempt[q]
    BY <1>2, <1>t, <1>n DEF Reload
  <2>3. stored' = Recall /\ UNCHANGED network /\ told' = told
    BY <1>2 DEF Reload
  <2>4. CASE Recall # None
    BY <1>2, <2>1, <2>2, <2>3, <2>4, <1>s, <1>t, RecallFacts, AskKeepsShape DEF Reload
  <2>5. CASE Recall = None
    BY <1>2, <2>1, <2>2, <2>3, <2>5, <1>s, <1>t, AskKeepsShape DEF Reload, Asking
  <2> QED BY <2>4, <2>5
<1>3. CASE Stop(p)
  BY <1>3, <1>s, <1>t, <1>n, AskKeepsShape DEF Stop, history, Asking
<1>4. CASE Dedupe(p)
  <2>0. stage[p] = "checks" /\ attempt[p] \in Attempt /\ attempt[p] # None /\ attempt[p].aware \subseteq Sent
    BY <1>4, <1>t, <1>p DEF Dedupe
  <2>1. PICK found \in SUBSET Applied :
          IF StopsAt(found)
          THEN /\ stored' = None
               /\ lost' = lost \cup Displaced(None, found)
               /\ told' = told \cup found
               /\ Ask(p, None, "idle")
               /\ attempt' = [attempt EXCEPT ![p] = None]
          ELSE /\ lost' = lost \ found
               /\ Ask(p, None, "build")
               /\ attempt' = [attempt EXCEPT ![p].aware = @ \cup found]
               /\ UNCHANGED <<stored, told>>
    BY <1>4 DEF Dedupe
  <2>2. CASE StopsAt(found)
    BY <1>4, <2>1, <2>2, <1>s, <1>t, <1>n, <1>d, AskKeepsShape DEF Dedupe, Asking
  <2>3. CASE ~StopsAt(found)
    <3>1. found = {}
      BY <2>3 DEF StopsAt
    <3>2. [attempt[p] EXCEPT !.aware = @ \cup found] = attempt[p]
      BY <2>0, <3>1 DEF Attempt
    <3>3. attempt' = attempt
      BY <2>1, <2>3, <3>2, <1>t
    <3> QED BY <1>4, <2>0, <2>1, <2>3, <3>3, <1>s, <1>t, AskKeepsShape DEF Dedupe, Asking
  <2> QED BY <2>2, <2>3
<1>5. CASE Build(p)
  <2>0. attempt[p] \in Attempt /\ attempt[p] # None /\ attempt[p].aware \subseteq Sent
    BY <1>5, <1>t, <1>p DEF Build
  <2> DEFINE new == [attempt[p] EXCEPT !.seq = seq[attempt[p].wallet] + 1]
  <2>1. new \in Attempt /\ new.aware = attempt[p].aware
    BY <2>0 DEF Attempt, ShapeInv, TypeOK
  <2>2. attempt' = [attempt EXCEPT ![p] = new]
    BY <1>5 DEF Build
  <2>3. attempt' \in [Pages -> Attempt \cup {None}] /\ attempt'[p] = new
        /\ \A q \in Pages \ {p} : attempt'[q] = attempt[q]
    BY <2>1, <2>2, <1>t
  <2>4. attempt'[p] # None
    BY <2>1, <2>3, LaunchAssumption
  <2> HIDE DEF new
  <2> QED BY <1>5, <2>0, <2>1, <2>3, <2>4, <1>s, <1>t, AskKeepsShape DEF Build, history, Asking
<1>6. CASE Remember(p)
  <2>1. mine[p] \in Sent /\ attempt[p] # None
    BY <1>6, <1>p DEF Remember
  <2>2. [launch |-> mine[p], sentAt |-> now] \in Record
    BY <2>1, <1>t DEF Record
  <2>3. lost' \subseteq Sent
    BY <1>6, <1>t, <1>d DEF Remember, Keeping
  <2> QED BY <1>6, <2>1, <2>2, <2>3, <1>s, <1>t, <1>p, AskKeepsShape DEF Remember, Keeping
<1>7. CASE LoseAnswer(p)
  BY <1>7, <1>s, <1>t, <1>p, <1>n, AskKeepsShape DEF LoseAnswer, Asking
<1>8. CASE Confirm(p)
  <2>1. mine[p] \in Sent
    BY <1>8, <1>p DEF Confirm
  <2>2. PICK answer \in Answers(mine[p]) \cap Final :
          /\ Report(p, answer)
          /\ lost' = lost \cup Displaced(RecordAfter(p, mine[p], answer), {mine[p]})
    BY <1>8 DEF Confirm
  <2>3. txs[mine[p]].status = answer
    BY <2>1, <2>2, AnswerFinal DEF ShapeInv
  <2>4. lost' \subseteq Sent
    BY <2>2, <1>t, <1>d
  <2> QED BY <1>8, <2>1, <2>2, <2>3, <2>4, ReportShape DEF Confirm, Final, Applied
<1>9. CASE Doubt(p)
  BY <1>9, <1>s, <1>t, <1>p, AskKeepsShape DEF Doubt, history
<1> QED BY <1>1, <1>2, <1>3, <1>4, <1>5, <1>6, <1>7, <1>8, <1>9

LEMMA PressSubmitStep ==
  ASSUME ShapeInv, NEW p \in Pages,
         \/ \E w \in Wallets, c \in Cids : Press(p, w, c)
         \/ \E i \in Launches : Submit(p, i)
  PROVE  ShapeInv'
<1>t. /\ attempt \in [Pages -> Attempt \cup {None}] /\ stage \in [Pages -> Stages]
      /\ mine \in [Pages -> Launches \cup {None}] /\ stored \in Record \cup {None}
      /\ lost \subseteq Sent /\ told \subseteq Applied /\ Sent \subseteq Launches /\ now \in Nat
  BY LaunchAssumption DEF ShapeInv, TypeOK, Sent
<1>s. {"idle", "arriving", "prior", "asking", "checks", "build", "review", "sending", "confirming"} = Stages
  BY DEF Stages, Asking
<1>1. ASSUME NEW w \in Wallets, NEW c \in Cids, Press(p, w, c)
      PROVE  ShapeInv'
  <2> DEFINE new == [wallet |-> w, cid |-> c, seq |-> 0,
                     aware |-> Accountable(w) \ Displaced(Recall, {})]
  <2>1. new.aware \subseteq Sent /\ new \in Attempt
    BY <1>t DEF Accountable, Attempt
  <2>2. attempt' = [attempt EXCEPT ![p] = new]
    BY <1>1 DEF Press
  <2>3. attempt' \in [Pages -> Attempt \cup {None}] /\ attempt'[p] = new
        /\ \A q \in Pages \ {p} : attempt'[q] = attempt[q]
    BY <2>1, <2>2, <1>t
  <2>4. attempt'[p] # None /\ attempt'[p].aware \subseteq Sent
    BY <2>1, <2>3, LaunchAssumption
  <2>5. stored' = Recall /\ lost' \subseteq Sent /\ told' = told /\ UNCHANGED network
    BY <1>1, <1>t, RecallFacts DEF Press, Keeping
  <2>6. Recall = None \/ Recall = stored
    BY DEF Recall
  <2> HIDE DEF new
  <2>7. CASE Recall # None /\ txs[Recall.launch].creator = w
    <3>1. Recall.launch \in Sent /\ Ask(p, Recall.launch, "prior")
      BY <1>1, <2>7, RecallFacts DEF Press
    <3> QED BY <2>3, <2>4, <2>5, <2>6, <3>1, <1>s, <1>t, AskKeepsShape
  <2>8. CASE ~(Recall # None /\ txs[Recall.launch].creator = w)
    <3>1. Ask(p, None, "checks")
      BY <1>1, <2>8 DEF Press
    <3> QED BY <2>3, <2>4, <2>5, <2>6, <3>1, <1>s, <1>t, AskKeepsShape DEF Asking
  <2> QED BY <2>7, <2>8
<1>2. ASSUME NEW i \in Launches, Submit(p, i)
      PROVE  ShapeInv'
  <2> DEFINE new == [creator |-> attempt[p].wallet, cid |-> attempt[p].cid, seq |-> attempt[p].seq,
                     aware |-> attempt[p].aware, expires |-> now + TIMEOUT, at |-> 0,
                     status |-> "pending"]
  <2>1. attempt[p] \in Attempt /\ attempt[p] # None /\ attempt[p].aware \subseteq Sent
    BY <1>2, <1>t DEF Submit, ShapeInv, PageInv, Asking
  <2>2. new \in Tx /\ new.aware \subseteq Sent /\ new.status = "pending"
    BY <2>1, <1>t, LaunchAssumption DEF Attempt, Tx
  <2>3. txs' = [txs EXCEPT ![i] = new] /\ txs[i] = None /\ Ask(p, i, "sending")
        /\ UNCHANGED <<now, seq, stored, attempt, told, lost>>
    BY <1>2 DEF Submit, history
  <2> HIDE DEF new
  <2>4. txs' \in [Launches -> Tx \cup {None}] /\ txs'[i] = new
        /\ \A j \in Launches \ {i} : txs'[j] = txs[j]
    BY <2>2, <2>3 DEF ShapeInv, TypeOK
  <2>5. Sent' = Sent \cup {i} /\ i \notin Sent
    BY <2>2, <2>3, <2>4, LaunchAssumption DEF Sent
  <2>6. Applied' = Applied
    BY <2>2, <2>4, <2>5 DEF Applied, Sent
  <2>7. /\ stage' \in [Pages -> Stages] /\ mine' \in [Pages -> Launches \cup {None}]
        /\ answered' \in [Pages -> BOOLEAN]
        /\ stage'[p] = "sending" /\ mine'[p] = i
        /\ \A q \in Pages \ {p} : stage'[q] = stage[q] /\ mine'[q] = mine[q]
    BY <2>3, <1>s, AskShape
  <2>8. TypeOK'
    BY <2>3, <2>4, <2>5, <2>6, <2>7 DEF ShapeInv, TypeOK
  <2>9. PageInv'
    BY <2>1, <2>3, <2>5, <2>7, <1>t, PageShape
  <2>10. NetworkInv'
    BY <2>2, <2>3, <2>4, <2>5 DEF ShapeInv, NetworkInv, Sent
  <2> QED BY <2>8, <2>9, <2>10 DEF ShapeInv
<1> QED BY <1>1, <1>2

LEMMA ShapeStep == ShapeInv /\ [Next]_vars => ShapeInv'
<1> SUFFICES ASSUME ShapeInv, [Next]_vars PROVE ShapeInv'
  OBVIOUS
<1>1. CASE Network
  BY <1>1, NetworkStep
<1>2. ASSUME NEW p \in Pages,
             \/ Poll(p) \/ Reload(p) \/ Stop(p) \/ Dedupe(p) \/ Build(p)
             \/ Remember(p) \/ LoseAnswer(p) \/ Confirm(p) \/ Doubt(p)
      PROVE  ShapeInv'
  BY <1>2, PageStep
<1>3. ASSUME NEW p \in Pages,
             \/ \E w \in Wallets, c \in Cids : Press(p, w, c)
             \/ \E i \in Launches : Submit(p, i)
      PROVE  ShapeInv'
  BY <1>3, PressSubmitStep
<1>4. CASE UNCHANGED vars
  <2>1. Sent' = Sent /\ Applied' = Applied
    BY <1>4 DEF vars, network, Sent, Applied
  <2> QED BY <1>4, <2>1 DEF vars, network, page, history, ShapeInv, TypeOK, PageInv, NetworkInv
<1> QED BY <1>1, <1>2, <1>3, <1>4 DEF Next

-----------------------------------------------------------------------------
\* A launch accounted for stays so: what was told or lost stays told or lost,
\* and the network applies nothing past its deadline.
LEMMA ClosedStays ==
  ASSUME ShapeInv, Next, NEW i \in Sent, Closed(i)
  PROVE  i \in Sent' /\ Closed(i)'
<1>t. /\ txs[i] \in Tx /\ txs[i] # None /\ i \in Launches /\ now \in Int
      /\ txs \in [Launches -> Tx \cup {None}] /\ txs[i].expires \in Nat
  BY DEF ShapeInv, TypeOK, Sent, Tx
<1>1. ASSUME UNCHANGED txs, told \subseteq told', lost \subseteq lost', now' >= now, now' \in Int
      PROVE  i \in Sent' /\ Closed(i)'
  BY <1>1, <1>t DEF Sent, Closed, NeverApplied
<1>2. CASE Tick
  BY <1>2, <1>1, <1>t DEF Tick, history
<1>3. ASSUME NEW j \in Launches, NEW status \in {"SUCCESS", "FAILED"}, Apply(j, status)
      PROVE  i \in Sent' /\ Closed(i)'
  <2>1. txs' = [txs EXCEPT ![j] = [txs[j] EXCEPT !.status = status, !.at = now]]
        /\ UNCHANGED <<now, told, lost>> /\ txs[j].status = "pending" /\ now <= txs[j].expires
        /\ txs[j] \in Tx
    BY <1>3 DEF Apply, history, ShapeInv, TypeOK, Sent
  <2>2. CASE i = j
    <3>1. i \in told \/ i \in lost
      BY <1>t, <2>1, <2>2 DEF Closed, NeverApplied
    <3>2. txs'[i] = [txs[j] EXCEPT !.status = status, !.at = now]
      BY <1>t, <2>1, <2>2
    <3>3. now \in Nat
      BY LaunchAssumption DEF ShapeInv, TypeOK
    <3>4. txs'[i] \in Tx
      <4>1. txs[j] \in Tx
        BY <2>1
      <4>2. [txs[j] EXCEPT !.status = status, !.at = now] \in Tx
        BY <4>1, <3>3 DEF Tx
      <4> QED BY <3>2, <4>2
    <3> QED BY <1>t, <2>1, <3>1, <3>4, LaunchAssumption DEF Closed, Sent
  <2>3. CASE i # j
    <3>1. txs'[i] = txs[i]
      BY <1>t, <2>1, <2>3
    <3> QED BY <1>t, <2>1, <3>1 DEF Closed, NeverApplied, Sent
  <2> QED BY <2>2, <2>3
<1>4. ASSUME NEW p \in Pages, NEW j \in Launches, Submit(p, j)
      PROVE  i \in Sent' /\ Closed(i)'
  <2>1. i # j
    BY <1>4, <1>t DEF Submit
  <2>2. txs'[i] = txs[i] /\ UNCHANGED <<now, told, lost>>
    BY <1>4, <1>t, <2>1 DEF Submit, history
  <2> QED BY <1>t, <2>2 DEF Closed, NeverApplied, Sent
<1>5. ASSUME NEW p \in Pages, NEW w \in Wallets, NEW c \in Cids, Press(p, w, c)
      PROVE  i \in Sent' /\ Closed(i)'
  BY <1>5, <1>1, <1>t DEF Press, Keeping, network
<1>6. ASSUME NEW p \in Pages,
             \/ Poll(p) \/ Reload(p) \/ Stop(p) \/ Dedupe(p) \/ Build(p)
             \/ Remember(p) \/ LoseAnswer(p) \/ Confirm(p) \/ Doubt(p)
      PROVE  i \in Sent' /\ Closed(i)'
  <2>1. UNCHANGED <<now, txs>>
    BY <1>6 DEF Poll, Reload, Stop, Dedupe, Build, Remember, LoseAnswer, Confirm, Doubt, network
  <2>2. told \subseteq told' /\ lost \subseteq lost'
    <3>1. CASE Poll(p)
      BY <3>1 DEF Poll, Report, history
    <3>2. CASE Dedupe(p)
      BY <3>2 DEF Dedupe, StopsAt
    <3>3. CASE Confirm(p)
      BY <3>3 DEF Confirm, Report
    <3>4. CASE Reload(p) \/ Stop(p) \/ Build(p) \/ Remember(p) \/ LoseAnswer(p) \/ Doubt(p)
      BY <3>4 DEF Reload, Stop, Build, Remember, Keeping, LoseAnswer, Doubt, history
    <3> QED BY <1>6, <3>1, <3>2, <3>3, <3>4
  <2> QED BY <1>1, <1>t, <2>1, <2>2
<1> QED BY <1>2, <1>3, <1>4, <1>5, <1>6 DEF Next, Network

\* A page that has its answer and goes on, or forgets the launch, is right to.
LEMMA PollReport ==
  ASSUME ShapeInv, NEW p \in Pages, Poll(p), NEW i \in Sent, mine[p] = i
  PROVE  \/ UNCHANGED <<stored, stage, attempt, mine>>
         \/ /\ attempt'[p] # None => stage[p] = "prior" /\ attempt'[p] = attempt[p] /\ Closed(i)'
            /\ stage'[p] \in {"idle", "checks"}
            /\ stored' = stored \/ Closed(i)'
            /\ Displaced(stored', {i}) \subseteq lost'
            /\ \A q \in Pages \ {p} :
                 stage'[q] = stage[q] /\ mine'[q] = mine[q] /\ attempt'[q] = attempt[q]
<1>t. /\ attempt \in [Pages -> Attempt \cup {None}] /\ stage \in [Pages -> Stages]
      /\ mine \in [Pages -> Launches \cup {None}]
  BY DEF ShapeInv, TypeOK
<1>2. PICK answer \in Answers(i) :
        LET heard == answered[p] \/ answer # "silence"
            outcome == Outcome(answer, heard)
        IN IF answer \in Final \/ now >= GiveUpAt(i)
           THEN /\ Report(p, outcome)
                /\ lost' = lost \cup Displaced(RecordAfter(p, i, outcome), {i})
                     \cup {l \in {i} : outcome = "EXPIRED" /\ (answer = "silence" \/ Forgotten(i))}
           ELSE /\ answered' = [answered EXCEPT ![p] = heard]
                /\ UNCHANGED <<stored, stage, attempt, mine, history>>
  BY DEF Poll
<1> DEFINE heard == answered[p] \/ answer # "silence"
           outcome == Outcome(answer, heard)
<1>3. heard \in BOOLEAN
  BY DEF ShapeInv, TypeOK
<1>4. CASE answer \in Final \/ now >= GiveUpAt(i)
  <2>1. /\ outcome \in {"SUCCESS", "FAILED", "EXPIRED", "UNKNOWN"}
        /\ outcome = "FAILED" => NeverApplied(i)
        /\ (outcome = "EXPIRED" /\ answer # "silence" /\ ~Forgotten(i)) => NeverApplied(i)
    BY <1>3, <1>4, PollSettles
  <2>2. /\ Report(p, outcome)
        /\ lost' = lost \cup Displaced(RecordAfter(p, i, outcome), {i})
             \cup {l \in {i} : outcome = "EXPIRED" /\ (answer = "silence" \/ Forgotten(i))}
        /\ UNCHANGED <<now, txs>>
    BY <1>2, <1>4 DEF Poll, network
  <2> HIDE DEF heard, outcome
  <2>3. outcome # "UNKNOWN" => Closed(i)'
    <3>1. NeverApplied(i) => NeverApplied(i)'
      BY <2>2 DEF NeverApplied
    <3> QED BY <2>1, <2>2, <3>1 DEF Report, Closed
  <2>4. stored' = RecordAfter(p, i, outcome) /\ (outcome = "UNKNOWN" => stored' = stored)
    BY <2>2 DEF Report, RecordAfter
  <2>5. \A q \in Pages \ {p} :
          stage'[q] = stage[q] /\ mine'[q] = mine[q] /\ attempt'[q] = attempt[q]
    BY <2>2, <1>t DEF Report
  <2>6. CASE stage[p] = "prior" /\ MayGoAhead(outcome)
    <3>1. stage'[p] = "checks" /\ attempt'[p] = attempt[p]
      BY <2>2, <2>6, <1>t DEF Report
    <3> QED BY <2>2, <2>3, <2>4, <2>5, <2>6, <3>1 DEF MayGoAhead
  <2>7. CASE ~(stage[p] = "prior" /\ MayGoAhead(outcome))
    <3>1. stage'[p] = "idle" /\ attempt'[p] = None
      BY <2>2, <2>7, <1>t DEF Report
    <3> QED BY <2>2, <2>3, <2>4, <2>5, <3>1
  <2> QED BY <2>6, <2>7
<1>5. CASE ~(answer \in Final \/ now >= GiveUpAt(i))
  BY <1>2, <1>5
<1> QED BY <1>4, <1>5

LEMMA ConfirmReport ==
  ASSUME ShapeInv, NEW p \in Pages, Confirm(p), NEW i \in Sent, mine[p] = i
  PROVE  /\ attempt'[p] = None /\ stage'[p] = "idle"
         /\ Closed(i)'
         /\ Displaced(stored', {i}) \subseteq lost'
         /\ \A q \in Pages \ {p} :
              stage'[q] = stage[q] /\ mine'[q] = mine[q] /\ attempt'[q] = attempt[q]
<1>t. /\ attempt \in [Pages -> Attempt \cup {None}] /\ stage \in [Pages -> Stages]
      /\ mine \in [Pages -> Launches \cup {None}]
  BY DEF ShapeInv, TypeOK
<1>1. PICK answer \in Answers(i) \cap Final :
        /\ Report(p, answer)
        /\ lost' = lost \cup Displaced(RecordAfter(p, i, answer), {i})
  BY DEF Confirm
<1>2. stage[p] = "confirming" /\ UNCHANGED <<now, txs>>
  BY DEF Confirm, network
<1>3. txs[i].status = answer
  BY <1>1, AnswerFinal DEF ShapeInv
<1>4. Closed(i)'
  BY <1>1, <1>2, <1>3 DEF Report, Closed, NeverApplied, Final
<1>5. stage'[p] = "idle" /\ attempt'[p] = None
  BY <1>1, <1>2, <1>t DEF Report
<1>6. \A q \in Pages \ {p} :
        stage'[q] = stage[q] /\ mine'[q] = mine[q] /\ attempt'[q] = attempt[q]
  BY <1>1, <1>t DEF Report
<1>7. Displaced(stored', {i}) \subseteq lost'
  BY <1>1 DEF Report
<1> QED BY <1>4, <1>5, <1>6, <1>7

-----------------------------------------------------------------------------
\* The record gives way only to what is settled, or counted as lost.
LEMMA RecordKept ==
  ASSUME NEW settled, Displaced(stored', settled) \subseteq lost',
         \A j \in settled : Closed(j)', NEW i, OnRecord(i)
  PROVE  OnRecord(i)' \/ Closed(i)'
BY DEF OnRecord, Displaced, Closed

\* A page other than the one that moved goes on waiting for the network.
LEMMA SendingKept ==
  ASSUME ShapeInv, NEW p \in Pages, NEW i \in Sent, InSending(i),
         \A q \in Pages \ {p} : stage'[q] = stage[q] /\ mine'[q] = mine[q],
         (stage[p] = "sending" /\ mine[p] = i) => InSending(i)' \/ OnRecord(i)' \/ Closed(i)'
  PROVE  InSending(i)' \/ OnRecord(i)' \/ Closed(i)'
BY DEF InSending

LEMMA InFlightStep ==
  ASSUME ShapeInv, InFlightIsOnRecord, Next
  PROVE  InFlightIsOnRecord'
<1>t. /\ stage \in [Pages -> Stages] /\ mine \in [Pages -> Launches \cup {None}]
      /\ Sent \subseteq Launches
  BY DEF ShapeInv, TypeOK, Sent
<1>s. {"idle", "arriving", "prior", "asking", "checks", "build", "review", "sending", "confirming"} = Stages
  BY DEF Stages, Asking
<1>k. SUFFICES ASSUME NEW i \in Sent', ~(OnRecord(i)' \/ InSending(i)' \/ Closed(i)')
               PROVE  FALSE
  BY DEF InFlightIsOnRecord, Closed
<1>0. CASE i \notin Sent
  <2>1. PICK p \in Pages, j \in Launches : Submit(p, j)
    <3>1. Sent' \subseteq Sent \/ \E p \in Pages, j \in Launches : Submit(p, j)
      <4>1. ASSUME UNCHANGED txs PROVE Sent' \subseteq Sent
        BY <4>1 DEF Sent
      <4>2. ASSUME NEW j \in Launches, NEW status \in {"SUCCESS", "FAILED"}, Apply(j, status)
            PROVE  Sent' \subseteq Sent
        BY <4>2 DEF Apply, Sent, ShapeInv, TypeOK
      <4> QED BY <4>1, <4>2 DEF Next, Network, Tick, Poll, Reload, Stop, Dedupe, Build, Remember,
              LoseAnswer, Confirm, Doubt, Press, network
    <3> QED BY <1>0, <3>1
  <2>2. i = j
    BY <1>0, <2>1 DEF Submit, Sent, ShapeInv, TypeOK
  <2>3. stage'[p] = "sending" /\ mine'[p] = i
    BY <2>1, <2>2, <1>t DEF Submit, Ask
  <2> QED BY <1>k, <2>3 DEF InSending
<1>1. CASE i \in Sent
  <2>1. Closed(i) => Closed(i)'
    BY <1>1, ClosedStays
  <2>2. OnRecord(i) \/ InSending(i)
    BY <1>1, <1>k, <2>1 DEF InFlightIsOnRecord, Closed
  <2>3. CASE Network
    BY <1>k, <2>2, <2>3 DEF Network, Tick, Apply, page, history, OnRecord, InSending
  <2>4. ASSUME NEW p \in Pages, NEW settled,
               Displaced(stored', settled) \subseteq lost', \A j \in settled : Closed(j)',
               \A q \in Pages \ {p} : stage'[q] = stage[q] /\ mine'[q] = mine[q],
               (stage[p] = "sending" /\ mine[p] = i) =>
                  (InSending(i)' \/ OnRecord(i)' \/ Closed(i)')
        PROVE  FALSE
    BY <1>1, <1>k, <2>2, <2>4, RecordKept, SendingKept
  <2>5. \A settled : stored' = stored => Displaced(stored', settled) = {}
    BY DEF Displaced
  <2>6. ASSUME NEW p \in Pages, NEW w \in Wallets, NEW c \in Cids, Press(p, w, c)
        PROVE  FALSE
    <3>1. stage[p] # "sending" /\ Displaced(stored', {}) \subseteq lost'
          /\ \A q \in Pages \ {p} : stage'[q] = stage[q] /\ mine'[q] = mine[q]
      BY <2>6, <1>t DEF Press, Keeping, Ask
    <3> QED BY <2>4, <3>1
  <2>7. ASSUME NEW p \in Pages, NEW j \in Launches, Submit(p, j)
        PROVE  FALSE
    <3>1. stage[p] # "sending" /\ stored' = stored
          /\ \A q \in Pages \ {p} : stage'[q] = stage[q] /\ mine'[q] = mine[q]
      BY <2>7, <1>t DEF Submit, Ask
    <3> QED BY <2>4, <2>5, <3>1
  <2>8. ASSUME NEW p \in Pages, Stop(p) \/ Build(p) \/ Doubt(p)
        PROVE  FALSE
    <3>1. stage[p] # "sending" /\ stored' = stored
          /\ \A q \in Pages \ {p} : stage'[q] = stage[q] /\ mine'[q] = mine[q]
      BY <2>8, <1>t DEF Stop, Build, Doubt, Ask
    <3> QED BY <2>4, <2>5, <3>1
  <2>9. ASSUME NEW p \in Pages, LoseAnswer(p)
        PROVE  FALSE
    <3>1. stored' = stored /\ mine[p] \in lost'
          /\ \A q \in Pages \ {p} : stage'[q] = stage[q] /\ mine'[q] = mine[q]
      BY <2>9, <1>t DEF LoseAnswer, Ask
    <3> QED BY <2>4, <2>5, <3>1 DEF Closed
  <2>10. ASSUME NEW p \in Pages, Reload(p)
         PROVE  FALSE
    <3>1. Displaced(stored', {}) \subseteq lost' /\ (stage[p] = "sending" => mine[p] \in lost')
          /\ \A q \in Pages \ {p} : stage'[q] = stage[q] /\ mine'[q] = mine[q]
      BY <2>10, <1>t DEF Reload, Ask
    <3> QED BY <2>4, <3>1 DEF Closed
  <2>11. ASSUME NEW p \in Pages, Remember(p)
         PROVE  FALSE
    <3>1. stored' = [launch |-> mine[p], sentAt |-> now] /\ stage[p] = "sending"
          /\ Displaced(stored', {mine[p]}) \subseteq lost'
          /\ \A q \in Pages \ {p} : stage'[q] = stage[q] /\ mine'[q] = mine[q]
      BY <2>11, <1>t DEF Remember, Keeping, Ask
    <3>2. mine[p] \in Sent
      BY <3>1 DEF ShapeInv, PageInv
    <3>3. stored' # None
      <4>1. [launch |-> mine[p], sentAt |-> now] \in Record
        BY <3>2, <1>t, LaunchAssumption DEF Record, ShapeInv, TypeOK
      <4> QED BY <3>1, <4>1, LaunchAssumption
    <3>4. mine[p] = i => OnRecord(i)'
      BY <3>1, <3>3 DEF OnRecord
    <3>5. mine[p] # i
      BY <1>k, <3>4
    <3>6. InSending(i) => InSending(i)'
      BY <3>1, <3>5 DEF InSending
    <3>7. OnRecord(i) => OnRecord(i)' \/ Closed(i)'
      BY <3>1, <3>5 DEF OnRecord, Displaced, Closed
    <3> QED BY <1>k, <2>2, <3>6, <3>7
  <2>12. ASSUME NEW p \in Pages, Dedupe(p)
         PROVE  FALSE
    <3>1. PICK found \in SUBSET Applied :
            IF StopsAt(found)
            THEN /\ stored' = None
                 /\ lost' = lost \cup Displaced(None, found)
                 /\ told' = told \cup found
                 /\ Ask(p, None, "idle")
                 /\ attempt' = [attempt EXCEPT ![p] = None]
            ELSE /\ lost' = lost \ found
                 /\ Ask(p, None, "build")
                 /\ attempt' = [attempt EXCEPT ![p].aware = @ \cup found]
                 /\ UNCHANGED <<stored, told>>
      BY <2>12 DEF Dedupe
    <3>2. stage[p] # "sending"
          /\ \A q \in Pages \ {p} : stage'[q] = stage[q] /\ mine'[q] = mine[q]
      BY <2>12, <3>1, <1>t DEF Dedupe, Ask
    <3>3. CASE StopsAt(found)
      <4>1. Displaced(stored', found) \subseteq lost' /\ found \subseteq told'
        BY <3>1, <3>3
      <4> QED BY <2>4, <3>2, <4>1 DEF Closed
    <3>4. CASE ~StopsAt(found)
      BY <2>4, <2>5, <3>1, <3>2, <3>4
    <3> QED BY <3>3, <3>4
  <2>13. ASSUME NEW p \in Pages, Poll(p)
         PROVE  FALSE
    <3>1. mine[p] \in Sent /\ stage[p] # "sending"
      BY <2>13 DEF Poll, ShapeInv, PageInv, Asking
    <3>2. PICK m \in Sent : mine[p] = m
      BY <3>1
    <3>3. CASE UNCHANGED <<stored, stage, attempt, mine>>
      BY <1>k, <2>2, <3>3 DEF OnRecord, InSending
    <3>4. CASE /\ stored' = stored \/ Closed(m)'
               /\ Displaced(stored', {m}) \subseteq lost'
               /\ \A q \in Pages \ {p} : stage'[q] = stage[q] /\ mine'[q] = mine[q]
      <4>1. CASE stored' = stored
        BY <2>4, <2>5, <3>1, <3>4, <4>1
      <4>2. CASE Closed(m)'
        BY <2>4, <3>1, <3>4, <4>2
      <4> QED BY <3>4, <4>1, <4>2
    <3> QED BY <2>13, <3>2, <3>3, <3>4, PollReport
  <2>14. ASSUME NEW p \in Pages, Confirm(p)
         PROVE  FALSE
    <3>1. mine[p] \in Sent /\ stage[p] # "sending"
      BY <2>14 DEF Confirm, ShapeInv, PageInv
    <3>2. PICK m \in Sent : mine[p] = m
      BY <3>1
    <3>3. /\ Closed(m)' /\ Displaced(stored', {m}) \subseteq lost'
          /\ \A q \in Pages \ {p} : stage'[q] = stage[q] /\ mine'[q] = mine[q]
      BY <2>14, <3>2, ConfirmReport
    <3> QED BY <2>4, <3>1, <3>3
  <2> QED BY <2>3, <2>6, <2>7, <2>8, <2>9, <2>10, <2>11, <2>12, <2>13, <2>14 DEF Next
<1> QED BY <1>0, <1>1

-----------------------------------------------------------------------------
\* The attempts: what an attempt has to account for is what its page asks
\* about first, or is accounted for already.
LEMMA AttemptStep ==
  ASSUME ShapeInv, InFlightIsOnRecord, AttemptInv, Next
  PROVE  AttemptInv'
<1>t. /\ stage \in [Pages -> Stages] /\ mine \in [Pages -> Launches \cup {None}]
      /\ attempt \in [Pages -> Attempt \cup {None}]
  BY DEF ShapeInv, TypeOK
<1>c. \A i \in Sent : Closed(i) => Closed(i)'
  BY ClosedStays
<1>a. \A q \in Pages : attempt[q] # None => attempt[q].aware \subseteq Sent
  BY DEF ShapeInv, PageInv
<1>o. ASSUME NEW q \in Pages, stage'[q] = stage[q], mine'[q] = mine[q], attempt'[q] = attempt[q],
             attempt'[q] # None, NEW i \in attempt'[q].aware
      PROVE  Closed(i)' \/ (stage'[q] = "prior" /\ mine'[q] = i)
  BY <1>o, <1>c, <1>a DEF AttemptInv
<1>m. ASSUME NEW p \in Pages,
             \A q \in Pages \ {p} :
               stage'[q] = stage[q] /\ mine'[q] = mine[q] /\ attempt'[q] = attempt[q],
             attempt'[p] # None =>
               \A i \in attempt'[p].aware : Closed(i)' \/ (stage'[p] = "prior" /\ mine'[p] = i)
      PROVE  AttemptInv'
  BY <1>m, <1>o DEF AttemptInv
<1>g. ASSUME NEW p \in Pages, stage[p] # "prior", attempt[p] # None,
             attempt'[p].aware = attempt[p].aware, NEW i \in attempt'[p].aware
      PROVE  Closed(i)'
  BY <1>g, <1>c, <1>a DEF AttemptInv
<1>1. CASE Network
  <2>1. UNCHANGED <<stage, mine, attempt>>
    BY <1>1 DEF Network, Tick, Apply, page
  <2> QED BY <1>o, <2>1 DEF AttemptInv
<1>2. ASSUME NEW p \in Pages, NEW j \in Launches, Submit(p, j)
      PROVE  AttemptInv'
  <2>1. stage[p] = "review" /\ attempt' = attempt
        /\ \A q \in Pages \ {p} : stage'[q] = stage[q] /\ mine'[q] = mine[q]
    BY <1>2, <1>t DEF Submit, Ask
  <2> QED BY <1>m, <1>g, <2>1
<1>3. ASSUME NEW p \in Pages, Build(p) \/ Remember(p) \/ Doubt(p)
      PROVE  AttemptInv'
  <2>1. stage[p] \in {"build", "sending", "confirming"} /\ attempt[p] # None
    BY <1>3, <1>t DEF Build, Remember, Doubt, ShapeInv, PageInv, Asking
  <2>2. \A q \in Pages \ {p} :
          stage'[q] = stage[q] /\ mine'[q] = mine[q] /\ attempt'[q] = attempt[q]
    BY <1>3, <1>t DEF Build, Remember, Doubt, Ask
  <2>3. attempt'[p].aware = attempt[p].aware
    <3>1. attempt[p] \in Attempt
      BY <1>t, <2>1
    <3>2. CASE Build(p)
      BY <1>t, <3>1, <3>2 DEF Build, Attempt
    <3>3. CASE Remember(p) \/ Doubt(p)
      BY <3>3 DEF Remember, Doubt
    <3> QED BY <1>3, <3>2, <3>3
  <2> QED BY <1>m, <1>g, <2>1, <2>2, <2>3
<1>4. ASSUME NEW p \in Pages, Stop(p) \/ LoseAnswer(p) \/ Reload(p)
      PROVE  AttemptInv'
  <2>1. attempt'[p] = None
        /\ \A q \in Pages \ {p} :
             stage'[q] = stage[q] /\ mine'[q] = mine[q] /\ attempt'[q] = attempt[q]
    BY <1>4, <1>t DEF Stop, LoseAnswer, Reload, Ask
  <2> QED BY <1>m, <2>1
<1>5. ASSUME NEW p \in Pages, Confirm(p)
      PROVE  AttemptInv'
  <2>1. PICK m \in Sent : mine[p] = m
    BY <1>5 DEF Confirm, ShapeInv, PageInv
  <2>2. attempt'[p] = None
        /\ \A q \in Pages \ {p} :
             stage'[q] = stage[q] /\ mine'[q] = mine[q] /\ attempt'[q] = attempt[q]
    BY <1>5, <2>1, ConfirmReport
  <2> QED BY <1>m, <2>2
<1>6. ASSUME NEW p \in Pages, Poll(p)
      PROVE  AttemptInv'
  <2>1. PICK m \in Sent : mine[p] = m
    BY <1>6 DEF Poll, ShapeInv, PageInv
  <2>2. CASE UNCHANGED <<stored, stage, attempt, mine>>
    BY <1>o, <2>2 DEF AttemptInv
  <2>3. CASE /\ attempt'[p] # None => stage[p] = "prior" /\ attempt'[p] = attempt[p] /\ Closed(m)'
             /\ \A q \in Pages \ {p} :
                  stage'[q] = stage[q] /\ mine'[q] = mine[q] /\ attempt'[q] = attempt[q]
    <3>1. ASSUME attempt'[p] # None, NEW i \in attempt'[p].aware
          PROVE  Closed(i)'
      <4>1. Closed(i) \/ i = m
        BY <2>1, <2>3, <3>1 DEF AttemptInv
      <4>2. i \in Sent
        BY <2>3, <3>1, <1>a
      <4> QED BY <2>3, <3>1, <4>1, <4>2, <1>c
    <3> QED BY <1>m, <2>3, <3>1
  <2> QED BY <1>6, <2>1, <2>2, <2>3, PollReport
<1>7. ASSUME NEW p \in Pages, Dedupe(p)
      PROVE  AttemptInv'
  <2>1. stage[p] = "checks" /\ attempt[p] # None
    BY <1>7 DEF Dedupe, ShapeInv, PageInv, Asking
  <2>2. \A q \in Pages \ {p} :
          stage'[q] = stage[q] /\ mine'[q] = mine[q] /\ attempt'[q] = attempt[q]
    BY <1>7, <1>t DEF Dedupe, Ask
  <2>3. attempt'[p] = None \/ attempt'[p].aware = attempt[p].aware
    <3>1. attempt[p] \in Attempt
      BY <1>t, <2>1
    <3>2. attempt' = [attempt EXCEPT ![p] = None] \/ attempt' = [attempt EXCEPT ![p].aware = @ \cup {}]
      BY <1>7 DEF Dedupe, StopsAt
    <3> QED BY <1>t, <3>1, <3>2 DEF Attempt
  <2> QED BY <1>m, <1>g, <2>1, <2>2, <2>3
<1>8. ASSUME NEW p \in Pages, NEW w \in Wallets, NEW c \in Cids, Press(p, w, c)
      PROVE  AttemptInv'
  <2> DEFINE new == [wallet |-> w, cid |-> c, seq |-> 0,
                     aware |-> Accountable(w) \ Displaced(Recall, {})]
  <2>1. attempt' = [attempt EXCEPT ![p] = new]
    BY <1>8 DEF Press
  <2>2. attempt'[p] = new /\ \A q \in Pages \ {p} :
          stage'[q] = stage[q] /\ mine'[q] = mine[q] /\ attempt'[q] = attempt[q]
    BY <1>8, <1>t, <2>1 DEF Press, Ask
  <2>3. ASSUME NEW i \in attempt'[p].aware
        PROVE  Closed(i)' \/ (stage'[p] = "prior" /\ mine'[p] = i)
    <3>1. i \in Accountable(w) /\ i \notin Displaced(Recall, {})
      BY <2>2, <2>3
    <3>2. i \in Sent /\ txs[i].creator = w /\ ~InSending(i) /\ i \notin lost
      BY <3>1 DEF Accountable
    <3>3. CASE Closed(i)
      BY <1>c, <3>2, <3>3
    <3>4. CASE ~Closed(i)
      <4>1. stored # None /\ stored.launch = i
        BY <3>2, <3>4 DEF InFlightIsOnRecord, OnRecord, Closed
      <4>2. Recall = stored
        BY <3>1, <4>1 DEF Displaced, Recall
      <4>3. Ask(p, i, "prior")
        BY <1>8, <3>2, <4>1, <4>2 DEF Press
      <4> QED BY <4>3, <1>t DEF Ask
    <3> QED BY <3>3, <3>4
  <2> QED BY <1>m, <2>2, <2>3
<1> QED BY <1>1, <1>2, <1>3, <1>4, <1>5, <1>6, <1>7, <1>8 DEF Next

\* A launch is sent by an attempt that is past its question.
LEMMA SentStep ==
  ASSUME ShapeInv, AttemptInv, SentInv, Next
  PROVE  SentInv'
<1>c. \A i \in Sent : Closed(i) => Closed(i)'
  BY ClosedStays
<1>1. ASSUME NEW p \in Pages, NEW j \in Launches, Submit(p, j)
      PROVE  SentInv'
  <2>1. attempt[p] # None /\ attempt[p].aware \subseteq Sent /\ stage[p] = "review"
    BY <1>1 DEF Submit, ShapeInv, PageInv, Asking
  <2>2. \A i \in attempt[p].aware : Closed(i)'
    BY <2>1, <1>c DEF AttemptInv
  <2>3. txs'[j].aware = attempt[p].aware /\ \A k \in Launches \ {j} : txs'[k] = txs[k]
    BY <1>1 DEF Submit, ShapeInv, TypeOK
  <2>4. ASSUME NEW k \in Sent', NEW i \in txs'[k].aware
        PROVE  Closed(i)'
    <3>1. CASE k = j
      BY <2>2, <2>3, <2>4, <3>1
    <3>2. CASE k # j
      <4>1. k \in Sent /\ i \in txs[k].aware
        BY <2>3, <2>4, <3>2 DEF Sent
      <4> QED BY <4>1, <1>c DEF SentInv, ShapeInv, NetworkInv
    <3> QED BY <3>1, <3>2
  <2> QED BY <2>4 DEF SentInv
<1>2. ASSUME \A k \in Sent' : k \in Sent /\ txs'[k].aware = txs[k].aware
      PROVE  SentInv'
  BY <1>2, <1>c DEF SentInv, ShapeInv, NetworkInv
<1>3. ASSUME UNCHANGED txs
      PROVE  SentInv'
  BY <1>2, <1>3 DEF Sent
<1>4. ASSUME NEW j \in Launches, NEW status \in {"SUCCESS", "FAILED"}, Apply(j, status)
      PROVE  SentInv'
  <2>1. txs' = [txs EXCEPT ![j] = [txs[j] EXCEPT !.status = status, !.at = now]] /\ j \in Sent
        /\ txs[j] \in Tx
    BY <1>4 DEF Apply, ShapeInv, TypeOK, Sent
  <2>2. txs'[j].aware = txs[j].aware /\ \A k \in Launches \ {j} : txs'[k] = txs[k]
    BY <2>1 DEF ShapeInv, TypeOK, Tx
  <2>3. \A k \in Sent' : k \in Sent
    BY <2>1, <2>2 DEF Sent
  <2> QED BY <1>2, <2>2, <2>3 DEF Sent
<1> QED BY <1>1, <1>3, <1>4 DEF Next, Network, Tick, Poll, Reload, Stop, Dedupe, Build, Remember,
        LoseAnswer, Confirm, Doubt, Press, network

LEMMA Inductive == IndInv /\ [Next]_vars => IndInv'
<1> SUFFICES ASSUME IndInv, [Next]_vars PROVE IndInv'
  OBVIOUS
<1>1. CASE Next
  BY <1>1, ShapeStep, InFlightStep, AttemptStep, SentStep DEF IndInv
<1>2. CASE UNCHANGED vars
  <2>1. ShapeInv'
    BY <1>2, ShapeStep DEF IndInv
  <2>2. Sent' = Sent
    BY <1>2 DEF vars, network, Sent
  <2>3. InFlightIsOnRecord' /\ AttemptInv' /\ SentInv'
    BY <1>2, <2>2 DEF vars, network, page, history, IndInv, InFlightIsOnRecord, AttemptInv,
       SentInv, Closed, NeverApplied, OnRecord, InSending
  <2> QED BY <2>1, <2>3 DEF IndInv
<1> QED BY <1>1, <1>2

-----------------------------------------------------------------------------
\* Every variable keeps its type: the builder is told only of vaults that were
\* opened, whatever was reloaded or answered (resolveSubmittedLaunch).
THEOREM TypeCorrect == Spec => []TypeOK
<1>1. IndInv => TypeOK
  BY DEF IndInv, ShapeInv
<1> QED BY InitIndInv, Inductive, <1>1, PTL DEF Spec

\* A launch that opened a vault, or still may, stays on record until the
\* builder was told or its trace was lost (rememberLaunch, forgetLaunch).
THEOREM InFlightRemembered == Spec => []InFlightIsOnRecord
<1>1. IndInv => InFlightIsOnRecord
  BY DEF IndInv
<1> QED BY InitIndInv, Inductive, <1>1, PTL DEF Spec

\* No wallet opens a second vault unawares (launch, settlePriorLaunch,
\* resolveSubmittedLaunch).
THEOREM NoneUnawares == Spec => []NoSecondVaultUnawares
<1>1. IndInv => NoSecondVaultUnawares
  BY DEF IndInv, SentInv, Closed, NeverApplied, Applied, NoSecondVaultUnawares
<1> QED BY InitIndInv, Inductive, <1>1, PTL DEF Spec

-----------------------------------------------------------------------------
(***************************************************************************)
(* What the network does to a launch                                       *)
(***************************************************************************)

\* A launch changes only where the network applies it, and is new where it is sent.
LEMMA LaunchStep ==
  ASSUME ShapeInv, [Next]_vars
  PROVE  \/ UNCHANGED <<txs, seq>> /\ now' \in Nat /\ now' >= now
         \/ /\ UNCHANGED <<seq, now>>
            /\ \E j \in Launches \ Sent :
                 /\ txs'[j].status = "pending"
                 /\ \A i \in Launches \ {j} : txs'[i] = txs[i]
         \/ \E j \in Sent, status \in {"SUCCESS", "FAILED"} : Apply(j, status)
<1>t. txs \in [Launches -> Tx \cup {None}] /\ now \in Nat
  BY LaunchAssumption DEF ShapeInv, TypeOK
<1>1. CASE Tick \/ UNCHANGED vars
  BY <1>1, <1>t DEF Tick, vars, network
<1>2. ASSUME NEW j \in Launches, NEW status \in {"SUCCESS", "FAILED"}, Apply(j, status)
      PROVE  j \in Sent
  BY <1>2 DEF Apply
<1>3. ASSUME NEW p \in Pages, NEW j \in Launches, Submit(p, j)
      PROVE  /\ UNCHANGED <<seq, now>> /\ j \in Launches \ Sent
             /\ txs'[j].status = "pending"
             /\ \A i \in Launches \ {j} : txs'[i] = txs[i]
  BY <1>3, <1>t DEF Submit, Sent
<1>4. ASSUME NEW p \in Pages,
             \/ Poll(p) \/ Reload(p) \/ Stop(p) \/ Dedupe(p) \/ Build(p)
             \/ Remember(p) \/ LoseAnswer(p) \/ Confirm(p) \/ Doubt(p)
             \/ \E w \in Wallets, c \in Cids : Press(p, w, c)
      PROVE  UNCHANGED <<txs, seq, now>>
  BY <1>4 DEF Poll, Reload, Stop, Dedupe, Build, Remember, LoseAnswer, Confirm, Doubt, Press, network
<1>5. CASE \E p \in Pages, j \in Launches : Submit(p, j)
  BY <1>3, <1>5
<1>6. CASE \E p \in Pages :
             \/ Poll(p) \/ Reload(p) \/ Stop(p) \/ Dedupe(p) \/ Build(p)
             \/ Remember(p) \/ LoseAnswer(p) \/ Confirm(p) \/ Doubt(p)
             \/ \E w \in Wallets, c \in Cids : Press(p, w, c)
  BY <1>4, <1>6, <1>t
<1>7. CASE \E j \in Launches, status \in {"SUCCESS", "FAILED"} : Apply(j, status)
  BY <1>2, <1>7
<1> QED BY <1>1, <1>5, <1>6, <1>7 DEF Next, Network

\* What an applied launch becomes.
LEMMA AppliedFields ==
  ASSUME ShapeInv, NEW j \in Sent, NEW status \in {"SUCCESS", "FAILED"}, Apply(j, status)
  PROVE  /\ txs'[j].status = status /\ txs'[j].creator = txs[j].creator /\ txs'[j].seq = txs[j].seq
         /\ \A i \in Launches \ {j} : txs'[i] = txs[i]
         /\ txs[j].status = "pending" /\ now' = now /\ now <= txs[j].expires
         /\ txs[j].creator \in Wallets /\ txs[j].seq = seq[txs[j].creator] + 1
         /\ seq' = [seq EXCEPT ![txs[j].creator] = @ + 1]
<1>1. txs[j] \in Tx /\ txs \in [Launches -> Tx \cup {None}] /\ j \in Launches
  BY DEF ShapeInv, TypeOK, Sent
<1>2. txs' = [txs EXCEPT ![j] = [txs[j] EXCEPT !.status = status, !.at = now]]
  BY DEF Apply
<1>3. txs'[j] = [txs[j] EXCEPT !.status = status, !.at = now]
      /\ \A i \in Launches \ {j} : txs'[i] = txs[i]
  BY <1>1, <1>2
<1>4. txs'[j].status = status /\ txs'[j].creator = txs[j].creator /\ txs'[j].seq = txs[j].seq
  BY <1>1, <1>3 DEF Tx
<1> QED BY <1>1, <1>3, <1>4 DEF Apply, Tx

\* What can open no vault stays so.
LEMMA NeverStays ==
  ASSUME ShapeInv, [Next]_vars, NEW i \in Sent, NeverApplied(i)
  PROVE  NeverApplied(i)'
<1>t. /\ i \in Launches /\ txs[i] # None /\ txs[i] \in Tx
      /\ txs[i].expires \in Nat /\ now \in Nat
  BY LaunchAssumption DEF ShapeInv, TypeOK, Sent, Tx
<1>1. CASE UNCHANGED <<txs, seq>> /\ now' \in Nat /\ now' >= now
  BY <1>1, <1>t DEF NeverApplied
<1>2. CASE /\ UNCHANGED <<seq, now>>
           /\ \E j \in Launches \ Sent :
                /\ txs'[j].status = "pending"
                /\ \A k \in Launches \ {j} : txs'[k] = txs[k]
  BY <1>2, <1>t DEF NeverApplied
<1>3. ASSUME NEW j \in Sent, NEW status \in {"SUCCESS", "FAILED"}, Apply(j, status)
      PROVE  NeverApplied(i)'
  <2>1. i # j
    BY <1>3, <1>t, AppliedFields DEF NeverApplied
  <2> QED BY <1>3, <1>t, <2>1, AppliedFields DEF NeverApplied
<1> QED BY <1>1, <1>2, <1>3, LaunchStep

\* The shape alone is kept, whatever the record holds.
LEMMA ShapeAlways == Spec => []ShapeInv
<1>1. IndInv => ShapeInv
  BY DEF IndInv
<1> QED BY InitIndInv, Inductive, <1>1, PTL DEF Spec

\* A node that remembers and does not know a launch past its deadline is right.
THEOREM NotFoundIsFinal == Spec => []NotFoundPastDeadlineIsFinal
<1>1. ShapeInv => NotFoundPastDeadlineIsFinal
  BY AnswerExpired DEF NotFoundPastDeadlineIsFinal
<1> QED BY ShapeAlways, <1>1, PTL

\* A launch that can open no vault never does.
THEOREM NeverMeansNever == Spec => NeverAppliedForGood
<1>1. ShapeInv /\ [Next]_vars => [\A i \in Sent : NeverApplied(i) => NeverApplied(i)']_vars
  BY NeverStays
<1> QED BY ShapeAlways, <1>1, PTL DEF Spec, NeverAppliedForGood

\* A page clears the record of its launch only when the launch is settled, or
\* given up on a node that would not say.
THEOREM ForgetsTheSettled == Spec => ForgottenOnlyWhenSettled
<1> DEFINE Settled == \A p \in Pages, i \in Sent :
             /\ stage[p] \in Asking /\ mine[p] = i /\ stage'[p] # stage[p]
             /\ Recall # None /\ Recall.launch = i /\ stored' = None
             => i \in told' \cup lost' \/ NeverApplied(i)'
<1>1. ShapeInv /\ [Next]_vars => [Settled]_vars
  <2> SUFFICES ASSUME ShapeInv, Next, NEW p \in Pages, NEW i \in Sent,
                      stage[p] \in Asking, mine[p] = i, stage'[p] # stage[p],
                      Recall # None, Recall.launch = i, stored' = None
               PROVE  i \in told' \cup lost' \/ NeverApplied(i)'
    OBVIOUS
  <2>t. stage \in [Pages -> Stages] /\ mine \in [Pages -> Launches \cup {None}] /\ stored = Recall
    BY RecallFacts DEF ShapeInv, TypeOK
  <2>1. PICK q \in Pages :
          \/ Poll(q) \/ Reload(q) \/ Stop(q) \/ Dedupe(q) \/ Build(q)
          \/ Remember(q) \/ LoseAnswer(q) \/ Confirm(q) \/ Doubt(q)
          \/ \E w \in Wallets, c \in Cids : Press(q, w, c)
          \/ \E j \in Launches : Submit(q, j)
    BY DEF Next, Network, Tick, Apply, page
  <2>2. q = p
    BY <2>1, <2>t DEF Poll, Report, Reload, Stop, Dedupe, Build, Remember, LoseAnswer, Confirm,
       Doubt, Press, Submit, Ask
  <2>3. Poll(p)
    <3>1. ~Reload(p)
      BY <2>t DEF Reload
    <3> QED
      BY <2>1, <2>2, <3>1 DEF Stop, Dedupe, Build, Remember, LoseAnswer, Confirm, Doubt, Press,
         Submit, Asking
  <2>4. \/ UNCHANGED <<stored, stage, attempt, mine>>
        \/ stored' = stored \/ Closed(i)'
    BY <2>3, PollReport
  <2> QED BY <2>4, <2>t DEF Closed
<1> QED BY ShapeAlways, <1>1, PTL DEF Spec, ForgottenOnlyWhenSettled

=============================================================================
