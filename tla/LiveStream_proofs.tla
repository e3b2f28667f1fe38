-------------------------- MODULE LiveStream_proofs --------------------------
(* Proofs about the outbox and the live streams, for every set of events,     *)
(* users and relays.                                                          *)
EXTENDS LiveStream, TLAPS

(***************************************************************************)
(* The inductive invariant of the outbox.  A relay works on claims it has  *)
(* not committed; what makes its commit safe is that the rows it claimed   *)
(* are still pending and no other relay's (ClaimsHold), and that what it   *)
(* decided fits the committed row (DecisionsFit).                          *)
(***************************************************************************)

(* Nothing is ever committed as "processing": the claim and the decision are  *)
(* in one transaction.                                                        *)
NeverProcessing == \A e \in Event : status[e] # "processing"

ClaimsHold ==
    \A r \in Relay, e \in Event :
        e \in Claimed(r) => /\ status[e] = "pending"
                            /\ \A q \in Relay \ {r} : e \notin Claimed(q)

Fits(e, o) ==
    \/ /\ o.status = "delivered"
       /\ o.attempts = attempts[e]
       /\ o.rows # {}
    \/ /\ o.status = "skipped"
       /\ o.attempts = attempts[e]
       /\ o.rows = {}
    \/ /\ o.status \in {"pending", "failed"}
       /\ o.attempts = attempts[e] + 1
       /\ o.status = "failed" <=> o.attempts = MaxAttempts
       /\ o.attempts <= MaxAttempts
       /\ o.rows = {}

DecisionsFit ==
    \A r \in Relay, e \in Event :
        results[r][e] # None => Fits(e, results[r][e])

OutboxInv ==
    /\ OutboxTypeOK
    /\ NeverProcessing
    /\ DeliveredMeansNotified
    /\ FailedAfterLastAttempt
    /\ ClaimsHold
    /\ DecisionsFit

LEMMA OutboxInitInv == OutboxInit => OutboxInv
<1> SUFFICES ASSUME OutboxInit PROVE OutboxInv
  OBVIOUS
<1> USE OutboxConstants, NoneIsNoOutcome DEF OutboxInit, Undecided
<1>1. OutboxTypeOK
  BY DEF OutboxTypeOK, Status, Ended
<1>2. NeverProcessing /\ DeliveredMeansNotified /\ FailedAfterLastAttempt
  BY DEF NeverProcessing, DeliveredMeansNotified, FailedAfterLastAttempt
<1>3. ClaimsHold /\ DecisionsFit
  BY DEF ClaimsHold, DecisionsFit, Claimed, Decided
<1> QED
  BY <1>1, <1>2, <1>3 DEF OutboxInv

(* Fault keeps the counter in its bound.                                      *)
LEMMA FaultType ==
    ASSUME OutboxTypeOK, Fault
    PROVE  faults' \in 0..MaxFaults
BY OutboxConstants DEF OutboxTypeOK, Fault

LEMMA RecordInv ==
    ASSUME OutboxInv, NEW e \in Event, Record(e)
    PROVE  OutboxInv'
<1> USE OutboxConstants DEF OutboxInv, Record
<1>1. OutboxTypeOK'
  BY DEF OutboxTypeOK, Status, Ended
<1>2. status[e] = "none" /\ inbox[e] = {} /\ attempts[e] <= MaxAttempts
      /\ attempts[e] # MaxAttempts
  BY DEF DeliveredMeansNotified, FailedAfterLastAttempt, OutboxTypeOK
<1>3. \A x \in Event \ {e} : status'[x] = status[x] /\ inbox'[x] = inbox[x]
  BY DEF OutboxTypeOK
<1>4. /\ e \in Critical => status'[e] = "delivered"
      /\ e \notin Critical => status'[e] = "pending" /\ inbox'[e] = {}
  BY <1>2 DEF OutboxTypeOK
<1>5. NeverProcessing' /\ DeliveredMeansNotified' /\ FailedAfterLastAttempt'
  BY <1>2, <1>3, <1>4
  DEF NeverProcessing, DeliveredMeansNotified, FailedAfterLastAttempt
<1>6. ClaimsHold'
  BY <1>2, <1>3 DEF ClaimsHold, Claimed, Decided
<1>7. DecisionsFit'
  BY DEF DecisionsFit, Fits
<1> QED
  BY <1>1, <1>5, <1>6, <1>7

LEMMA SetActiveInv ==
    ASSUME OutboxInv, NEW u \in User, SetActive(u)
    PROVE  OutboxInv'
<1> USE DEF OutboxInv, SetActive
<1>1. OutboxTypeOK'
  BY DEF OutboxTypeOK
<1>2. NeverProcessing' /\ DeliveredMeansNotified' /\ FailedAfterLastAttempt'
  BY DEF NeverProcessing, DeliveredMeansNotified, FailedAfterLastAttempt
<1>3. ClaimsHold' /\ DecisionsFit'
  BY DEF ClaimsHold, Claimed, Decided, DecisionsFit, Fits
<1> QED
  BY <1>1, <1>2, <1>3

LEMMA ClaimInv ==
    ASSUME OutboxInv, NEW r \in Relay, Claim(r)
    PROVE  OutboxInv'
<1> USE DEF OutboxInv, Claim
<1>1. Oldest(Claimable) \subseteq Claimable /\ Claimable \subseteq Event
  BY DEF Oldest, Claimable
<1>2. OutboxTypeOK'
  BY <1>1 DEF OutboxTypeOK
<1>3. NeverProcessing' /\ DeliveredMeansNotified' /\ FailedAfterLastAttempt'
  BY DEF NeverProcessing, DeliveredMeansNotified, FailedAfterLastAttempt
<1>4. \A q \in Relay \ {r} : Claimed(q)' = Claimed(q)
  BY DEF Claimed, Decided, OutboxTypeOK
<1>5. Claimed(r)' \subseteq Claimable
  BY <1>1 DEF Claimed, Decided, OutboxTypeOK, Idle
<1>6. ClaimsHold'
  BY <1>4, <1>5 DEF ClaimsHold, Claimable
<1>7. DecisionsFit'
  BY DEF DecisionsFit, Fits
<1> QED
  BY <1>2, <1>3, <1>6, <1>7

LEMMA DecideInv ==
    ASSUME OutboxInv, NEW r \in Relay, NEW e \in Event, NEW o \in Outcome,
           Decide(r, e, o), Fits(e, o), faults' \in 0..MaxFaults
    PROVE  OutboxInv'
<1> USE DEF OutboxInv, Decide
<1>1. OutboxTypeOK'
  BY DEF OutboxTypeOK
<1>2. NeverProcessing' /\ DeliveredMeansNotified' /\ FailedAfterLastAttempt'
  BY DEF NeverProcessing, DeliveredMeansNotified, FailedAfterLastAttempt
<1>3. \A q \in Relay, x \in Event :
          results'[q][x] = IF q = r /\ x = e THEN o ELSE results[q][x]
  BY DEF OutboxTypeOK
<1>4. \A q \in Relay : Claimed(q)' = Claimed(q)
  BY <1>3, NoneIsNoOutcome DEF Claimed, Decided, OutboxTypeOK
<1>5. ClaimsHold'
  BY <1>4 DEF ClaimsHold
<1>6. DecisionsFit'
  BY <1>3 DEF DecisionsFit, Fits
<1> QED
  BY <1>1, <1>2, <1>5, <1>6

(* What deliver_event returns and what mark_retry returns fit a claimed row.  *)
LEMMA DeliveredFits ==
    ASSUME OutboxTypeOK, NEW e \in Event
    PROVE  Delivered(e) \in Outcome /\ Fits(e, Delivered(e))
BY OutboxConstants DEF OutboxTypeOK, Delivered, Outcome, Fits, Status, Ended

LEMMA RetriedFits ==
    ASSUME OutboxTypeOK, FailedAfterLastAttempt, NEW e \in Event,
           status[e] = "pending"
    PROVE  Retried(e) \in Outcome /\ Fits(e, Retried(e))
<1>1. attempts[e] \in Nat /\ attempts[e] < MaxAttempts
  BY OutboxConstants DEF OutboxTypeOK, FailedAfterLastAttempt
<1> QED
  BY <1>1, OutboxConstants DEF Retried, Outcome, Fits, Status, Ended

LEMMA DeliverInv ==
    ASSUME OutboxInv, NEW r \in Relay, NEW e \in Event, Deliver(r, e)
    PROVE  OutboxInv'
<1>1. faults' \in 0..MaxFaults
  BY DEF Deliver, OutboxInv, OutboxTypeOK
<1> QED
  BY <1>1, DecideInv, DeliveredFits DEF Deliver, OutboxInv

LEMMA DeliveryFailsInv ==
    ASSUME OutboxInv, NEW r \in Relay, NEW e \in Event, DeliveryFails(r, e)
    PROVE  OutboxInv'
<1>1. faults' \in 0..MaxFaults
  BY FaultType DEF DeliveryFails, OutboxInv
<1>2. status[e] = "pending"
  BY DEF DeliveryFails, Decide, OutboxInv, ClaimsHold, Claimed
<1> QED
  BY <1>1, <1>2, DecideInv, RetriedFits DEF DeliveryFails, OutboxInv

LEMMA CommitInv ==
    ASSUME OutboxInv, NEW r \in Relay, Commit(r)
    PROVE  OutboxInv'
<1> USE OutboxConstants DEF OutboxInv
<1> DEFINE o(e) == results[r][e]
<1>1. \A e \in Decided(r) : /\ e \in Event
                            /\ o(e) \in Outcome
                            /\ Fits(e, o(e))
                            /\ status[e] = "pending"
                            /\ inbox[e] = {}
  BY DEF Decided, OutboxTypeOK, DecisionsFit, ClaimsHold, Claimed,
         DeliveredMeansNotified
<1>2. \A e \in Decided(r) : /\ status'[e] = o(e).status
                            /\ attempts'[e] = o(e).attempts
                            /\ inbox'[e] = o(e).rows
  BY <1>1 DEF Commit
<1>3. \A e \in Event \ Decided(r) : /\ status'[e] = status[e]
                                    /\ attempts'[e] = attempts[e]
                                    /\ inbox'[e] = inbox[e]
  BY DEF Commit
<1>4. \A e \in Decided(r) : /\ o(e).status \in Status
                            /\ o(e).attempts \in Nat
                            /\ o(e).rows \subseteq User
  BY <1>1 DEF Outcome
<1>5. OutboxTypeOK'
  <2>1. status' \in [Event -> Status \cup {"none"}]
    BY <1>4 DEF OutboxTypeOK, Commit
  <2>2. attempts' \in [Event -> Nat]
    BY <1>4 DEF OutboxTypeOK, Commit
  <2>3. inbox' \in [Event -> SUBSET User]
    BY <1>4 DEF OutboxTypeOK, Commit
  <2>4. /\ results' \in [Relay -> [Event -> Outcome \cup {None}]]
        /\ publish' \in [Relay -> SUBSET Event]
    BY DEF OutboxTypeOK, Undecided, Decided, Commit
  <2> QED
    BY <2>1, <2>2, <2>3, <2>4 DEF OutboxTypeOK, Commit
<1>6. NeverProcessing'
  BY <1>1, <1>2, <1>3 DEF NeverProcessing, Fits
<1>7. DeliveredMeansNotified'
  BY <1>1, <1>2, <1>3 DEF DeliveredMeansNotified, Fits
<1>8. FailedAfterLastAttempt'
  <2>1. ASSUME NEW e \in Decided(r)
        PROVE  /\ attempts'[e] <= MaxAttempts
               /\ status'[e] = "failed" <=> attempts'[e] = MaxAttempts
    <3>1. /\ attempts[e] \in Nat
          /\ attempts[e] < MaxAttempts
      <4>1. e \in Event /\ status[e] = "pending"
        BY <1>1
      <4>2. attempts[e] <= MaxAttempts /\ attempts[e] # MaxAttempts
        BY <4>1 DEF FailedAfterLastAttempt
      <4> QED
        BY <4>1, <4>2 DEF OutboxTypeOK
    <3> QED
      BY <1>1, <1>2, <2>1, <3>1 DEF Fits
  <2> QED
    BY <1>3, <2>1 DEF FailedAfterLastAttempt
<1>9. \A q \in Relay \ {r} : /\ Claimed(q)' = Claimed(q)
                             /\ results'[q] = results[q]
                             /\ \A e \in Claimed(q) : e \notin Decided(r)
  BY DEF Claimed, Decided, ClaimsHold, OutboxTypeOK, Commit
<1>10. Claimed(r)' = {} /\ results'[r] = Undecided
  BY DEF Claimed, Decided, Undecided, OutboxTypeOK, Commit
<1>11. ClaimsHold'
  <2> SUFFICES ASSUME NEW q \in Relay, NEW e \in Event, e \in Claimed(q)'
               PROVE  /\ status'[e] = "pending"
                      /\ \A p \in Relay \ {q} : e \notin Claimed(p)'
    BY DEF ClaimsHold
  <2>1. q # r /\ e \in Claimed(q) /\ e \notin Decided(r)
    BY <1>9, <1>10
  <2> QED
    BY <2>1, <1>3, <1>9, <1>10 DEF ClaimsHold
<1>12. DecisionsFit'
  <2> SUFFICES ASSUME NEW q \in Relay, NEW e \in Event, results'[q][e] # None
               PROVE  Fits(e, results[q][e])'
    BY DEF DecisionsFit
  <2>1. q # r
    BY <1>10 DEF Undecided
  <2>2. results'[q][e] = results[q][e] /\ attempts'[e] = attempts[e]
    BY <2>1, <1>3, <1>9 DEF Claimed, Decided
  <2> QED
    BY <2>2 DEF DecisionsFit, Fits
<1> QED
  BY <1>5, <1>6, <1>7, <1>8, <1>11, <1>12

LEMMA PublishInv ==
    ASSUME OutboxInv, NEW r \in Relay, NEW e \in Event, Publish(r, e)
    PROVE  OutboxInv'
<1> USE DEF OutboxInv, Publish
<1>1. OutboxTypeOK'
  BY DEF OutboxTypeOK
<1>2. NeverProcessing' /\ DeliveredMeansNotified' /\ FailedAfterLastAttempt'
  BY DEF NeverProcessing, DeliveredMeansNotified, FailedAfterLastAttempt
<1>3. ClaimsHold' /\ DecisionsFit'
  BY DEF ClaimsHold, Claimed, Decided, DecisionsFit, Fits
<1> QED
  BY <1>1, <1>2, <1>3

LEMMA LoseInv ==
    ASSUME OutboxInv, NEW r \in Relay, Lose(r), faults' \in 0..MaxFaults,
           running' \subseteq Relay
    PROVE  OutboxInv'
<1> USE DEF OutboxInv, Lose
<1>1. OutboxTypeOK'
  BY DEF OutboxTypeOK, Undecided
<1>2. NeverProcessing' /\ DeliveredMeansNotified' /\ FailedAfterLastAttempt'
  BY DEF NeverProcessing, DeliveredMeansNotified, FailedAfterLastAttempt
<1>3. \A q \in Relay \ {r} : Claimed(q)' = Claimed(q) /\ results'[q] = results[q]
  BY DEF Claimed, Decided, OutboxTypeOK
<1>4. Claimed(r)' = {} /\ results'[r] = Undecided
  BY DEF Claimed, Decided, Undecided, OutboxTypeOK
<1>5. ClaimsHold'
  BY <1>3, <1>4 DEF ClaimsHold
<1>6. DecisionsFit'
  BY <1>3, <1>4 DEF DecisionsFit, Fits, Undecided
<1> QED
  BY <1>1, <1>2, <1>5, <1>6

LEMMA PollFailsInv ==
    ASSUME OutboxInv, NEW r \in Relay, PollFails(r)
    PROVE  OutboxInv'
<1>1. faults' \in 0..MaxFaults /\ running' \subseteq Relay
  BY FaultType DEF PollFails, OutboxInv, OutboxTypeOK
<1> QED
  BY <1>1, LoseInv DEF PollFails

LEMMA CrashInv ==
    ASSUME OutboxInv, NEW r \in Relay, Crash(r)
    PROVE  OutboxInv'
<1>1. faults' \in 0..MaxFaults /\ running' \subseteq Relay
  BY FaultType DEF Crash, OutboxInv, OutboxTypeOK
<1> QED
  BY <1>1, LoseInv DEF Crash

LEMMA RestartInv ==
    ASSUME OutboxInv, NEW r \in Relay, Restart(r)
    PROVE  OutboxInv'
<1> USE DEF OutboxInv, Restart
<1>1. status' = status
  BY DEF NeverProcessing, OutboxTypeOK
<1>2. OutboxTypeOK'
  BY <1>1 DEF OutboxTypeOK
<1>3. NeverProcessing' /\ DeliveredMeansNotified' /\ FailedAfterLastAttempt'
  BY <1>1 DEF NeverProcessing, DeliveredMeansNotified, FailedAfterLastAttempt
<1>4. ClaimsHold' /\ DecisionsFit'
  BY <1>1 DEF ClaimsHold, Claimed, Decided, DecisionsFit, Fits
<1> QED
  BY <1>2, <1>3, <1>4

LEMMA OutboxStutterInv == OutboxInv /\ UNCHANGED outboxVars => OutboxInv'
BY DEF OutboxInv, outboxVars, OutboxTypeOK, NeverProcessing,
       DeliveredMeansNotified, FailedAfterLastAttempt, ClaimsHold, Claimed,
       Decided, DecisionsFit, Fits

LEMMA OutboxNextInv == OutboxInv /\ [OutboxNext]_outboxVars => OutboxInv'
BY RecordInv, SetActiveInv, ClaimInv, DeliverInv, DeliveryFailsInv, CommitInv,
   PublishInv, PollFailsInv, CrashInv, RestartInv, OutboxStutterInv
DEF OutboxNext

LEMMA OutboxSpecInv == OutboxSpec => []OutboxInv
BY OutboxInitInv, OutboxNextInv, PTL DEF OutboxSpec

(***************************************************************************)
(* The streams watch the outbox and do not act on it.                      *)
(***************************************************************************)

LEMMA LiveStepIsOutboxStep ==
    ASSUME [LiveNext]_liveVars
    PROVE  [OutboxNext]_outboxVars
<1>1. CASE Offstage /\ UNCHANGED streamVars
  BY <1>1 DEF Offstage, OutboxNext
<1>2. ASSUME NEW r \in Relay, CrashLive(r)
      PROVE  OutboxNext
  BY <1>2 DEF CrashLive, OutboxNext
<1>3. ASSUME NEW r \in Relay, NEW e \in Event, PublishLive(r, e)
      PROVE  OutboxNext
  BY <1>3 DEF PublishLive, OutboxNext
<1>4. ASSUME NEW u \in Viewer,
             Load(u) \/ Disconnect(u) \/ Receive(u) \/ \E r \in Relay : Connect(u, r)
      PROVE  UNCHANGED outboxVars
  BY <1>4 DEF Load, Disconnect, Receive, Connect
<1>5. CASE UNCHANGED liveVars
  BY <1>5 DEF liveVars
<1> QED
  BY <1>1, <1>2, <1>3, <1>4, <1>5 DEF LiveNext

(* The composition with the streams leaves the outbox of                      *)
(* app/modules/notification the behaviours it has alone.                      *)
THEOREM LiveKeepsOutbox == LiveSpec => OutboxSpec
<1>1. LiveInit => OutboxInit
  BY DEF LiveInit
<1>2. [LiveNext]_liveVars => [OutboxNext]_outboxVars
  BY LiveStepIsOutboxStep
<1> QED
  BY <1>1, <1>2, PTL DEF LiveSpec, OutboxSpec

LEMMA LiveOutboxInv == LiveSpec => []OutboxInv
BY LiveKeepsOutbox, OutboxSpecInv, PTL

(* Only delivered events have notification rows, and an event the relay       *)
(* delivers has some: deliver_event writes status and rows in one commit.     *)
THEOREM NotifiedIffDelivered == LiveSpec => []DeliveredMeansNotified
BY LiveOutboxInv, PTL DEF OutboxInv

(* mark_retry fails an event at its last attempt, neither earlier nor later.  *)
THEOREM RetriesAreBounded == LiveSpec => []FailedAfterLastAttempt
BY LiveOutboxInv, PTL DEF OutboxInv

(* FOR UPDATE SKIP LOCKED: what a relay has claimed is pending and is claimed *)
(* by no other relay, until it commits or gives up.                           *)
THEOREM ClaimsAreExclusive == LiveSpec => []ClaimsHold
BY LiveOutboxInv, PTL DEF OutboxInv

(* A step never touches an event that has ended.                              *)
LEMMA EndedStep ==
    ASSUME OutboxInv, [OutboxNext]_outboxVars,
           NEW e \in Event, status[e] \in Ended
    PROVE  /\ status'[e] = status[e]
           /\ inbox'[e] = inbox[e]
           /\ attempts'[e] = attempts[e]
<1> DEFINE Kept == /\ status'[e] = status[e]
                   /\ inbox'[e] = inbox[e]
                   /\ attempts'[e] = attempts[e]
<1>0. status[e] \notin {"none", "pending", "processing"}
  BY DEF Ended
<1>1. ASSUME NEW x \in Event, Record(x)
      PROVE  Kept
  BY <1>0, <1>1 DEF Record, OutboxInv, OutboxTypeOK
<1>2. ASSUME NEW r \in Relay, Commit(r)
      PROVE  Kept
  <2>1. e \notin Decided(r)
    BY <1>0 DEF OutboxInv, ClaimsHold, Claimed
  <2> QED
    BY <1>2, <2>1 DEF Commit
<1>3. ASSUME NEW r \in Relay, Restart(r)
      PROVE  Kept
  BY <1>0, <1>3 DEF Restart
<1>4. ASSUME NEW u \in User, SetActive(u)
      PROVE  Kept
  BY <1>4 DEF SetActive
<1>5. ASSUME NEW r \in Relay, Claim(r) \/ PollFails(r) \/ Crash(r)
      PROVE  Kept
  BY <1>5 DEF Claim, PollFails, Crash, Lose
<1>6. ASSUME NEW r \in Relay, NEW x \in Event,
             Deliver(r, x) \/ DeliveryFails(r, x) \/ Publish(r, x)
      PROVE  Kept
  BY <1>6 DEF Deliver, DeliveryFails, Decide, Publish
<1>7. CASE UNCHANGED outboxVars
  BY <1>7 DEF outboxVars
<1> QED
  BY <1>1, <1>2, <1>3, <1>4, <1>5, <1>6, <1>7 DEF OutboxNext

(* Exactly once: whatever relays crash, fail or overlap, an event that has    *)
(* ended is not delivered again and nobody is notified of it later.           *)
THEOREM EndedForGood == LiveSpec => EndedStaysEnded
<1>1. OutboxInv /\ [OutboxNext]_outboxVars
        => [\A e \in Event :
              status[e] \in Ended => /\ status'[e] = status[e]
                                     /\ inbox'[e] = inbox[e]
                                     /\ attempts'[e] = attempts[e]]_outboxVars
  BY EndedStep
<1> QED
  BY <1>1, LiveKeepsOutbox, OutboxSpecInv, PTL DEF OutboxSpec, EndedStaysEnded

(***************************************************************************)
(* The frames.  A frame is put in a queue only for those whose row is      *)
(* committed, and rows stay.                                               *)
(***************************************************************************)

(* The notifications of an event only become more.                            *)
LEMMA InboxGrows ==
    ASSUME OutboxInv, [OutboxNext]_outboxVars, NEW e \in Event
    PROVE  inbox[e] \subseteq inbox'[e]
<1>1. ASSUME NEW x \in Event, Record(x)
      PROVE  inbox[e] \subseteq inbox'[e]
  <2>1. inbox[x] = {}
    BY <1>1 DEF Record, OutboxInv, DeliveredMeansNotified
  <2> QED
    BY <1>1, <2>1 DEF Record, OutboxInv, OutboxTypeOK
<1>2. ASSUME NEW r \in Relay, Commit(r)
      PROVE  inbox[e] \subseteq inbox'[e]
  BY <1>2 DEF Commit
<1>3. ASSUME NEW r \in Relay,
             Claim(r) \/ PollFails(r) \/ Crash(r) \/ Restart(r)
      PROVE  inbox' = inbox
  BY <1>3 DEF Claim, PollFails, Crash, Lose, Restart
<1>4. ASSUME NEW u \in User, SetActive(u)
      PROVE  inbox' = inbox
  BY <1>4 DEF SetActive
<1>5. ASSUME NEW r \in Relay, NEW x \in Event,
             Deliver(r, x) \/ DeliveryFails(r, x) \/ Publish(r, x)
      PROVE  inbox' = inbox
  BY <1>5 DEF Deliver, DeliveryFails, Decide, Publish
<1>6. CASE UNCHANGED outboxVars
  BY <1>6 DEF outboxVars
<1> QED
  BY <1>1, <1>2, <1>3, <1>4, <1>5, <1>6 DEF OutboxNext

(* The queue of a stream holds events, within its size, of notifications that *)
(* are committed.                                                             *)
GoodQueue(u, q) ==
    /\ q \in Seq(Event)
    /\ Len(q) <= QueueSize
    /\ \A i \in DOMAIN q : u \in inbox[q[i]]

StreamInv ==
    /\ stream \in [Viewer -> Relay \cup {None}]
    /\ shown \in [Viewer -> SUBSET Event]
    /\ queue = [u \in Viewer |-> queue[u]]
    /\ \A u \in Viewer : GoodQueue(u, queue[u])

LEMMA EmptyIsGood ==
    ASSUME NEW u
    PROVE  GoodQueue(u, <<>>)
BY StreamConstants DEF GoodQueue

LEMMA PutIsGood ==
    ASSUME NEW u, NEW q, NEW e \in Event, GoodQueue(u, q), u \in inbox[e]
    PROVE  GoodQueue(u, Put(q, e))
<1>1. CASE Len(q) < QueueSize
  <2>1. /\ Append(q, e) \in Seq(Event)
        /\ Len(Append(q, e)) = Len(q) + 1
        /\ \A i \in 1..Len(q) : Append(q, e)[i] = q[i]
        /\ Append(q, e)[Len(q) + 1] = e
        /\ Len(q) \in Nat
    BY DEF GoodQueue
  <2>2. Len(q) + 1 <= QueueSize
    BY <1>1, <2>1, StreamConstants
  <2>3. \A i \in 1..Len(q) + 1 : u \in inbox[Append(q, e)[i]]
    BY <2>1 DEF GoodQueue
  <2> QED
    BY <1>1, <2>1, <2>2, <2>3 DEF GoodQueue, Put
<1>2. CASE ~(Len(q) < QueueSize)
  BY <1>2 DEF Put
<1> QED
  BY <1>1, <1>2

LEMMA TailIsGood ==
    ASSUME NEW u, NEW q, GoodQueue(u, q), q # <<>>
    PROVE  GoodQueue(u, Tail(q))
<1>1. /\ Tail(q) \in Seq(Event)
      /\ Len(Tail(q)) = Len(q) - 1
      /\ \A i \in 1..Len(q) - 1 : Tail(q)[i] = q[i + 1]
      /\ Len(q) \in Nat
  BY DEF GoodQueue
<1>2. \A i \in 1..Len(q) - 1 : u \in inbox[Tail(q)[i]]
  <2> SUFFICES ASSUME NEW i \in 1..Len(q) - 1
               PROVE  u \in inbox[q[i + 1]]
    BY <1>1
  <2>1. i + 1 \in 1..Len(q)
    BY <1>1
  <2> QED
    BY <2>1 DEF GoodQueue
<1>3. Len(q) - 1 <= QueueSize
  BY <1>1, StreamConstants DEF GoodQueue
<1> QED
  BY <1>1, <1>2, <1>3 DEF GoodQueue

(* A queue stays good while the inbox grows.                                  *)
LEMMA GoodStays ==
    ASSUME OutboxInv, [OutboxNext]_outboxVars, NEW u, NEW q,
           GoodQueue(u, q)
    PROVE  /\ q \in Seq(Event)
           /\ Len(q) <= QueueSize
           /\ \A i \in DOMAIN q : u \in inbox'[q[i]]
<1>1. \A i \in DOMAIN q : q[i] \in Event
  BY DEF GoodQueue
<1> QED
  BY <1>1, InboxGrows DEF GoodQueue

LEMMA StreamInitInv == LiveInit => StreamInv
BY EmptyIsGood, StreamConstants DEF LiveInit, StreamInv

(* A step leaves every queue good for the inbox before the step; by GoodStays *)
(* it then is for the inbox after it.                                         *)
LEMMA StreamNextInv ==
    ASSUME OutboxInv, StreamInv, [LiveNext]_liveVars
    PROVE  StreamInv'
<1> DEFINE Kept ==
      /\ stream' \in [Viewer -> Relay \cup {None}]
      /\ shown' \in [Viewer -> SUBSET Event]
      /\ queue' = [u \in Viewer |-> queue'[u]]
      /\ \A u \in Viewer : GoodQueue(u, queue'[u])
<1>1. ASSUME UNCHANGED streamVars
      PROVE  Kept
  BY <1>1 DEF StreamInv, streamVars
<1>2. ASSUME NEW r \in Relay, CrashLive(r)
      PROVE  Kept
  BY <1>2, EmptyIsGood DEF CrashLive, StreamInv
<1>3. ASSUME NEW r \in Relay, NEW e \in Event, PublishLive(r, e)
      PROVE  Kept
  <2>1. \A u \in Subscribers(r, e) : u \in inbox[e] /\ u \in Viewer
    BY DEF Subscribers
  <2>2. \A u \in Viewer : GoodQueue(u, queue[u])
    BY DEF StreamInv
  <2>3. \A u \in Viewer :
           queue'[u] = IF u \in Subscribers(r, e) THEN Put(queue[u], e)
                       ELSE queue[u]
    BY <1>3 DEF PublishLive
  <2>4. \A u \in Viewer : GoodQueue(u, queue'[u])
    BY <2>1, <2>2, <2>3, PutIsGood
  <2> QED
    BY <1>3, <2>4 DEF PublishLive, StreamInv
<1>4. ASSUME NEW v \in Viewer, Load(v)
      PROVE  Kept
  BY <1>4 DEF Load, StreamInv, Inbox
<1>5. ASSUME NEW v \in Viewer, NEW r \in Relay, Connect(v, r)
      PROVE  Kept
  BY <1>5 DEF Connect, StreamInv
<1>6. ASSUME NEW v \in Viewer, Disconnect(v)
      PROVE  Kept
  BY <1>6, EmptyIsGood DEF Disconnect, StreamInv
<1>7. ASSUME NEW v \in Viewer, Receive(v)
      PROVE  Kept
  <2>1. \A u \in Viewer : queue'[u] = IF u = v THEN Tail(queue[v]) ELSE queue[u]
    BY <1>7 DEF Receive, StreamInv
  <2>2. \A u \in Viewer : GoodQueue(u, queue'[u])
    BY <1>7, <2>1, TailIsGood DEF Receive, StreamInv
  <2> QED
    BY <1>7, <2>2 DEF Receive, StreamInv, Refreshed, Inbox
<1>8. Kept
  <2>1. CASE UNCHANGED liveVars
    BY <1>1, <2>1 DEF liveVars
  <2> QED
    BY <1>1, <1>2, <1>3, <1>4, <1>5, <1>6, <1>7, <2>1 DEF LiveNext
<1>9. \A u \in Viewer : GoodQueue(u, queue[u])'
  <2> SUFFICES ASSUME NEW u \in Viewer
               PROVE  GoodQueue(u, queue[u])'
    OBVIOUS
  <2>1. GoodQueue(u, queue'[u])
    BY <1>8
  <2>2. [OutboxNext]_outboxVars
    BY LiveStepIsOutboxStep
  <2> QED
    BY <2>1, <2>2, GoodStays DEF GoodQueue
<1> QED
  BY <1>8, <1>9 DEF StreamInv

LEMMA LiveStreamInv == LiveSpec => [](OutboxInv /\ StreamInv)
<1>1. LiveInit => StreamInv
  BY StreamInitInv
<1>2. OutboxInv /\ StreamInv /\ [LiveNext]_liveVars => StreamInv'
  BY StreamNextInv
<1> QED
  BY <1>1, <1>2, LiveOutboxInv, PTL DEF LiveSpec

(* Every reachable state of outbox, relays and streams is well typed; in      *)
(* particular no queue outgrows its bound.                                    *)
THEOREM StreamTypeCorrect == LiveSpec => []StreamTypeOK
<1>1. OutboxInv /\ StreamInv => StreamTypeOK
  BY DEF OutboxInv, StreamInv, GoodQueue, StreamTypeOK
<1> QED
  BY <1>1, LiveStreamInv, PTL

(* A stream carries committed notifications of its own user only (FR-007).    *)
THEOREM FramesAreOwn == LiveSpec => []OwnFramesOnly
<1>1. StreamInv => OwnFramesOnly
  BY DEF StreamInv, GoodQueue, OwnFramesOnly
<1> QED
  BY <1>1, LiveStreamInv, PTL
=============================================================================
