------------------------- MODULE ItemRequests_proofs -------------------------
(***************************************************************************)
(* Theorems about ItemRequests for any sessions, requests and orders.      *)
(***************************************************************************)
EXTENDS ItemRequests, StockLedger_proofs, FunctionTheorems

-----------------------------------------------------------------------------
(* What a step does to the request rows *)

Begins(s) ==
    \E r \in RequestId :
        \/ \E lines \in Orders : BeginCreate(s, r, lines)
        \/ \E op \in {"approve", "reject"} : BeginDecide(s, r, op)
        \/ /\ request[r] # None
           /\ \E shelves \in [DOMAIN request[r].lines -> Shelf] :
                 BeginFulfillRequest(s, r, shelves)

(* Session s keeps what it has read of a request, or forgets it.              *)
Forgets(s) ==
    /\ held' \in {held, [held EXCEPT ![s] = None]}
    /\ UNCHANGED <<request, trail>>

LEMMA RequestSteps ==
    ASSUME held \in [Session -> Held \cup {None}], [RequestNext]_allVars
    PROVE  \/ UNCHANGED requestVars
           \/ \E s \in Session : \/ Begins(s) \/ Forgets(s)
                                 \/ held[s] # None /\ WriteRequest(s)
<1> DEFINE G == \/ UNCHANGED requestVars
                \/ \E s \in Session : \/ Begins(s) \/ Forgets(s)
                                      \/ held[s] # None /\ WriteRequest(s)
<1> SUFFICES G
  OBVIOUS
<1>1. ASSUME NEW s \in Session, BeginRequest(s) PROVE G
  BY <1>1 DEF BeginRequest, Begins
<1>2. ASSUME NEW s \in Session, BeginOther(s) PROVE G
  BY <1>2 DEF BeginOther
<1>3. ASSUME NEW s \in Session, KeepRequest(s) PROVE Forgets(s)
  <2>1. held = [held EXCEPT ![s] = held[s]]
    OBVIOUS
  <2> QED
    BY <1>3, <2>1 DEF KeepRequest, Forgets
<1>4. ASSUME NEW s \in Session, LockStock(s) \/ CrashStock(s) PROVE G
  BY <1>3, <1>4 DEF LockStock, CrashStock
<1>5. ASSUME NEW s \in Session, Finish(s) PROVE G
  BY <1>3, <1>5 DEF Finish, AdvanceStock, VictimOfDeadlock, CommitFulfill, CommitRequest
<1>6. ASSUME NEW s \in Session, Abandon(s) PROVE G
  BY <1>6 DEF Abandon, Forgets
<1>7. CASE UNCHANGED allVars
  BY <1>7 DEF allVars
<1> HIDE DEF G
<1>8. (\E i \in Item, m \in Threshold :
           UpdateMinQuantity(i, m) /\ UNCHANGED requestVars) => G
  BY DEF G
<1> QED
  BY <1>1, <1>2, <1>4, <1>5, <1>6, <1>7, <1>8 DEF RequestNext

-----------------------------------------------------------------------------
(* The rows' types, and the ledger below the requests *)

RowsType ==
    /\ request \in [RequestId -> Row \cup {None}]
    /\ trail \in [RequestId -> Seq({"create", "approve", "reject", "fulfill"})]
    /\ held \in [Session -> Held \cup {None}]

LEMMA HeldType ==
    ASSUME RowsType, NEW s \in Session, held[s] # None
    PROVE  /\ held[s].op \in {"create", "approve", "reject", "fulfill"}
           /\ held[s].r \in RequestId
           /\ held[s].version \in Nat
           /\ held[s].lines \in Orders
<1>1. held[s] \in Held
  BY DEF RowsType
<1> QED
  BY <1>1 DEF Held

LEMMA RowType ==
    ASSUME RowsType, NEW r \in RequestId, request[r] # None
    PROVE  /\ request[r].status \in Status
           /\ request[r].version \in Nat
           /\ request[r].lines \in Orders
<1>1. request[r] \in Row
  BY DEF RowsType
<1> QED
  BY <1>1 DEF Row

LEMMA OutcomeType ==
    ASSUME NEW op \in {"create", "approve", "reject", "fulfill"}
    PROVE  Outcome(op) \in Status
BY DEF Outcome, Status

LEMMA HoldType ==
    ASSUME RowsType, NEW s \in Session,
           NEW op \in {"create", "approve", "reject", "fulfill"},
           NEW r \in RequestId, NEW version \in Nat, NEW lines \in Orders,
           Hold(s, op, r, version, lines)
    PROVE  held' \in [Session -> Held \cup {None}]
<1>1. [op |-> op, r |-> r, version |-> version, lines |-> lines] \in Held
  BY DEF Held
<1> QED
  BY <1>1 DEF Hold, RowsType

LEMMA RowsStep == RowsType /\ [RequestNext]_allVars => RowsType'
<1> SUFFICES ASSUME RowsType, [RequestNext]_allVars PROVE RowsType'
  OBVIOUS
<1>1. CASE UNCHANGED requestVars
  BY <1>1 DEF requestVars, RowsType
<1>2. ASSUME NEW s \in Session, Begins(s) PROVE RowsType'
  <2>1. PICK r \in RequestId :
          \/ \E lines \in Orders : BeginCreate(s, r, lines)
          \/ \E op \in {"approve", "reject"} : BeginDecide(s, r, op)
          \/ /\ request[r] # None
             /\ \E shelves \in [DOMAIN request[r].lines -> Shelf] :
                   BeginFulfillRequest(s, r, shelves)
    BY <1>2 DEF Begins
  <2>2. UNCHANGED <<request, trail>>
    BY <2>1 DEF BeginCreate, BeginDecide, BeginFulfillRequest
  <2>3. held' \in [Session -> Held \cup {None}]
    <3>1. CASE \E lines \in Orders : BeginCreate(s, r, lines)
      BY <3>1, HoldType DEF BeginCreate
    <3>2. CASE \E op \in {"approve", "reject"} : BeginDecide(s, r, op)
      BY <3>2, HoldType, RowType DEF BeginDecide
    <3>3. CASE /\ request[r] # None
               /\ \E shelves \in [DOMAIN request[r].lines -> Shelf] :
                     BeginFulfillRequest(s, r, shelves)
      BY <3>3, HoldType, RowType DEF BeginFulfillRequest
    <3> QED
      BY <2>1, <3>1, <3>2, <3>3
  <2> QED
    BY <2>2, <2>3 DEF RowsType
<1>3. ASSUME NEW s \in Session, Forgets(s) PROVE RowsType'
  BY <1>3 DEF Forgets, RowsType
<1>4. ASSUME NEW s \in Session, held[s] # None, WriteRequest(s) PROVE RowsType'
  <2> DEFINE h == held[s]
  <2>1. /\ h.op \in {"create", "approve", "reject", "fulfill"}
        /\ h.r \in RequestId /\ h.version \in Nat /\ h.lines \in Orders
    BY <1>4, HeldType
  <2>2. [status |-> Outcome(h.op), version |-> h.version + 1, lines |-> h.lines] \in Row
    BY <2>1, OutcomeType DEF Row
  <2> HIDE DEF h
  <2>3. /\ request' = [request EXCEPT ![h.r] = [status |-> Outcome(h.op),
                                                version |-> h.version + 1,
                                                lines |-> h.lines]]
        /\ trail' = [trail EXCEPT ![h.r] = Append(trail[h.r], h.op)]
        /\ held' = [held EXCEPT ![s] = None]
    BY <1>4 DEF WriteRequest, h
  <2>4. Append(trail[h.r], h.op) \in Seq({"create", "approve", "reject", "fulfill"})
    BY <2>1, AppendProperties DEF RowsType
  <2> QED
    BY <2>2, <2>3, <2>4 DEF RowsType
<1> QED
  BY <1>1, <1>2, <1>3, <1>4, RequestSteps DEF RowsType

LEMMA RowsInit == RequestInit => RowsType
BY DEF RequestInit, RowsType

LEMMA PicksType ==
    ASSUME NEW lines \in Orders, NEW shelves \in [DOMAIN lines -> Shelf]
    PROVE  /\ Len(lines) \in 1..MaxLines
           /\ Picks(lines, shelves)
                \in [1..Len(lines) -> [slot: Slot, amount: 1..MaxQuantity]]
<1>1. lines \in Seq(Order) /\ Len(lines) \in 1..MaxLines
  BY RequestConstants
<1>2. DOMAIN lines = 1..Len(lines)
  BY <1>1
<1>3. \A j \in 1..Len(lines) : lines[j].item \in Item /\ lines[j].amount \in 1..MaxQuantity
  <2>1. \A j \in 1..Len(lines) : lines[j] \in Order
    BY <1>1
  <2> QED
    BY <2>1 DEF Order
<1>4. \A j \in 1..Len(lines) : <<shelves[j], lines[j].item>> \in Slot
  BY <1>2, <1>3 DEF Slot
<1> QED
  BY <1>1, <1>2, <1>3, <1>4 DEF Picks

(* Below the requests, every step is a step of the ledger or none.            *)
LEMMA LedgerBelow == RowsType /\ [RequestNext]_allVars => [Next]_vars
<1> SUFFICES ASSUME RowsType, [RequestNext]_allVars PROVE [Next]_vars
  OBVIOUS
<1>1. ASSUME NEW s \in Session, BeginRequest(s) PROVE [Next]_vars
  <2>1. ASSUME NEW r \in RequestId, request[r] # None,
               NEW shelves \in [DOMAIN request[r].lines -> Shelf],
               BeginFulfillRequest(s, r, shelves)
        PROVE  Next
    <3>1. BeginFulfill(s, Picks(request[r].lines, shelves))
      BY <2>1 DEF BeginFulfillRequest
    <3>2. BeginAnyFulfill(s)
      BY <2>1, <3>1, RowType, PicksType DEF BeginAnyFulfill
    <3> QED
      BY <3>2 DEF Next
  <2> QED
    BY <1>1, <2>1 DEF BeginRequest, BeginCreate, BeginDecide
<1>2. ASSUME NEW s \in Session, BeginOther(s) PROVE [Next]_vars
  BY <1>2 DEF BeginOther, Next
<1>3. ASSUME NEW s \in Session, LockStock(s) \/ CrashStock(s) PROVE [Next]_vars
  BY <1>3 DEF LockStock, CrashStock, Next
<1>4. ASSUME NEW s \in Session, Finish(s) PROVE [Next]_vars
  BY <1>4 DEF Finish, AdvanceStock, VictimOfDeadlock, CommitFulfill, CommitRequest,
     Proceed, Next
<1>5. ASSUME NEW s \in Session, Abandon(s) PROVE [Next]_vars
  BY <1>5 DEF Abandon
<1>6. CASE UNCHANGED allVars
  BY <1>6 DEF allVars
<1> QED
  BY <1>1, <1>2, <1>3, <1>4, <1>5, <1>6 DEF RequestNext, Next

(* Item requests change stock only the way the ledger allows: whatever is     *)
(* proved of the ledger holds with item requests on top of it.                *)
THEOREM RequestsKeepLedger == RequestSpec => Spec
<1>1. RequestInit => Init
  BY DEF RequestInit
<1> QED
  BY <1>1, RowsInit, RowsStep, LedgerBelow, PTL DEF RequestSpec, Spec

(* Every reachable state has the types of the tables and of the requests.     *)
THEOREM RequestTypeCorrect == RequestSpec => []RequestTypeOK
<1>1. RowsType /\ TypeOK => RequestTypeOK
  BY DEF RowsType, RequestTypeOK
<1> QED
  BY <1>1, RequestsKeepLedger, TypeCorrect, RowsInit, RowsStep, PTL DEF RequestSpec

-----------------------------------------------------------------------------
(* Versions, and what comes before a fulfilment *)

(* What a session has read of a request was true when it read it, and the     *)
(* part that stays true is enough: the version it was guarded by, and for a   *)
(* fulfilment that the request has been approved.                             *)
HeldVersions ==
    \A s \in Session : held[s] # None =>
        /\ held[s].op = "create" => held[s].version = 0
        /\ held[s].op \in {"approve", "reject"} => held[s].version = 1
        /\ held[s].op = "fulfill" => /\ held[s].version = 2
                                     /\ Entries(held[s].r, {"approve"}) # {}

ApprovedByEntry ==
    \A r \in RequestId :
        request[r] # None /\ request[r].status = "approved"
          => Entries(r, {"approve"}) # {}

VersionInv ==
    /\ RowsType
    /\ VersionTellsStatus
    /\ HeldVersions
    /\ ApprovedByEntry
    /\ FulfilledAfterApproval

(* An entry appended to a trail, by its position.                             *)
LEMMA TrailAppend ==
    ASSUME RowsType, NEW r \in RequestId,
           NEW op \in {"create", "approve", "reject", "fulfill"},
           trail'[r] = Append(trail[r], op), NEW ops
    PROVE  /\ Len(trail[r]) + 1 \in Nat
           /\ \A k \in Entries(r, ops) : k < Len(trail[r]) + 1
           /\ Entries(r, ops)' = Entries(r, ops)
                \cup IF op \in ops THEN {Len(trail[r]) + 1} ELSE {}
<1> DEFINE t == trail[r]
<1>1. t \in Seq({"create", "approve", "reject", "fulfill"})
  BY DEF RowsType
<1> HIDE DEF t
<1>2. /\ Len(t) \in Nat /\ DOMAIN t = 1..Len(t)
      /\ DOMAIN Append(t, op) = 1..(Len(t) + 1)
      /\ Append(t, op)[Len(t) + 1] = op
      /\ \A k \in 1..Len(t) : Append(t, op)[k] = t[k]
  BY <1>1, AppendProperties, LenProperties
<1>3. Entries(r, ops) = {k \in 1..Len(t) : t[k] \in ops}
  BY <1>2 DEF Entries, t
<1>4. Entries(r, ops)' = {k \in 1..(Len(t) + 1) : Append(t, op)[k] \in ops}
  BY <1>2 DEF Entries, t
<1>5. 1..(Len(t) + 1) = 1..Len(t) \cup {Len(t) + 1}
  BY <1>2
<1>6. Entries(r, ops)' = {k \in 1..Len(t) : t[k] \in ops}
                           \cup {k \in {Len(t) + 1} : op \in ops}
  BY <1>2, <1>4, <1>5
<1> QED
  BY <1>2, <1>3, <1>6 DEF t

(* The steps that leave the rows and the trails alone.                        *)
LEMMA RowsKept ==
    ASSUME VersionInv, UNCHANGED <<request, trail>>
    PROVE  /\ VersionTellsStatus' /\ ApprovedByEntry' /\ FulfilledAfterApproval'
           /\ \A r, ops : Entries(r, ops)' = Entries(r, ops)
BY DEF VersionInv, VersionTellsStatus, ApprovedByEntry, FulfilledAfterApproval, Entries

LEMMA HoldKeeps ==
    ASSUME VersionInv, UNCHANGED <<request, trail>>, NEW s \in Session,
           NEW op \in {"create", "approve", "reject", "fulfill"}, NEW r \in RequestId,
           NEW version, NEW lines, Hold(s, op, r, version, lines),
           op = "create" => version = 0,
           op \in {"approve", "reject"} => version = 1,
           op = "fulfill" => version = 2 /\ Entries(r, {"approve"}) # {}
    PROVE  HeldVersions'
<1>1. held \in [Session -> Held \cup {None}]
  BY DEF VersionInv, RowsType
<1>2. \A o \in Session :
        held'[o] = IF o = s THEN [op |-> op, r |-> r, version |-> version,
                                  lines |-> lines] ELSE held[o]
  BY <1>1 DEF Hold
<1> SUFFICES ASSUME NEW o \in Session, held'[o] # None
             PROVE  /\ held'[o].op = "create" => held'[o].version = 0
                    /\ held'[o].op \in {"approve", "reject"} => held'[o].version = 1
                    /\ held'[o].op = "fulfill" =>
                         /\ held'[o].version = 2
                         /\ \E k \in DOMAIN trail[held'[o].r] :
                              trail[held'[o].r][k] \in {"approve"}
  BY DEF HeldVersions, Entries
<1>3. CASE o = s
  BY <1>2, <1>3 DEF Entries
<1>4. CASE o # s
  BY <1>2, <1>4 DEF VersionInv, HeldVersions, Entries
<1> QED
  BY <1>3, <1>4

LEMMA BeginsKeeps ==
    ASSUME VersionInv, NEW s \in Session, Begins(s)
    PROVE  UNCHANGED <<request, trail>> /\ HeldVersions'
<1>1. PICK r \in RequestId :
        \/ \E lines \in Orders : BeginCreate(s, r, lines)
        \/ \E op \in {"approve", "reject"} : BeginDecide(s, r, op)
        \/ /\ request[r] # None
           /\ \E shelves \in [DOMAIN request[r].lines -> Shelf] :
                 BeginFulfillRequest(s, r, shelves)
  BY DEF Begins
<1>2. UNCHANGED <<request, trail>>
  BY <1>1 DEF BeginCreate, BeginDecide, BeginFulfillRequest
<1>3. CASE \E lines \in Orders : BeginCreate(s, r, lines)
  BY <1>2, <1>3, HoldKeeps DEF BeginCreate
<1>4. CASE \E op \in {"approve", "reject"} : BeginDecide(s, r, op)
  <2>1. PICK op \in {"approve", "reject"} : BeginDecide(s, r, op)
    BY <1>4
  <2>2. request[r].version = 1
    BY <2>1 DEF BeginDecide, VersionInv, VersionTellsStatus
  <2> QED
    BY <1>2, <2>1, <2>2, HoldKeeps DEF BeginDecide
<1>5. CASE /\ request[r] # None
           /\ \E shelves \in [DOMAIN request[r].lines -> Shelf] :
                 BeginFulfillRequest(s, r, shelves)
  <2>1. /\ request[r] # None /\ request[r].status = "approved"
        /\ Hold(s, "fulfill", r, request[r].version, request[r].lines)
    BY <1>5 DEF BeginFulfillRequest
  <2>2. request[r].version \in 1..3 /\ request[r].version # 1 /\ request[r].version # 3
    BY <2>1 DEF VersionInv, VersionTellsStatus
  <2>3. request[r].version = 2
    BY <2>2
  <2>4. Entries(r, {"approve"}) # {}
    BY <2>1 DEF VersionInv, ApprovedByEntry
  <2> QED
    BY <1>2, <2>1, <2>3, <2>4, HoldKeeps
<1> QED
  BY <1>1, <1>2, <1>3, <1>4, <1>5

(* A row written from what was read: whoever overwrote it in between, the     *)
(* status and the version written fit each other.                             *)
LEMMA WriteKeeps ==
    ASSUME VersionInv, NEW s \in Session, held[s] # None, WriteRequest(s)
    PROVE  /\ VersionTellsStatus' /\ HeldVersions' /\ ApprovedByEntry'
           /\ FulfilledAfterApproval'
<1> DEFINE h == held[s]
           q == h.r
           row == [status |-> Outcome(h.op), version |-> h.version + 1,
                   lines |-> h.lines]
<1>1. /\ h.op \in {"create", "approve", "reject", "fulfill"}
      /\ q \in RequestId /\ h.version \in Nat
  BY HeldType DEF VersionInv
<1>2. /\ \A r \in RequestId : request'[r] = IF r = q THEN row ELSE request[r]
      /\ \A r \in RequestId : r # q => trail'[r] = trail[r]
      /\ trail'[q] = Append(trail[q], h.op)
      /\ held' = [held EXCEPT ![s] = None]
  BY <1>1 DEF WriteRequest, VersionInv, RowsType
<1>3. /\ h.op = "create" => h.version = 0
      /\ h.op \in {"approve", "reject"} => h.version = 1
      /\ h.op = "fulfill" => h.version = 2 /\ Entries(q, {"approve"}) # {}
  BY DEF VersionInv, HeldVersions
<1>4. /\ row.version \in 1..3
      /\ row.version = 1 <=> row.status = "pending"
      /\ row.version = 3 <=> row.status = "fulfilled"
      /\ row.status = "approved" => h.op = "approve"
  BY <1>1, <1>3 DEF Outcome
<1> HIDE DEF h, q, row
<1>5. \A r \in RequestId : \A ops : r # q => Entries(r, ops)' = Entries(r, ops)
  BY <1>2 DEF Entries
<1>6. \A r \in RequestId : \A ops : Entries(r, ops) \subseteq Entries(r, ops)'
  BY <1>1, <1>2, <1>5, TrailAppend DEF VersionInv
<1>7. VersionTellsStatus'
  BY <1>2, <1>4 DEF VersionInv, VersionTellsStatus
<1>8. HeldVersions'
  <2>1. \A o \in Session : held'[o] # None => held'[o] = held[o] /\ held[o].r \in RequestId
    BY <1>2, HeldType DEF VersionInv, RowsType
  <2>2. \A r \in RequestId :
          Entries(r, {"approve"}) # {}
            => {k \in DOMAIN trail'[r] : trail'[r][k] \in {"approve"}} # {}
    BY <1>6 DEF Entries
  <2> QED
    BY <2>1, <2>2 DEF VersionInv, HeldVersions, Entries
<1>9. ApprovedByEntry'
  <2>1. ASSUME NEW r \in RequestId, r = q, h.op = "approve"
        PROVE  Entries(r, {"approve"})' # {}
    <3>1. trail'[r] = Append(trail[r], h.op) /\ h.op \in {"approve"}
      BY <1>2, <2>1
    <3>2. Entries(r, {"approve"})' = Entries(r, {"approve"}) \cup {Len(trail[r]) + 1}
      BY <1>1, <3>1, TrailAppend DEF VersionInv
    <3> QED
      BY <3>2
  <2> SUFFICES ASSUME NEW r \in RequestId, request'[r] # None,
                      request'[r].status = "approved"
               PROVE  Entries(r, {"approve"})' # {}
    BY DEF ApprovedByEntry
  <2>2. CASE r = q
    BY <1>2, <1>4, <2>1, <2>2
  <2>3. CASE r # q
    BY <1>2, <1>6, <2>3 DEF VersionInv, ApprovedByEntry
  <2> QED
    BY <2>2, <2>3
<1>10. FulfilledAfterApproval'
  <2> SUFFICES ASSUME NEW r \in RequestId, NEW k \in Entries(r, {"fulfill"})'
               PROVE  \E j \in Entries(r, {"approve"})' : j < k
    BY DEF FulfilledAfterApproval
  <2>1. CASE k \in Entries(r, {"fulfill"})
    BY <1>6, <2>1 DEF VersionInv, FulfilledAfterApproval
  <2>2. CASE k \notin Entries(r, {"fulfill"})
    <3>1. r = q
      BY <1>5, <2>2
    <3>2. h.op = "fulfill" /\ k = Len(trail[q]) + 1
      BY <1>1, <1>2, <2>2, <3>1, TrailAppend DEF VersionInv
    <3>3. PICK j \in Entries(q, {"approve"}) : TRUE
      BY <1>3, <3>2
    <3>4. j < k
      BY <1>1, <1>2, <3>2, <3>3, TrailAppend DEF VersionInv
    <3> QED
      BY <1>6, <3>1, <3>3, <3>4
  <2> QED
    BY <2>1, <2>2
<1> QED
  BY <1>7, <1>8, <1>9, <1>10

LEMMA VersionStep == VersionInv /\ [RequestNext]_allVars => VersionInv'
<1> SUFFICES ASSUME VersionInv, [RequestNext]_allVars
             PROVE  /\ VersionTellsStatus' /\ HeldVersions' /\ ApprovedByEntry'
                    /\ FulfilledAfterApproval'
  BY RowsStep DEF VersionInv
<1>1. CASE UNCHANGED requestVars
  BY <1>1, RowsKept DEF requestVars, VersionInv, HeldVersions
<1>2. ASSUME NEW s \in Session, Begins(s)
      PROVE  /\ VersionTellsStatus' /\ HeldVersions' /\ ApprovedByEntry'
             /\ FulfilledAfterApproval'
  BY <1>2, BeginsKeeps, RowsKept
<1>3. ASSUME NEW s \in Session, Forgets(s)
      PROVE  /\ VersionTellsStatus' /\ HeldVersions' /\ ApprovedByEntry'
             /\ FulfilledAfterApproval'
  <2>1. \A o \in Session : held'[o] # None => held'[o] = held[o]
    BY <1>3 DEF Forgets, VersionInv, RowsType
  <2> QED
    BY <1>3, <2>1, RowsKept DEF Forgets, VersionInv, HeldVersions
<1>4. ASSUME NEW s \in Session, held[s] # None, WriteRequest(s)
      PROVE  /\ VersionTellsStatus' /\ HeldVersions' /\ ApprovedByEntry'
             /\ FulfilledAfterApproval'
  BY <1>4, WriteKeeps
<1> QED
  BY <1>1, <1>2, <1>3, <1>4, RequestSteps DEF VersionInv, RowsType

LEMMA VersionInit == RequestInit => VersionInv
<1>1. RequestInit => \A r \in RequestId : \A ops : Entries(r, ops) = {}
  BY DEF RequestInit, Entries
<1> QED
  BY <1>1, RowsInit
     DEF RequestInit, VersionInv, VersionTellsStatus, HeldVersions, ApprovedByEntry,
         FulfilledAfterApproval

(* Whatever concurrent decisions and fulfilments overwrite, the version of a  *)
(* request tells its callers how far it has come.                             *)
THEOREM VersionsTellStatus == RequestSpec => []VersionTellsStatus
<1>1. VersionInv => VersionTellsStatus
  BY DEF VersionInv
<1> QED
  BY <1>1, VersionInit, VersionStep, PTL DEF RequestSpec

(* No interleaving takes stock for a request that was never approved.         *)
THEOREM FulfilledOnlyAfterApproval == RequestSpec => []FulfilledAfterApproval
<1>1. VersionInv => FulfilledAfterApproval
  BY DEF VersionInv
<1> QED
  BY <1>1, VersionInit, VersionStep, PTL DEF RequestSpec

-----------------------------------------------------------------------------
(* What a step does to one session's transaction *)

StockPc == {"line", "lookup", "insert", "lock", "holding", "posted"}

(* A stock request of session s begins.                                       *)
BeginsStock(s) ==
    \E op \in MovementType, pc \in {"line", "lookup", "lock"}, lines \in Seq(Line) :
        /\ lines # <<>>
        /\ op = "fulfillment" => DistinctItems(lines)
        /\ tx[s].pc = "idle"
        /\ tx'[s] = StockRequest(op, pc, lines)
        /\ draft'[s] = draft[s]

(* It moves to another statement without computing a movement.                *)
MovesOn(s) ==
    \E pc \in {"insert", "lock", "holding"} :
        /\ tx[s].pc \in {"line", "lookup", "insert", "lock"}
        /\ tx'[s] = [tx[s] EXCEPT !.pc = pc]
        /\ draft'[s] = draft[s]

(* Its transaction ends.                                                      *)
Ends(s) == tx'[s] = Idle /\ draft'[s] = NoDrafts

(* A request of the catalogue begins, moves on or ends.                       *)
Administers(s) ==
    /\ tx[s].pc \notin StockPc
    /\ tx'[s].pc \notin StockPc
    /\ tx'[s].pc # "idle" => tx'[s].op # "fulfillment"
    /\ draft'[s] = draft[s]

LEMMA BeginSteps ==
    ASSUME TypeInv, NEW s \in Session,
           BeginStock(s) \/ BeginAdmin(s) \/ BeginAnyFulfill(s)
    PROVE  BeginsStock(s) \/ Administers(s)
<1>1. ASSUME NEW op \in MovementType, NEW pc \in {"line", "lookup", "lock"},
             NEW lines \in Seq(Line), lines # <<>>,
             op = "fulfillment" => DistinctItems(lines),
             Start(s, StockRequest(op, pc, lines))
      PROVE  BeginsStock(s)
  <2>1. /\ tx[s].pc = "idle" /\ tx'[s] = StockRequest(op, pc, lines)
        /\ draft'[s] = draft[s]
    BY <1>1 DEF Start, TypeInv, TypeOK
  <2> QED
    BY <1>1, <2>1 DEF BeginsStock
<1>2. ASSUME NEW x \in Slot, NEW a \in 0..MaxQuantity,
             BeginReceive(s, x, a) \/ BeginIssue(s, x, a) \/ BeginAdjust(s, x, a)
      PROVE  BeginsStock(s)
  <2>1. <<[slot |-> x, amount |-> a]>> \in Seq(Line)
    BY LedgerConstants DEF Line
  <2>2. <<[slot |-> x, amount |-> a]>> # <<>>
    OBVIOUS
  <2>3. CASE BeginReceive(s, x, a)
    BY <2>1, <2>2, <2>3, <1>1 DEF BeginReceive, MovementType
  <2>4. CASE BeginIssue(s, x, a)
    BY <2>1, <2>2, <2>4, <1>1 DEF BeginIssue, MovementType
  <2>5. CASE BeginAdjust(s, x, a)
    BY <2>1, <2>2, <2>5, <1>1 DEF BeginAdjust, MovementType
  <2> QED
    BY <1>2, <2>3, <2>4, <2>5
<1>3. ASSUME NEW n \in 1..MaxLines,
             NEW lines \in [1..n -> [slot: Slot, amount: 1..MaxQuantity]],
             BeginFulfill(s, lines)
      PROVE  BeginsStock(s)
  <2>1. [slot: Slot, amount: 1..MaxQuantity] \subseteq Line
    BY LedgerConstants DEF Line
  <2>2. lines \in [1..n -> Line] /\ n \in Nat
    BY <2>1, LedgerConstants
  <2>3. lines \in Seq(Line)
    BY <2>2
  <2>4. /\ lines # <<>> /\ DistinctItems(lines)
        /\ Start(s, StockRequest("fulfillment", "line", lines))
    BY <1>3 DEF BeginFulfill
  <2> QED
    BY <2>3, <2>4, <1>1 DEF MovementType
<1>4. ASSUME NEW op \in {"create_shelf", "retire_shelf", "retire_item", "retire_warehouse"},
             NEW pc \in {"creating", "retiring"}, NEW target,
             Start(s, AdminRequest(op, pc, target))
      PROVE  Administers(s)
  BY <1>4 DEF Start, AdminRequest, Administers, StockPc, TypeInv, TypeOK
<1>5. CASE BeginStock(s)
  BY <1>2, <1>5 DEF BeginStock
<1>6. CASE BeginAdmin(s)
  BY <1>4, <1>6 DEF BeginAdmin, BeginCreateShelf, BeginRetireShelf, BeginRetireItem,
     BeginRetireWarehouse
<1>7. CASE BeginAnyFulfill(s)
  BY <1>3, <1>7 DEF BeginAnyFulfill
<1> QED
  BY <1>5, <1>6, <1>7

SessionStep(s) ==
    \/ tx'[s] = tx[s] /\ draft'[s] = draft[s]
    \/ BeginsStock(s) \/ MovesOn(s) \/ Post(s) \/ Ends(s) \/ Administers(s)

LEMMA SessionSteps ==
    ASSUME TypeInv, [Next]_vars, NEW s \in Session
    PROVE  SessionStep(s)
<1> DEFINE same == tx'[s] = tx[s] /\ draft'[s] = draft[s]
<1>0. tx \in [Session -> Transaction] /\ draft \in [Session -> [Slot -> Draft \cup {None}]]
  BY DEF TypeInv, TypeOK
<1>1. ASSUME NEW o \in Session, BeginStock(o) \/ BeginAdmin(o) \/ BeginAnyFulfill(o)
      PROVE  SessionStep(s)
  <2>1. CASE o = s
    BY <1>1, <2>1, BeginSteps DEF SessionStep
  <2>2. CASE o # s
    <3>1. ASSUME NEW r, Start(o, r) PROVE same
      BY <1>0, <2>2, <3>1 DEF Start
    <3>2. same
      BY <1>1, <3>1 DEF BeginStock, BeginAdmin, BeginAnyFulfill, BeginReceive,
         BeginIssue, BeginAdjust, BeginFulfill, BeginCreateShelf, BeginRetireShelf,
         BeginRetireWarehouse, BeginRetireItem
    <3> QED
      BY <3>2 DEF SessionStep
  <2> QED
    BY <2>1, <2>2
<1>2. ASSUME NEW o \in Session, Rolls(o) \/ Commit(o) PROVE SessionStep(s)
  <2>1. draft' = [draft EXCEPT ![o] = NoDrafts] /\ tx' = [tx EXCEPT ![o] = Idle]
    BY <1>2 DEF Rolls, Rollback, Commit
  <2> QED
    BY <1>0, <2>1 DEF SessionStep, Ends
<1>3. ASSUME NEW o \in Session, TakeLock(o) \/ Moves(o) PROVE SessionStep(s)
  <2>1. PICK pc \in {"insert", "lock", "holding"} :
          /\ tx[o].pc \in {"line", "lookup", "insert", "lock"}
          /\ tx' = [tx EXCEPT ![o].pc = pc]
          /\ draft' = draft
    BY <1>3 DEF TakeLock, LockRow, LookupHit, InsertRow, Acquire, Moves, FulfillLine,
       LookupMiss, InsertConflict
  <2> QED
    BY <1>0, <2>1 DEF SessionStep, MovesOn
<1>4. ASSUME NEW o \in Session, Post(o) PROVE SessionStep(s)
  BY <1>0, <1>4 DEF SessionStep, Post
<1>5. ASSUME NEW o \in Session, CommitCreateShelf(o) \/ CommitRetirement(o)
      PROVE  SessionStep(s)
  <2>1. /\ tx[o].pc \in {"creating", "resolving"}
        /\ tx' = [tx EXCEPT ![o] = Idle] /\ draft' = draft
    BY <1>5 DEF CommitCreateShelf, CommitRetirement
  <2> QED
    BY <1>0, <2>1 DEF SessionStep, Administers, StockPc, Idle
<1>6. ASSUME NEW o \in Session, CollectAlerts(o) PROVE SessionStep(s)
  <2>1. /\ tx[o].pc = "retiring" /\ draft' = draft
        /\ \A q \in Session : q # o => tx'[q] = tx[q]
        /\ tx'[o].pc = "resolving" /\ tx'[o].op = tx[o].op
    BY <1>0, <1>6 DEF CollectAlerts, Transaction
  <2>2. tx[o].op # "fulfillment"
    BY <2>1 DEF TypeInv, RequestShape
  <2> QED
    BY <2>1, <2>2 DEF SessionStep, Administers, StockPc
<1>7. ASSUME NEW i \in Item, NEW m \in Threshold, UpdateMinQuantity(i, m)
      PROVE  SessionStep(s)
  BY <1>7 DEF UpdateMinQuantity, SessionStep
<1>8. CASE UNCHANGED vars
  BY <1>8 DEF vars, SessionStep
<1> QED
  BY <1>1, <1>2, <1>3, <1>4, <1>5, <1>6, <1>7, <1>8, NextCases

-----------------------------------------------------------------------------
(* The lines a transaction has posted *)

Done(r) == IF r.pc = "posted" THEN Len(r.lines) ELSE r.k - 1

(* The drafts of a session are those of the lines it has posted, and those of *)
(* a fulfilment take away what its lines say.                                 *)
LinesPosted(s) ==
    LET r == tx[s]
    IN  /\ r.pc \notin StockPc => \A x \in Slot : draft[s][x] = None
        /\ r.pc \in StockPc =>
             \A x \in Slot :
               draft[s][x] # None => /\ draft[s][x].type = r.op
                                     /\ \E j \in 1..Done(r) : r.lines[j].slot = x
        /\ r.pc \in StockPc /\ r.op = "fulfillment" =>
             /\ DistinctItems(r.lines)
             /\ \A j \in 1..Done(r) :
                  /\ draft[s][r.lines[j].slot] # None
                  /\ draft[s][r.lines[j].slot].delta = - r.lines[j].amount

LineInv == \A s \in Session : LinesPosted(s)

LEMMA PostLine ==
    ASSUME LockInv, NEW s \in Session, LinesPosted(s), Post(s)
    PROVE  LinesPosted(s)'
<1> DEFINE r == tx[s]
           x == CurrentSlot(s)
           k == r.k
<1>1. /\ r.pc = "holding" /\ Accepted(s) /\ r \in Transaction
      /\ draft' = [draft EXCEPT ![s][x] = DraftOf(s)]
      /\ tx' = [tx EXCEPT ![s] = AfterLine(r)]
  BY DEF Post, LockInv, TypeInv, TypeOK
<1>2. /\ r.lines \in Seq(Line) /\ k \in 1..Len(r.lines) /\ r.op \in MovementType
      /\ Len(r.lines) \in Nat /\ DOMAIN r.lines = 1..Len(r.lines)
  BY <1>1 DEF LockInv, TypeInv, RequestShape, Transaction
<1>3. x \in Slot /\ x = r.lines[k].slot /\ CurrentLine(s).amount \in Nat
  BY <1>1, CurrentSlotType DEF CurrentSlot, CurrentLine, LockInv
<1>4. /\ draft'[s][x] = DraftOf(s)
      /\ \A y \in Slot : y # x => draft'[s][y] = draft[s][y]
  BY <1>1, <1>3 DEF LockInv, TypeInv, TypeOK
<1>5. tx'[s] = AfterLine(r)
  BY <1>1 DEF LockInv, TypeInv, TypeOK
<1>6. /\ tx'[s].op = r.op /\ tx'[s].lines = r.lines
      /\ tx'[s].pc \in StockPc /\ Done(tx'[s]) = k
  <2>1. CASE k < Len(r.lines)
    <3>1. AfterLine(r) = [r EXCEPT !.pc = "line", !.k = k + 1]
      BY <2>1 DEF AfterLine
    <3>2. /\ AfterLine(r).op = r.op /\ AfterLine(r).lines = r.lines
          /\ AfterLine(r).pc = "line" /\ AfterLine(r).k = k + 1
      BY <1>1, <3>1 DEF Transaction
    <3> QED
      BY <1>2, <1>5, <3>2 DEF Done, StockPc
  <2>2. CASE ~(k < Len(r.lines))
    <3>1. AfterLine(r) = [r EXCEPT !.pc = "posted"]
      BY <2>2 DEF AfterLine
    <3>2. /\ AfterLine(r).op = r.op /\ AfterLine(r).lines = r.lines
          /\ AfterLine(r).pc = "posted"
      BY <1>1, <3>1 DEF Transaction
    <3> QED
      BY <1>2, <1>5, <2>2, <3>2 DEF Done, StockPc
  <2> QED
    BY <2>1, <2>2
<1>7. Done(r) = k - 1
  BY <1>1 DEF Done
<1>8. DraftOf(s).type = r.op /\ DraftOf(s) # None
  BY <1>1, DraftType, NoneIsNoDraft DEF DraftOf, LockInv
<1>9. r.op = "fulfillment" => DraftOf(s).delta = - r.lines[k].amount
  <2> SUFFICES ASSUME r.op = "fulfillment"
               PROVE  DraftOf(s).delta = - r.lines[k].amount
    OBVIOUS
  <2>1. DraftOf(s).delta = Resulting(s) - quantity[x]
    BY DEF DraftOf
  <2>2. Resulting(s) = quantity[x] - CurrentLine(s).amount
    BY DEF Resulting
  <2>3. quantity[x] \in Int
    BY <1>3, LedgerConstants DEF LockInv, TypeInv, TypeOK
  <2> QED
    BY <1>3, <2>1, <2>2, <2>3 DEF CurrentLine
<1>10. r.pc \in StockPc
  BY <1>1 DEF StockPc
<1> HIDE DEF r, x, k
<1>11. ASSUME NEW y \in Slot, draft'[s][y] # None
       PROVE  /\ draft'[s][y].type = r.op
              /\ \E j \in 1..k : r.lines[j].slot = y
  <2>1. CASE y = x
    BY <1>2, <1>3, <1>4, <1>8, <2>1
  <2>2. CASE y # x
    <3>1. draft[s][y] # None
      BY <1>4, <1>11, <2>2
    <3>2. /\ draft[s][y].type = r.op
          /\ \E j \in 1..(k - 1) : r.lines[j].slot = y
      BY <1>7, <1>10, <3>1 DEF LinesPosted, r
    <3> QED
      BY <1>2, <1>4, <2>2, <3>2
  <2> QED
    BY <2>1, <2>2
<1>12. ASSUME r.op = "fulfillment"
       PROVE  /\ DistinctItems(r.lines)
              /\ \A j \in 1..k :
                   /\ draft'[s][r.lines[j].slot] # None
                   /\ draft'[s][r.lines[j].slot].delta = - r.lines[j].amount
  <2>1. /\ DistinctItems(r.lines)
        /\ \A j \in 1..(k - 1) :
             /\ draft[s][r.lines[j].slot] # None
             /\ draft[s][r.lines[j].slot].delta = - r.lines[j].amount
    BY <1>7, <1>10, <1>12 DEF LinesPosted, r
  <2>2. ASSUME NEW j \in 1..k
        PROVE  /\ draft'[s][r.lines[j].slot] # None
               /\ draft'[s][r.lines[j].slot].delta = - r.lines[j].amount
    <3>1. CASE j = k
      BY <1>3, <1>4, <1>8, <1>9, <1>12, <3>1
    <3>2. CASE j # k
      <4>1. j \in 1..(k - 1) /\ j \in DOMAIN r.lines /\ k \in DOMAIN r.lines
        BY <1>2, <3>2
      <4>2. r.lines[j] \in Line
        BY <1>2, <4>1
      <4>3. r.lines[j].slot \in Slot /\ r.lines[j].slot # x
        BY <1>3, <2>1, <3>2, <4>1, <4>2 DEF Line, DistinctItems
      <4> QED
        BY <1>4, <2>1, <4>1, <4>3
    <3> QED
      BY <3>1, <3>2
  <2> QED
    BY <2>1, <2>2
<1> QED
  BY <1>6, <1>11, <1>12 DEF LinesPosted

LEMMA LineStep == LockInv /\ LineInv /\ [Next]_vars => LineInv'
<1> SUFFICES ASSUME LockInv, LineInv, [Next]_vars, NEW s \in Session
             PROVE  LinesPosted(s)'
  BY DEF LineInv
<1> USE DEF LockInv
<1>0. tx[s] \in Transaction /\ LinesPosted(s)
  BY DEF TypeInv, TypeOK, LineInv
<1>1. CASE tx'[s] = tx[s] /\ draft'[s] = draft[s]
  BY <1>0, <1>1 DEF LinesPosted
<1>2. CASE BeginsStock(s)
  <2>1. PICK op \in MovementType, pc \in {"line", "lookup", "lock"}, lines \in Seq(Line) :
          /\ lines # <<>>
          /\ op = "fulfillment" => DistinctItems(lines)
          /\ tx[s].pc = "idle"
          /\ tx'[s] = StockRequest(op, pc, lines)
          /\ draft'[s] = draft[s]
    BY <1>2 DEF BeginsStock
  <2>2. \A x \in Slot : draft'[s][x] = None
    BY <1>0, <2>1 DEF LinesPosted, StockPc
  <2>3. /\ tx'[s].op = op /\ tx'[s].lines = lines /\ Done(tx'[s]) = 0
        /\ tx'[s].pc \in StockPc
    BY <2>1 DEF StockRequest, Done, StockPc
  <2> QED
    BY <2>1, <2>2, <2>3 DEF LinesPosted
<1>3. CASE MovesOn(s)
  <2>1. /\ tx[s].pc \in {"line", "lookup", "insert", "lock"}
        /\ tx'[s].pc \in {"insert", "lock", "holding"}
        /\ tx'[s].op = tx[s].op /\ tx'[s].lines = tx[s].lines /\ tx'[s].k = tx[s].k
        /\ draft'[s] = draft[s]
    BY <1>0, <1>3 DEF MovesOn, Transaction
  <2>2. /\ Done(tx'[s]) = Done(tx[s])
        /\ tx[s].pc \in StockPc /\ tx'[s].pc \in StockPc
    BY <2>1 DEF Done, StockPc
  <2> QED
    BY <1>0, <2>1, <2>2 DEF LinesPosted
<1>4. CASE Post(s)
  BY <1>0, <1>4, PostLine
<1>5. CASE Ends(s)
  BY <1>5 DEF Ends, Idle, NoDrafts, LinesPosted, StockPc
<1>6. CASE Administers(s)
  BY <1>0, <1>6 DEF Administers, LinesPosted
<1> QED
  BY <1>1, <1>2, <1>3, <1>4, <1>5, <1>6, SessionSteps DEF SessionStep

LEMMA LineInit == Init => LineInv
BY DEF Init, LineInv, LinesPosted, StockPc, Idle, NoDrafts

-----------------------------------------------------------------------------
(* A fulfilment carries the lines of the request it was begun for *)

CarriesLines(s) ==
    LET r == tx[s]
        h == held[s]
    IN  /\ h = None /\ r.pc \in StockPc => r.op # "fulfillment"
        /\ h # None /\ r.pc # "idle" => h.op = "fulfill"
        /\ h # None /\ h.op = "fulfill" =>
             /\ r.pc \in StockPc /\ r.op = "fulfillment"
             /\ Len(r.lines) = Len(h.lines)
             /\ \A j \in 1..Len(h.lines) :
                  /\ r.lines[j].slot[2] = h.lines[j].item
                  /\ r.lines[j].amount = h.lines[j].amount

CarryInv == \A s \in Session : CarriesLines(s)

(* A step changes the transaction of one session.                             *)
LEMMA OwnTransaction ==
    ASSUME TypeInv, NEW s \in Session, NEW o \in Session, o # s,
           \/ BeginStock(s) \/ BeginAdmin(s)
           \/ \E lines : BeginFulfill(s, lines)
           \/ Advance(s) \/ Commit(s) \/ DeadlockVictim(s) \/ TakeLock(s) \/ Crash(s)
    PROVE  tx'[o] = tx[o]
<1>0. tx \in [Session -> Transaction]
  BY DEF TypeInv, TypeOK
<1>1. ASSUME NEW r, Start(s, r) PROVE tx'[o] = tx[o]
  BY <1>0, <1>1 DEF Start
<1>2. CASE BeginStock(s) \/ BeginAdmin(s) \/ \E lines : BeginFulfill(s, lines)
  BY <1>1, <1>2 DEF BeginStock, BeginAdmin, BeginFulfill, BeginReceive, BeginIssue,
     BeginAdjust, BeginCreateShelf, BeginRetireShelf, BeginRetireWarehouse,
     BeginRetireItem
<1>3. CASE TakeLock(s)
  BY <1>0, <1>3 DEF TakeLock, LockRow, LookupHit, InsertRow, Acquire
<1>4. CASE Rollback(s)
  BY <1>0, <1>4 DEF Rollback
<1>5. CASE Advance(s)
  BY <1>0, <1>4, <1>5 DEF Advance, FulfillLine, RefuseLine, LookupMiss, InsertConflict,
     Refuse, Post, CommitCreateShelf, DuplicateShelf, CollectAlerts, CommitRetirement
<1>6. CASE Commit(s)
  BY <1>0, <1>6 DEF Commit
<1>7. CASE DeadlockVictim(s) \/ Crash(s)
  BY <1>4, <1>7 DEF DeadlockVictim, Crash
<1> QED
  BY <1>2, <1>3, <1>5, <1>6, <1>7

LEMMA OtherCarries ==
    ASSUME NEW o \in Session, CarriesLines(o), tx'[o] = tx[o], held'[o] = held[o]
    PROVE  CarriesLines(o)'
BY DEF CarriesLines

(* The steps of a transaction under way, the commit of a fulfilment excepted. *)
LEMMA KeepCarries ==
    ASSUME TypeInv, RowsType, NEW s \in Session, CarriesLines(s),
           \/ Advance(s) \/ DeadlockVictim(s) \/ TakeLock(s) \/ Crash(s)
           \/ held[s] = None /\ Commit(s),
           [Next]_vars, KeepRequest(s)
    PROVE  CarriesLines(s)'
<1>0. /\ tx \in [Session -> Transaction] /\ tx[s] \in Transaction
      /\ held \in [Session -> Held \cup {None}]
  BY DEF TypeInv, TypeOK, RowsType
<1>1. tx[s].pc # "idle"
  BY DEF Advance, FulfillLine, RefuseLine, LookupMiss, InsertConflict,
     Refuse, Post, CommitCreateShelf, DuplicateShelf, CollectAlerts, CommitRetirement,
     DeadlockVictim, WaitCycle, Waiting, TakeLock, LockRow, LookupHit, InsertRow,
     Crash, Commit
<1>2. held'[s] = IF tx'[s].pc = "idle" THEN None ELSE held[s]
  BY <1>0 DEF KeepRequest
<1>3. CASE tx'[s] = tx[s]
  BY <1>1, <1>2, <1>3, OtherCarries
<1>4. CASE BeginsStock(s)
  BY <1>1, <1>4 DEF BeginsStock
<1>5. ASSUME tx'[s].op = tx[s].op, tx'[s].lines = tx[s].lines,
             tx[s].pc \in StockPc, tx'[s].pc \in StockPc
      PROVE  CarriesLines(s)'
  <2>1. held'[s] = held[s]
    BY <1>2, <1>5 DEF StockPc
  <2>2. tx[s].pc # "idle"
    BY <1>1
  <2> QED
    BY <1>5, <2>1, <2>2 DEF CarriesLines
<1>6. CASE MovesOn(s)
  BY <1>0, <1>5, <1>6 DEF MovesOn, StockPc, Transaction
<1>7. CASE Post(s)
  <2>1. tx[s].pc = "holding" /\ tx'[s] = AfterLine(tx[s])
    BY <1>0, <1>7 DEF Post
  <2>2. /\ tx'[s].op = tx[s].op /\ tx'[s].lines = tx[s].lines
        /\ tx'[s].pc \in {"line", "posted"}
    BY <1>0, <2>1 DEF AfterLine, Transaction
  <2> QED
    BY <1>5, <2>1, <2>2 DEF StockPc
<1>8. CASE Ends(s)
  BY <1>2, <1>8 DEF Ends, Idle, CarriesLines, StockPc
<1>9. CASE Administers(s)
  <2>1. held[s] = None
    BY <1>1, <1>9 DEF Administers, CarriesLines
  <2> QED
    BY <1>2, <1>9, <2>1 DEF Administers, CarriesLines
<1> QED
  BY <1>3, <1>4, <1>6, <1>7, <1>8, <1>9, SessionSteps DEF SessionStep

LEMMA BeginFulfillCarries ==
    ASSUME TypeInv, RowsType, NEW s \in Session, NEW r \in RequestId,
           request[r] # None, NEW shelves \in [DOMAIN request[r].lines -> Shelf],
           BeginFulfillRequest(s, r, shelves)
    PROVE  CarriesLines(s)'
<1> DEFINE ls == request[r].lines
           p == Picks(ls, shelves)
<1>1. ls \in Orders
  BY RowType
<1>2. /\ Len(ls) \in 1..MaxLines /\ ls \in Seq(Order)
      /\ p \in [1..Len(ls) -> [slot: Slot, amount: 1..MaxQuantity]]
  BY <1>1, PicksType, RequestConstants
<1>3. /\ tx'[s] = StockRequest("fulfillment", "line", p)
      /\ held' = [held EXCEPT ![s] = [op |-> "fulfill", r |-> r,
                                      version |-> request[r].version, lines |-> ls]]
  BY DEF BeginFulfillRequest, BeginFulfill, Start, Hold, TypeInv, TypeOK
<1>4. /\ held'[s] = [op |-> "fulfill", r |-> r,
                     version |-> request[r].version, lines |-> ls]
      /\ held'[s] \in Held
  BY <1>1, <1>3, RowType DEF RowsType, Held
<1>5. Len(ls) \in Nat /\ DOMAIN ls = 1..Len(ls)
  BY <1>2, LenProperties
<1>6. \A j \in 1..Len(ls) : p[j].slot[2] = ls[j].item /\ p[j].amount = ls[j].amount
  BY <1>5 DEF Picks
<1> HIDE DEF p, ls
<1>7. Len(p) = Len(ls)
  BY <1>2, <1>5
<1>8. /\ tx'[s].pc = "line" /\ tx'[s].op = "fulfillment" /\ tx'[s].lines = p
  BY <1>3 DEF StockRequest
<1>9. held'[s] # None /\ held'[s].op = "fulfill" /\ held'[s].lines = ls
  BY <1>4, NoneIsNoRow
<1> QED
  BY <1>6, <1>7, <1>8, <1>9 DEF CarriesLines, StockPc

LEMMA CarryStep ==
    LockInv /\ RowsType /\ CarryInv /\ [RequestNext]_allVars => CarryInv'
<1> SUFFICES ASSUME LockInv, RowsType, CarryInv, [RequestNext]_allVars
             PROVE  CarryInv'
  OBVIOUS
<1> USE DEF LockInv
<1>0. /\ [Next]_vars /\ \A o \in Session : CarriesLines(o)
      /\ held \in [Session -> Held \cup {None}]
      /\ tx \in [Session -> Transaction]
  BY LedgerBelow DEF CarryInv, RowsType, TypeInv, TypeOK
<1>1. ASSUME NEW s \in Session, CarriesLines(s)',
             \A o \in Session : o # s => tx'[o] = tx[o] /\ held'[o] = held[o]
      PROVE  CarryInv'
  BY <1>0, <1>1, OtherCarries DEF CarryInv
<1>2. ASSUME NEW s \in Session, BeginRequest(s) PROVE CarryInv'
  <2>1. ASSUME NEW r \in RequestId, request[r] # None,
               NEW shelves \in [DOMAIN request[r].lines -> Shelf],
               BeginFulfillRequest(s, r, shelves)
        PROVE  CarryInv'
    <3>1. CarriesLines(s)'
      BY <2>1, BeginFulfillCarries
    <3>2. \A o \in Session : o # s => tx'[o] = tx[o]
      BY <2>1, OwnTransaction DEF BeginFulfillRequest
    <3>3. \A o \in Session : o # s => held'[o] = held[o]
      BY <1>0, <2>1 DEF BeginFulfillRequest, Hold
    <3> QED
      BY <1>1, <3>1, <3>2, <3>3
  <2>2. ASSUME NEW r, NEW op \in {"create", "approve", "reject"}, NEW version, NEW lines,
               Hold(s, op, r, version, lines), Free(s), UNCHANGED vars
        PROVE  CarryInv'
    <3>1. \A o \in Session : tx'[o] = tx[o] /\ (o # s => held'[o] = held[o])
      BY <1>0, <2>2 DEF Hold, vars
    <3>2. tx'[s].pc = "idle" /\ held'[s].op = op
      BY <1>0, <2>2 DEF Hold, Free, vars
    <3>3. CarriesLines(s)'
      BY <3>2 DEF CarriesLines, StockPc
    <3> QED
      BY <1>1, <3>1, <3>3
  <2> QED
    BY <1>2, <2>1, <2>2 DEF BeginRequest, BeginCreate, BeginDecide
<1>3. ASSUME NEW s \in Session, BeginOther(s) PROVE CarryInv'
  <2>1. held[s] = None /\ held' = held
    BY <1>3 DEF BeginOther, requestVars
  <2>2. ASSUME NEW r, Start(s, r), r.op # "fulfillment" PROVE CarriesLines(s)'
    BY <1>0, <2>1, <2>2 DEF Start, CarriesLines
  <2>3. CarriesLines(s)'
    BY <1>3, <2>2 DEF BeginOther, BeginStock, BeginAdmin, BeginReceive, BeginIssue,
       BeginAdjust, BeginCreateShelf, BeginRetireShelf, BeginRetireWarehouse,
       BeginRetireItem, StockRequest, AdminRequest
  <2>4. \A o \in Session : o # s => tx'[o] = tx[o]
    BY <1>3, OwnTransaction DEF BeginOther
  <2> QED
    BY <1>1, <2>1, <2>3, <2>4
<1>4. ASSUME NEW s \in Session, KeepRequest(s),
             \/ Advance(s) \/ DeadlockVictim(s) \/ TakeLock(s) \/ Crash(s)
             \/ held[s] = None /\ Commit(s)
      PROVE  CarryInv'
  <2>1. CarriesLines(s)'
    BY <1>0, <1>4, KeepCarries
  <2>2. \A o \in Session : o # s => tx'[o] = tx[o]
    BY <1>4, OwnTransaction
  <2>3. \A o \in Session : o # s => held'[o] = held[o]
    BY <1>0, <1>4 DEF KeepRequest
  <2> QED
    BY <1>1, <2>1, <2>2, <2>3
<1>5. ASSUME NEW s \in Session, CommitFulfill(s) PROVE CarryInv'
  <2>1. tx'[s] = Idle /\ held'[s] = None
    BY <1>0, <1>5 DEF CommitFulfill, Commit, WriteRequest
  <2>2. CarriesLines(s)'
    BY <2>1 DEF CarriesLines, Idle, StockPc
  <2>3. \A o \in Session : o # s => tx'[o] = tx[o] /\ held'[o] = held[o]
    BY <1>0, <1>5 DEF CommitFulfill, Commit, WriteRequest
  <2> QED
    BY <1>1, <2>2, <2>3
<1>6. ASSUME NEW s \in Session, CommitRequest(s) \/ Abandon(s) PROVE CarryInv'
  <2>1. /\ held[s] # None /\ held[s].op # "fulfill"
        /\ held' = [held EXCEPT ![s] = None] /\ tx' = tx
    BY <1>6 DEF CommitRequest, Abandon, WriteRequest, vars
  <2>2. tx[s].pc = "idle"
    BY <1>0, <2>1 DEF CarriesLines
  <2>3. CarriesLines(s)'
    BY <1>0, <2>1, <2>2 DEF CarriesLines, StockPc
  <2> QED
    BY <1>0, <1>1, <2>1, <2>3
<1>7. CASE \E i \in Item, m \in Threshold :
             UpdateMinQuantity(i, m) /\ UNCHANGED requestVars
  BY <1>0, <1>7, OtherCarries DEF UpdateMinQuantity, requestVars, CarryInv
<1>8. CASE UNCHANGED allVars
  BY <1>0, <1>8, OtherCarries DEF allVars, vars, requestVars, CarryInv
<1> QED
  BY <1>2, <1>3, <1>4, <1>5, <1>6, <1>7, <1>8
     DEF RequestNext, LockStock, CrashStock, Finish, AdvanceStock, VictimOfDeadlock

LEMMA CarryInit == RequestInit => CarryInv
BY DEF RequestInit, Init, CarryInv, CarriesLines, StockPc, Idle

-----------------------------------------------------------------------------
(* Fulfilments are whole *)

(* Without a commit of stock, and without a fulfilment's entry in a trail,    *)
(* nothing was taken.                                                         *)
LEMMA NothingServed ==
    ASSUME RowsType,
           \/ trail' = trail
           \/ \E r \in RequestId, op \in {"create", "approve", "reject"} :
                trail' = [trail EXCEPT ![r] = Append(trail[r], op)]
    PROVE  Served = {}
<1> SUFFICES ASSUME NEW r \in RequestId, trail'[r] = Append(trail[r], "fulfill")
             PROVE  FALSE
  BY DEF Served
<1>1. /\ trail[r] \in Seq({"create", "approve", "reject", "fulfill"})
      /\ Len(trail[r]) \in Nat
  BY DEF RowsType
<1>2. /\ Len(trail'[r]) = Len(trail[r]) + 1
      /\ trail'[r][Len(trail[r]) + 1] = "fulfill"
  BY <1>1, AppendProperties
<1>3. trail'[r] # trail[r]
  BY <1>1, <1>2
<1>4. PICK q \in RequestId, op \in {"create", "approve", "reject"} :
        trail' = [trail EXCEPT ![q] = Append(trail[q], op)]
  BY <1>3
<1>5. trail'[r] = Append(trail[r], op)
  BY <1>3, <1>4 DEF RowsType
<1> QED
  BY <1>1, <1>2, <1>5, AppendProperties

LEMMA NothingTaken ==
    ASSUME LockInv, LineInv,
           \/ UNCHANGED movements
           \/ \E s \in Session : Commit(s) /\ tx[s].op # "fulfillment"
    PROVE  Taken = {}
<1> SUFFICES ASSUME NEW x \in Slot, movements'[x] # movements[x],
                    movements'[x][Len(movements'[x])].type = "fulfillment"
             PROVE  FALSE
  BY DEF Taken
<1>1. PICK s \in Session : Commit(s) /\ tx[s].op # "fulfillment"
  OBVIOUS
<1>2. /\ x \in Posted(s)
      /\ movements'[x] = Append(movements[x], [type |-> draft[s][x].type,
                                               delta |-> draft[s][x].delta,
                                               resulting |-> draft[s][x].resulting])
  BY <1>1, CommitSlot
<1>3. draft[s][x].type = tx[s].op
  BY <1>1, <1>2 DEF Commit, Posted, LineInv, LinesPosted, StockPc
<1>4. movements[x] \in Seq(Movement)
  BY DEF LockInv, TypeInv, TypeOK
<1> DEFINE e == [type |-> draft[s][x].type, delta |-> draft[s][x].delta,
                 resulting |-> draft[s][x].resulting]
<1>5. e.type = tx[s].op
  BY <1>3
<1> HIDE DEF e
<1>6. movements'[x] = Append(movements[x], e)
  BY <1>2 DEF e
<1>7. movements'[x][Len(movements'[x])] = e
  BY <1>4, <1>6, AppendProperties
<1> QED
  BY <1>1, <1>5, <1>7

(* The slots of a fulfilment, one for each of its lines.                      *)
LEMMA OneSlotEach ==
    ASSUME NEW lines \in Seq(Line), DistinctItems(lines)
    PROVE  Cardinality({lines[j].slot : j \in 1..Len(lines)}) = Len(lines)
<1> DEFINE S == {lines[j].slot : j \in 1..Len(lines)}
           f == [j \in 1..Len(lines) |-> lines[j].slot]
<1>1. Len(lines) \in Nat /\ DOMAIN lines = 1..Len(lines)
  OBVIOUS
<1>2. f \in Bijection(1..Len(lines), S)
  <2>1. f \in [1..Len(lines) -> S]
    OBVIOUS
  <2>2. \A i, j \in 1..Len(lines) : f[i] = f[j] => i = j
    BY <1>1 DEF DistinctItems
  <2>3. \A x \in S : \E j \in 1..Len(lines) : f[j] = x
    OBVIOUS
  <2> HIDE DEF f, S
  <2> QED
    BY <2>1, <2>2, <2>3, Fun_IsBij
<1> HIDE DEF f
<1>3. ExistsBijection(1..Len(lines), S)
  BY <1>2 DEF ExistsBijection
<1> QED
  BY <1>1, <1>3, FS_CountingElements

(* What a commit of a fulfilment takes from each of its slots.                *)
LEMMA CommitTakes ==
    ASSUME LockInv, LineInv, NEW s \in Session, Commit(s), tx[s].op = "fulfillment"
    PROVE  /\ Taken = {tx[s].lines[j].slot : j \in 1..Len(tx[s].lines)}
           /\ \A j \in 1..Len(tx[s].lines) :
                quantity'[tx[s].lines[j].slot]
                  = quantity[tx[s].lines[j].slot] - tx[s].lines[j].amount
           /\ tx[s].lines \in Seq(Line) /\ DistinctItems(tx[s].lines)
<1> DEFINE ls == tx[s].lines
<1>1. tx[s].pc = "posted" /\ tx[s].pc \in StockPc
  BY DEF Commit, StockPc
<1>2. ls \in Seq(Line) /\ Len(ls) \in Nat
  BY <1>1 DEF LockInv, TypeInv, TypeOK, Transaction
<1>3. Done(tx[s]) = Len(ls)
  BY <1>1 DEF Done
<1>4. \A j \in 1..Len(ls) : ls[j].slot \in Slot /\ ls[j].amount \in Nat
  <2>1. \A j \in 1..Len(ls) : ls[j] \in Line
    BY <1>2
  <2> QED
    BY <2>1 DEF Line
<1>5. /\ DistinctItems(ls)
      /\ \A j \in 1..Len(ls) : /\ draft[s][ls[j].slot] # None
                               /\ draft[s][ls[j].slot].delta = - ls[j].amount
  BY <1>1, <1>3 DEF LineInv, LinesPosted
<1>6. \A x \in Slot : draft[s][x] # None =>
        /\ draft[s][x].type = "fulfillment"
        /\ \E j \in 1..Len(ls) : ls[j].slot = x
  BY <1>1, <1>3 DEF LineInv, LinesPosted
<1> HIDE DEF ls
<1>7. Posted(s) = {ls[j].slot : j \in 1..Len(ls)}
  BY <1>4, <1>5, <1>6 DEF Posted
<1>8. \A x \in Posted(s) : x \in Taken
  <2> TAKE x \in Posted(s)
  <2>0. x \in Slot
    BY DEF Posted
  <2> DEFINE e == [type |-> draft[s][x].type, delta |-> draft[s][x].delta,
                   resulting |-> draft[s][x].resulting]
  <2>1. e.type = "fulfillment"
    BY <1>6, <2>0 DEF Posted
  <2>2. movements'[x] = Append(movements[x], e)
    BY <2>0, CommitSlot
  <2> HIDE DEF e
  <2>3. movements[x] \in Seq(Movement) /\ Len(movements[x]) \in Nat
    BY <2>0 DEF LockInv, TypeInv, TypeOK
  <2>4. /\ Len(movements'[x]) = Len(movements[x]) + 1
        /\ movements'[x][Len(movements'[x])] = e
    BY <2>2, <2>3, AppendProperties
  <2>5. movements'[x] # movements[x]
    BY <2>3, <2>4
  <2> QED
    BY <2>0, <2>1, <2>4, <2>5 DEF Taken
<1>9. \A x \in Taken : x \in Posted(s)
  BY CommitSlot DEF Taken
<1>10. \A j \in 1..Len(ls) : quantity'[ls[j].slot] = quantity[ls[j].slot] - ls[j].amount
  <2> TAKE j \in 1..Len(ls)
  <2> DEFINE x == ls[j].slot
  <2>1. x \in Slot /\ x \in Posted(s) /\ ls[j].amount \in Nat
    BY <1>4, <1>7
  <2>2. /\ quantity'[x] = draft[s][x].resulting
        /\ draft[s][x].resulting = quantity[x] + draft[s][x].delta
    BY <2>1, CommitSlot
  <2>3. draft[s][x].delta = - ls[j].amount
    BY <1>5
  <2>4. quantity[x] \in Int
    BY <2>1, LedgerConstants DEF LockInv, TypeInv, TypeOK
  <2> HIDE DEF x
  <2>5. quantity'[x] = quantity[x] - ls[j].amount
    BY <2>1, <2>2, <2>3, <2>4
  <2> QED
    BY <2>5 DEF x
<1>11. Taken = {ls[j].slot : j \in 1..Len(ls)}
  BY <1>7, <1>8, <1>9
<1> QED
  BY <1>2, <1>5, <1>10, <1>11 DEF ls

(* The steps that are not a commit leave the movements alone.                 *)
LEMMA StockKept ==
    ASSUME NEW s \in Session,
           \/ BeginStock(s) \/ BeginAdmin(s)
           \/ \E lines : BeginFulfill(s, lines)
           \/ Advance(s) \/ DeadlockVictim(s) \/ TakeLock(s) \/ Crash(s)
    PROVE  UNCHANGED movements
<1>1. CASE BeginStock(s) \/ BeginAdmin(s) \/ \E lines : BeginFulfill(s, lines)
  BY <1>1 DEF BeginStock, BeginAdmin, BeginFulfill, BeginReceive, BeginIssue,
     BeginAdjust, BeginCreateShelf, BeginRetireShelf, BeginRetireWarehouse,
     BeginRetireItem, Start, stockVars
<1>2. CASE Advance(s)
  BY <1>2 DEF Advance, FulfillLine, RefuseLine, LookupMiss, InsertConflict, Refuse, Post,
     CommitCreateShelf, DuplicateShelf, CollectAlerts, CommitRetirement, Rollback,
     stockVars
<1>3. CASE DeadlockVictim(s) \/ TakeLock(s) \/ Crash(s)
  BY <1>3 DEF DeadlockVictim, TakeLock, LockRow, LookupHit, InsertRow, Acquire, Crash,
     Rollback, stockVars
<1> QED
  BY <1>1, <1>2, <1>3

LEMMA WholeStep ==
    ASSUME LockInv, RowsType, LineInv, CarryInv, [RequestNext]_allVars
    PROVE  WholeFulfillment
<1>1. ASSUME UNCHANGED movements, trail' = trail PROVE WholeFulfillment
  BY <1>1, NothingServed, NothingTaken DEF WholeFulfillment
<1>2. ASSUME NEW s \in Session, CommitFulfill(s) PROVE WholeFulfillment
  <2> DEFINE h == held[s]
             ls == tx[s].lines
  <2>1. /\ Commit(s) /\ WriteRequest(s) /\ h # None /\ tx[s].pc = "posted"
    BY <1>2 DEF CommitFulfill, Commit
  <2>2. /\ h.op = "fulfill" /\ tx[s].op = "fulfillment"
        /\ Len(ls) = Len(h.lines)
        /\ \A j \in 1..Len(h.lines) : /\ ls[j].slot[2] = h.lines[j].item
                                      /\ ls[j].amount = h.lines[j].amount
    BY <2>1 DEF CarryInv, CarriesLines, StockPc
  <2>3. h.r \in RequestId /\ h.lines \in Orders
    BY <2>1, HeldType
  <2>4. DOMAIN h.lines = 1..Len(h.lines)
    <3>1. h.lines \in Seq(Order)
      BY <2>3, RequestConstants
    <3> QED
      BY <3>1, LenProperties
  <2>5. /\ request'[h.r].lines = h.lines
        /\ trail'[h.r] = Append(trail[h.r], "fulfill")
        /\ \A r \in RequestId : r # h.r => trail'[r] = trail[r]
    BY <2>1, <2>2, <2>3 DEF WriteRequest, RowsType
  <2>6. Served = {h.r}
    <3>1. ASSUME NEW r \in RequestId PROVE trail[r] # Append(trail[r], "fulfill")
      <4>1. trail[r] \in Seq({"create", "approve", "reject", "fulfill"})
        BY DEF RowsType
      <4> QED
        BY <4>1, AppendProperties
    <3> QED
      BY <2>3, <2>5, <3>1 DEF Served
  <2>7. /\ Taken = {ls[j].slot : j \in 1..Len(ls)}
        /\ \A j \in 1..Len(ls) :
             quantity'[ls[j].slot] = quantity[ls[j].slot] - ls[j].amount
        /\ ls \in Seq(Line) /\ DistinctItems(ls)
    BY <2>1, <2>2, CommitTakes
  <2> HIDE DEF h, ls
  <2>8. Cardinality(Taken) = Len(request'[h.r].lines)
    BY <2>2, <2>5, <2>7, OneSlotEach
  <2>9. \A j \in DOMAIN request'[h.r].lines :
          \E x \in Taken :
             /\ x[2] = request'[h.r].lines[j].item
             /\ quantity'[x] = quantity[x] - request'[h.r].lines[j].amount
    <3> SUFFICES ASSUME NEW j \in 1..Len(h.lines)
                 PROVE  \E x \in Taken :
                          /\ x[2] = h.lines[j].item
                          /\ quantity'[x] = quantity[x] - h.lines[j].amount
      BY <2>4, <2>5
    <3>1. ls[j].slot \in Taken
      BY <2>2, <2>7
    <3>2. /\ ls[j].slot[2] = h.lines[j].item
          /\ quantity'[ls[j].slot] = quantity[ls[j].slot] - h.lines[j].amount
      BY <2>2, <2>7
    <3> QED
      BY <3>1, <3>2
  <2> QED
    BY <2>6, <2>8, <2>9 DEF WholeFulfillment
<1>3. ASSUME NEW s \in Session, held[s] = None, Commit(s), KeepRequest(s)
      PROVE  WholeFulfillment
  <2>1. tx[s].op # "fulfillment"
    BY <1>3 DEF CarryInv, CarriesLines, StockPc, Commit
  <2> QED
    BY <1>3, <2>1, NothingServed, NothingTaken DEF WholeFulfillment, KeepRequest
<1>4. ASSUME NEW s \in Session, CommitRequest(s) PROVE WholeFulfillment
  <2>1. /\ UNCHANGED movements /\ held[s] # None /\ held[s].op # "fulfill"
        /\ trail' = [trail EXCEPT ![held[s].r] = Append(trail[held[s].r], held[s].op)]
    BY <1>4 DEF CommitRequest, WriteRequest, vars
  <2>2. held[s].op \in {"create", "approve", "reject"} /\ held[s].r \in RequestId
    BY <2>1, HeldType
  <2> QED
    BY <2>1, <2>2, NothingServed, NothingTaken DEF WholeFulfillment
<1>5. ASSUME NEW s \in Session, BeginRequest(s) \/ BeginOther(s) \/ Abandon(s)
      PROVE  WholeFulfillment
  <2>1. UNCHANGED movements
    BY <1>5, StockKept DEF BeginRequest, BeginCreate, BeginDecide, BeginFulfillRequest,
       BeginOther, Abandon, vars
  <2>2. trail' = trail
    BY <1>5 DEF BeginRequest, BeginCreate, BeginDecide, BeginFulfillRequest,
       BeginOther, Abandon, requestVars
  <2> QED
    BY <1>1, <2>1, <2>2
<1>6. ASSUME NEW s \in Session, KeepRequest(s),
             Advance(s) \/ DeadlockVictim(s) \/ TakeLock(s) \/ Crash(s)
      PROVE  WholeFulfillment
  BY <1>1, <1>6, StockKept DEF KeepRequest
<1>7. ASSUME NEW s \in Session, Finish(s) PROVE WholeFulfillment
  BY <1>2, <1>3, <1>4, <1>6, <1>7 DEF Finish, AdvanceStock, VictimOfDeadlock
<1>8. ASSUME NEW s \in Session, LockStock(s) \/ CrashStock(s) PROVE WholeFulfillment
  BY <1>6, <1>8 DEF LockStock, CrashStock
<1>9. CASE \E i \in Item, m \in Threshold :
             UpdateMinQuantity(i, m) /\ UNCHANGED requestVars
  BY <1>1, <1>9 DEF UpdateMinQuantity, stockVars, requestVars
<1>10. CASE UNCHANGED allVars
  BY <1>1, <1>10 DEF allVars, vars, requestVars
<1> QED
  BY <1>5, <1>7, <1>8, <1>9, <1>10 DEF RequestNext

(* However the lines of a fulfilment interleave with other requests, a request*)
(* is served whole or not at all, and nothing else is booked as a fulfilment. *)
THEOREM FulfillmentsAreWhole == RequestSpec => FulfillmentIsWhole
<1> DEFINE Inv == LockInv /\ RowsType /\ LineInv /\ CarryInv
<1>1. RequestInit => Inv
  BY LockInit, RowsInit, LineInit, CarryInit DEF RequestInit
<1>2. Inv /\ [RequestNext]_allVars => Inv'
  BY LedgerBelow, LockStep, RowsStep, LineStep, CarryStep
<1>3. Inv /\ [RequestNext]_allVars => [WholeFulfillment]_allVars
  BY WholeStep
<1> HIDE DEF Inv
<1> QED
  BY <1>1, <1>2, <1>3, PTL DEF RequestSpec, FulfillmentIsWhole

-----------------------------------------------------------------------------
(* The documented life cycle, when requests do not overlap *)

OnlyOneSession == \A s, t \in Session : s = t

(* What the session has read of a request is then still true when it writes.  *)
HeldIsFresh ==
    \A s \in Session : held[s] # None =>
        IF held[s].op = "create"
        THEN request[held[s].r] = None
        ELSE /\ request[held[s].r] # None
             /\ request[held[s].r].status = IF held[s].op = "fulfill" THEN "approved"
                                                                      ELSE "pending"

LEMMA FreshStep ==
    OnlyOneSession /\ RowsType /\ HeldIsFresh /\ [RequestNext]_allVars => HeldIsFresh'
<1> SUFFICES ASSUME OnlyOneSession, RowsType, HeldIsFresh, [RequestNext]_allVars,
                    NEW s \in Session, held'[s] # None
             PROVE  IF held'[s].op = "create"
                    THEN request'[held'[s].r] = None
                    ELSE /\ request'[held'[s].r] # None
                         /\ request'[held'[s].r].status =
                              IF held'[s].op = "fulfill" THEN "approved" ELSE "pending"
  BY DEF HeldIsFresh
<1>0. held \in [Session -> Held \cup {None}] /\ \A o \in Session : o = s
  BY DEF RowsType, OnlyOneSession
<1>1. CASE UNCHANGED requestVars
  BY <1>1 DEF requestVars, HeldIsFresh
<1>2. CASE Begins(s)
  <2>1. PICK r \in RequestId :
          \/ \E lines \in Orders : BeginCreate(s, r, lines)
          \/ \E op \in {"approve", "reject"} : BeginDecide(s, r, op)
          \/ /\ request[r] # None
             /\ \E shelves \in [DOMAIN request[r].lines -> Shelf] :
                   BeginFulfillRequest(s, r, shelves)
    BY <1>2 DEF Begins
  <2>2. CASE \E lines \in Orders : BeginCreate(s, r, lines)
    BY <1>0, <2>2 DEF BeginCreate, Hold
  <2>3. CASE \E op \in {"approve", "reject"} : BeginDecide(s, r, op)
    BY <1>0, <2>3 DEF BeginDecide, Hold
  <2>4. CASE /\ request[r] # None
             /\ \E shelves \in [DOMAIN request[r].lines -> Shelf] :
                   BeginFulfillRequest(s, r, shelves)
    BY <1>0, <2>4 DEF BeginFulfillRequest, Hold
  <2> QED
    BY <2>1, <2>2, <2>3, <2>4
<1>3. CASE Forgets(s)
  BY <1>0, <1>3 DEF Forgets, HeldIsFresh
<1>4. CASE held[s] # None /\ WriteRequest(s)
  BY <1>0, <1>4 DEF WriteRequest
<1> QED
  BY <1>0, <1>1, <1>2, <1>3, <1>4, RequestSteps

LEMMA ServedCount ==
    ASSUME RowsType, NEW r \in RequestId,
           NEW op \in {"create", "approve", "reject", "fulfill"},
           trail'[r] = Append(trail[r], op)
    PROVE  Cardinality(Entries(r, {"fulfill"})') =
             IF op = "fulfill" THEN Cardinality(Entries(r, {"fulfill"})) + 1
                               ELSE Cardinality(Entries(r, {"fulfill"}))
<1> DEFINE E == Entries(r, {"fulfill"})
           n == Len(trail[r])
<1>1. /\ n + 1 \in Nat /\ \A k \in E : k < n + 1
      /\ Entries(r, {"fulfill"})' = E \cup IF op \in {"fulfill"} THEN {n + 1} ELSE {}
  BY TrailAppend
<1>2. trail[r] \in Seq({"create", "approve", "reject", "fulfill"})
  BY DEF RowsType
<1>3. n \in Nat /\ DOMAIN trail[r] = 1..n
  BY <1>2, LenProperties
<1>4. E \subseteq 1..n
  BY <1>3 DEF Entries
<1> HIDE DEF E, n
<1>5. IsFiniteSet(1..n)
  BY <1>3, FS_Interval
<1>6. IsFiniteSet(E)
  BY <1>4, <1>5, FS_Subset
<1>7. n + 1 \notin E
  BY <1>3, <1>4
<1>8. Cardinality(E \cup {n + 1}) = Cardinality(E) + 1
  BY <1>6, <1>7, FS_AddElement
<1>9. CASE op = "fulfill"
  <2>1. Entries(r, {"fulfill"})' = E \cup {n + 1}
    BY <1>1, <1>9
  <2> QED
    BY <1>8, <1>9, <2>1 DEF E
<1>10. CASE op # "fulfill"
  <2>1. Entries(r, {"fulfill"})' = E
    BY <1>1, <1>10
  <2> QED
    BY <1>10, <2>1 DEF E
<1> QED
  BY <1>9, <1>10

LEMMA FlowStep ==
    ASSUME RowsType, HeldIsFresh, OnlyOneSession, [RequestNext]_allVars
    PROVE  [Flow!Next]_(Flow!vars)
<1>1. CASE UNCHANGED <<request, trail>>
  BY <1>1 DEF Flow!vars, Entries
<1>2. ASSUME NEW s \in Session, held[s] # None, WriteRequest(s)
      PROVE  Flow!Next
  <2> DEFINE h == held[s]
             q == h.r
             from == CASE h.op = "create"  -> "none"
                       [] h.op = "fulfill" -> "approved"
                       [] OTHER            -> "pending"
             row == [status |-> Outcome(h.op), version |-> h.version + 1,
                     lines |-> h.lines]
             st == [r \in RequestId |-> IF request[r] = None
                                        THEN "none" ELSE request[r].status]
             st2 == [r \in RequestId |-> IF request'[r] = None
                                         THEN "none" ELSE request'[r].status]
             sv == [r \in RequestId |-> Cardinality(Entries(r, {"fulfill"}))]
             sv2 == [r \in RequestId |-> Cardinality(Entries(r, {"fulfill"})')]
  <2>1. /\ h.op \in {"create", "approve", "reject", "fulfill"}
        /\ q \in RequestId /\ h.version \in Nat /\ h.lines \in Orders
    BY <1>2, HeldType
  <2>2. row \in Row /\ row # None /\ row.status = Outcome(h.op)
    BY <2>1, OutcomeType, NoneIsNoRow DEF Row
  <2>3. st[q] = from
    BY <1>2, <2>1 DEF HeldIsFresh
  <2> HIDE DEF row, from
  <2>4. /\ \A r \in RequestId : request'[r] = IF r = q THEN row ELSE request[r]
        /\ \A r \in RequestId : r # q => trail'[r] = trail[r]
        /\ trail'[q] = Append(trail[q], h.op)
    BY <1>2, <2>1 DEF WriteRequest, RowsType, row
  <2>5. st2 = [st EXCEPT ![q] = Outcome(h.op)]
    BY <2>1, <2>2, <2>4
  <2>6. \A r \in RequestId : r # q => sv2[r] = sv[r]
    BY <2>4 DEF Entries
  <2>7. sv2[q] = IF h.op = "fulfill" THEN sv[q] + 1 ELSE sv[q]
    BY <2>1, <2>4, ServedCount
  <2>8. sv2 = IF h.op = "fulfill" THEN [sv EXCEPT ![q] = sv[q] + 1] ELSE sv
    BY <2>1, <2>6, <2>7
  <2> HIDE DEF h, q, st2, sv2
  <2>9. \/ h.op = "create" /\ Flow!Create(q)
        \/ h.op = "approve" /\ Flow!Approve(q)
        \/ h.op = "reject" /\ Flow!Reject(q)
        \/ h.op = "fulfill" /\ Flow!Fulfill(q)
    <3>1. /\ h.op = "create" => Outcome(h.op) = "pending" /\ from = "none"
          /\ h.op = "approve" => Outcome(h.op) = "approved" /\ from = "pending"
          /\ h.op = "reject" => Outcome(h.op) = "rejected" /\ from = "pending"
          /\ h.op = "fulfill" => Outcome(h.op) = "fulfilled" /\ from = "approved"
      BY DEF Outcome, from
    <3> QED
      BY <2>1, <2>3, <2>5, <2>8, <3>1
         DEF Flow!Create, Flow!Approve, Flow!Reject, Flow!Fulfill, Flow!Turn, st2, sv2
  <2> QED
    BY <2>1, <2>9
       DEF Flow!Next, Flow!Create, Flow!Approve, Flow!Reject, Flow!Fulfill, Flow!Turn
<1> QED
  BY <1>1, <1>2, RequestSteps
     DEF requestVars, Begins, BeginCreate, BeginDecide, BeginFulfillRequest, Forgets,
         RowsType

(* When no two requests overlap, the checks of the handlers are enough: a     *)
(* request is decided once and an approved one is fulfilled once.             *)
THEOREM FlowWhenAlone == OnlyOneSession /\ RequestSpec => ImplementsFlow
<1> DEFINE Inv == RowsType /\ HeldIsFresh
<1>1. RequestInit => Inv
  BY RowsInit DEF RequestInit, HeldIsFresh
<1>2. OnlyOneSession /\ Inv /\ [RequestNext]_allVars => Inv'
  BY RowsStep, FreshStep
<1>3. RequestInit => Flow!Init
  BY FS_EmptySet DEF RequestInit, Flow!Init, Entries
<1>4. OnlyOneSession /\ Inv /\ [RequestNext]_allVars => [Flow!Next]_(Flow!vars)
  BY FlowStep
<1>5. OnlyOneSession => OnlyOneSession'
  OBVIOUS
<1> HIDE DEF Inv, OnlyOneSession
<1> QED
  BY <1>1, <1>2, <1>3, <1>4, <1>5, PTL DEF RequestSpec, ImplementsFlow, Flow!Spec
=============================================================================
