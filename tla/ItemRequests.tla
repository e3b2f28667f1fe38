---------------------------- MODULE ItemRequests ----------------------------
(***************************************************************************)
(* Item requests: composed by a requester, approved or rejected by a       *)
(* manager, fulfilled from stock by a storekeeper.                         *)
(*                                                                         *)
(* The sessions are those of StockLedger, and a fulfilment is one of its   *)
(* transactions: it takes the lines from stock one after the other and     *)
(* writes the request in the same commit.  A request row is read without   *)
(* a lock, its version and status are compared in the program, and the     *)
(* UPDATE that ends the transaction writes literal values, so of two       *)
(* sessions that read the same version both commit, the later one over the *)
(* earlier.  (The UPDATE waits for an earlier writer's commit; it is the   *)
(* last statement of its transaction that can wait, so write and commit    *)
(* are one step here.)  A request whose version or status is not the one   *)
(* the caller needs is refused and changes nothing.                        *)
(***************************************************************************)
EXTENDS StockLedger

CONSTANTS RequestId,
          Orders      (* the lines a requester may ask for                 *)

Order == [item: Item, amount: 1..MaxQuantity]

(* The lines that pass create_request: at least one, no item twice, positive  *)
(* after rounding.                                                            *)
ASSUME RequestConstants ==
    \A lines \in Orders :
        /\ lines \in Seq(Order)
        /\ Len(lines) \in 1..MaxLines
        /\ \A i, j \in DOMAIN lines : i # j => lines[i].item # lines[j].item

VARIABLES
    request,  (* request[r]: the committed row with its lines, or None        *)
    trail,    (* trail[r]: the committed audit actions about r, in order      *)
    held      (* held[s]: what session s has read of a request, or None       *)

requestVars == <<request, trail, held>>
allVars == <<vars, requestVars>>

Status == {"pending", "approved", "rejected", "fulfilled"}
Row == [status: Status, version: Nat, lines: Orders]
Held == [op: {"create", "approve", "reject", "fulfill"}, r: RequestId,
         version: Nat, lines: Orders]

ASSUME NoneIsNoRow == None \notin Row /\ None \notin Held

RequestTypeOK ==
    /\ TypeOK
    /\ request \in [RequestId -> Row \cup {None}]
    /\ trail \in [RequestId -> Seq({"create", "approve", "reject", "fulfill"})]
    /\ held \in [Session -> Held \cup {None}]

RequestInit ==
    /\ Init
    /\ request = [r \in RequestId |-> None]
    /\ trail = [r \in RequestId |-> <<>>]
    /\ held = [s \in Session |-> None]

Free(s) == tx[s].pc = "idle" /\ held[s] = None

-----------------------------------------------------------------------------
(* create_request, and the decisions *)

Hold(s, op, r, version, lines) ==
    held' = [held EXCEPT ![s] = [op |-> op, r |-> r, version |-> version,
                                 lines |-> lines]]

(* The identifier is new: no other session is creating the same row.          *)
BeginCreate(s, r, lines) ==
    /\ Free(s)
    /\ request[r] = None
    /\ \A o \in Session : held[o] # None => held[o].r # r
    /\ \A j \in DOMAIN lines : lines[j].item \in itemLive
    /\ Hold(s, "create", r, 0, lines)
    /\ UNCHANGED <<vars, request, trail>>

(* Variant: the status is not looked at, the version alone guards.            *)
BeginDecideByVersion(s, r, op) ==
    /\ Free(s)
    /\ request[r] # None
    /\ Hold(s, op, r, request[r].version, request[r].lines)
    /\ UNCHANGED <<vars, request, trail>>

(* decide_request up to its checks.                                           *)
BeginDecide(s, r, op) ==
    /\ Free(s)
    /\ request[r] # None
    /\ request[r].status = "pending"
    /\ Hold(s, op, r, request[r].version, request[r].lines)
    /\ UNCHANGED <<vars, request, trail>>

Outcome(op) == CASE op = "create"  -> "pending"
                 [] op = "approve" -> "approved"
                 [] op = "reject"  -> "rejected"
                 [] op = "fulfill" -> "fulfilled"

(* Variant: the new version is computed from the row of the moment.           *)
WriteRequestFresh(s) ==
    LET h == held[s]
        v == IF request[h.r] = None THEN 0 ELSE request[h.r].version
    IN  /\ request' = [request EXCEPT ![h.r] = [status |-> Outcome(h.op),
                                                version |-> v + 1,
                                                lines |-> h.lines]]
        /\ trail' = [trail EXCEPT ![h.r] = Append(trail[h.r], h.op)]
        /\ held' = [held EXCEPT ![s] = None]

(* The row, from what was read, and its audit entry, committed.               *)
WriteRequest(s) ==
    LET h == held[s]
    IN  /\ request' = [request EXCEPT ![h.r] = [status |-> Outcome(h.op),
                                                version |-> h.version + 1,
                                                lines |-> h.lines]]
        /\ trail' = [trail EXCEPT ![h.r] = Append(trail[h.r], h.op)]
        /\ held' = [held EXCEPT ![s] = None]

CommitRequest(s) ==
    /\ held[s] # None
    /\ held[s].op # "fulfill"
    /\ WriteRequest(s)
    /\ UNCHANGED vars

Abandon(s) ==
    /\ held[s] # None
    /\ held[s].op # "fulfill"
    /\ held' = [held EXCEPT ![s] = None]
    /\ UNCHANGED <<vars, request, trail>>

-----------------------------------------------------------------------------
(* fulfill_request *)

(* Variant: the last line of the request is not taken from stock.             *)
PicksShort(lines, shelves) ==
    [j \in 1..(IF Len(lines) > 1 THEN Len(lines) - 1 ELSE 1) |->
        [slot |-> <<shelves[j], lines[j].item>>, amount |-> lines[j].amount]]

(* The storekeeper names a placement for every line, once.  (A placement of   *)
(* another item than the line's is refused before it is touched.)             *)
Picks(lines, shelves) ==
    [j \in DOMAIN lines |-> [slot |-> <<shelves[j], lines[j].item>>,
                             amount |-> lines[j].amount]]

(* Variant: the status is not looked at before stock is taken.                *)
BeginFulfillAnyRequest(s, r, shelves) ==
    /\ Free(s)
    /\ request[r] # None
    /\ BeginFulfill(s, Picks(request[r].lines, shelves))
    /\ Hold(s, "fulfill", r, request[r].version, request[r].lines)
    /\ UNCHANGED <<request, trail>>

(* fulfill_request up to its first line.                                      *)
BeginFulfillRequest(s, r, shelves) ==
    /\ Free(s)
    /\ request[r] # None
    /\ request[r].status = "approved"
    /\ BeginFulfill(s, Picks(request[r].lines, shelves))
    /\ Hold(s, "fulfill", r, request[r].version, request[r].lines)
    /\ UNCHANGED <<request, trail>>

(* All the lines and the request, in one commit.                              *)
CommitFulfill(s) ==
    /\ held[s] # None
    /\ Commit(s)
    /\ WriteRequest(s)

(* Any other step of a stock transaction: when it rolls the transaction back, *)
(* what was read of the request goes with it.                                 *)
KeepRequest(s) ==
    /\ held' = [held EXCEPT ![s] = IF tx'[s].pc = "idle" THEN None ELSE held[s]]
    /\ UNCHANGED <<request, trail>>

AdvanceStock(s) ==
    /\ \/ Advance(s)
       \/ held[s] = None /\ Commit(s)
    /\ KeepRequest(s)

VictimOfDeadlock(s) == DeadlockVictim(s) /\ KeepRequest(s)

LockStock(s) == TakeLock(s) /\ KeepRequest(s)

CrashStock(s) == Crash(s) /\ KeepRequest(s)

-----------------------------------------------------------------------------
BeginRequest(s) ==
    \E r \in RequestId :
        \/ \E lines \in Orders : BeginCreate(s, r, lines)
        \/ \E op \in {"approve", "reject"} : BeginDecide(s, r, op)
        \/ /\ request[r] # None
           /\ \E shelves \in [DOMAIN request[r].lines -> Shelf] :
                 BeginFulfillRequest(s, r, shelves)

BeginOther(s) ==
    /\ held[s] = None
    /\ BeginStock(s) \/ BeginAdmin(s)
    /\ UNCHANGED requestVars

Finish(s) ==
    \/ AdvanceStock(s) \/ VictimOfDeadlock(s)
    \/ CommitFulfill(s) \/ CommitRequest(s)

RequestNext ==
    \/ \E s \in Session : \/ BeginRequest(s) \/ BeginOther(s)
                          \/ LockStock(s) \/ Finish(s)
                          \/ CrashStock(s) \/ Abandon(s)
    \/ \E i \in Item, m \in Threshold :
           UpdateMinQuantity(i, m) /\ UNCHANGED requestVars

RequestSpec == RequestInit /\ [][RequestNext]_allVars

-----------------------------------------------------------------------------
Entries(r, ops) == {k \in DOMAIN trail[r] : trail[r][k] \in ops}

(* A fulfilment takes a request whole or not at all: the commit that marks    *)
(* the request fulfilled adds one movement for each of its lines, of the      *)
(* line's item and amount, and no fulfilment movement is ever added without   *)
(* such a request.  Its lines were locked and posted one by one, among other  *)
(* sessions, refusals and crashes.                                            *)
Taken == {x \in Slot : /\ movements'[x] # movements[x]
                       /\ movements'[x][Len(movements'[x])].type = "fulfillment"}

Served == {r \in RequestId : trail'[r] = Append(trail[r], "fulfill")}

WholeFulfillment ==
    \/ Taken = {} /\ Served = {}
    \/ \E r \in Served :
         /\ Served = {r}
         /\ Cardinality(Taken) = Len(request'[r].lines)
         /\ \A j \in DOMAIN request'[r].lines :
              \E x \in Taken :
                 /\ x[2] = request'[r].lines[j].item
                 /\ quantity'[x] = quantity[x] - request'[r].lines[j].amount

FulfillmentIsWhole == [][WholeFulfillment]_allVars

(* The version a caller echoes says how far the request has come, although    *)
(* concurrent sessions overwrite each other and the version may go back: it   *)
(* is 1 exactly for pending and 3 exactly for fulfilled requests.             *)
VersionTellsStatus ==
    \A r \in RequestId : request[r] # None =>
        /\ request[r].version \in 1..3
        /\ request[r].version = 1 <=> request[r].status = "pending"
        /\ request[r].version = 3 <=> request[r].status = "fulfilled"

(* Stock never leaves for a request nobody approved: every fulfilment of a    *)
(* request comes after an approval of it, whatever the sessions overwrite.    *)
FulfilledAfterApproval ==
    \A r \in RequestId : \A k \in Entries(r, {"fulfill"}) :
        \E j \in Entries(r, {"approve"}) : j < k

(* Liveness: a session that has begun ends, even when fulfilments lock their  *)
(* placements in opposite orders and one has to be the deadlock's victim.     *)
EverySessionEnds == \A s \in Session : ~Free(s) ~> Free(s)

(* What README.md:151 and 005 spec.md:319 say of the decisions: concurrent    *)
(* ones on a request have exactly one winner.  The code does not keep it.     *)
OneDecision ==
    \A r \in RequestId : Cardinality(Entries(r, {"approve", "reject"})) <= 1

(* What 005 spec.md FR-011 says: fulfilment is refused on fulfilled requests,  *)
(* so that a request is fulfilled exactly once.  The code does not keep it    *)
(* when two fulfilments of a request overlap.                                 *)
FulfilledOnce == \A r \in RequestId : Cardinality(Entries(r, {"fulfill"})) <= 1

(* Refinement, when no two sessions overlap: the guards of each handler are   *)
(* then enough for the documented life cycle, one decision and one fulfilment *)
(* each.                                                                      *)
Flow == INSTANCE RequestFlow
            WITH status <- [r \in RequestId |-> IF request[r] = None
                                                THEN "none" ELSE request[r].status],
                 served <- [r \in RequestId |-> Cardinality(Entries(r, {"fulfill"}))]
ImplementsFlow == Flow!Spec
=============================================================================
