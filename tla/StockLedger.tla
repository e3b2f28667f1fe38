----------------------------- MODULE StockLedger -----------------------------
(***************************************************************************)
(* Placements, the movement ledger and the low-stock alerts of the         *)
(* warehouse module, at the level of its database transactions.            *)
(*                                                                         *)
(* A session is one request: it runs one service function in one READ      *)
(* COMMITTED transaction.  What it reads without a lock it keeps (min, the *)
(* liveness checks), what it writes is invisible until it commits, and a   *)
(* row it has locked with SELECT ... FOR UPDATE (or has inserted) stays    *)
(* locked until the transaction ends.  A refusal, an unhandled error, a    *)
(* lost connection and a deadlock victim all roll everything back.         *)
(*                                                                         *)
(* A placement row is identified by its unique (shelf, item) pair, called  *)
(* a slot.  Quantities count thousandths, the scale of the columns.        *)
(* Authorisation is left out: callers are the ones can() lets through.     *)
(* The catalogue's names, codes and version numbers do not touch stock and *)
(* are left out as well.                                                   *)
(***************************************************************************)
EXTENDS Integers, Sequences, FiniteSets

CONSTANTS Session,        (* concurrent requests                           *)
          Shelf, Item, Warehouse,
          WarehouseOf,    (* the warehouse each shelf belongs to           *)
          FirstShelves,   (* the shelves that already exist at the start   *)
          MaxQuantity,    (* the largest quantity the column can hold      *)
          Threshold,      (* the values min_quantity may take              *)
          MaxMoves,       (* bound: movements per placement                *)
          MaxLines,       (* bound: lines of one fulfilment                *)
          None            (* a value that is no session, shelf or item     *)

ASSUME LedgerConstants ==
    /\ WarehouseOf \in [Shelf -> Warehouse]
    /\ FirstShelves \subseteq Shelf
    /\ MaxQuantity \in Nat
    /\ Threshold \subseteq Nat
    /\ Threshold # {}
    /\ MaxMoves \in Nat
    /\ MaxLines \in Nat
    /\ None \notin Session

Slot == Shelf \X Item

VARIABLES
    placed,       (* the committed placement rows                           *)
    quantity,     (* quantity[x]: the committed quantity of slot x          *)
    movements,    (* movements[x]: the committed movements of x, in order   *)
    alerts,       (* alerts[x]: the committed alerts of x, in order         *)
    minQuantity,  (* minQuantity[i]: the low-stock threshold of item i      *)
    itemLive,     (* the items that are not retired                         *)
    shelfState,   (* "absent" (never created), "active" or "retired"        *)
    warehouseLive,(* the warehouses that are not retired                    *)
    lock,         (* lock[x]: the session holding the row lock of x         *)
    draft,        (* draft[s][x]: what s has flushed for x, not committed   *)
    tx            (* tx[s]: where the request of session s stands           *)

stockVars == <<placed, quantity, movements, alerts>>
catalogVars == <<minQuantity, itemLive, shelfState, warehouseLive>>
vars == <<placed, quantity, movements, alerts, minQuantity, itemLive,
          shelfState, warehouseLive, lock, draft, tx>>

-----------------------------------------------------------------------------
(* Rows and requests *)

MovementType == {"receive", "issue", "adjust", "fulfillment"}
Movement == [type: MovementType, delta: Int, resulting: Nat]

AlertStatus == {"active", "recovered", "item_retired", "placement_retired"}
Alert == [at: Nat, threshold: Nat, status: AlertStatus]

(* An uncommitted movement of one slot with what _evaluate_alert decided:    *)
(* raise an alert, resolve alert number `no`, or leave the alerts alone.     *)
Draft == [type: MovementType, delta: Int, resulting: 0..MaxQuantity,
          min: Nat, alert: {"keep", "raise", "recover"}, no: Nat]

ASSUME NoneIsNoDraft == None \notin Draft

NoDrafts == [x \in Slot |-> None]

Line == [slot: Slot, amount: Nat]

Operation == MovementType \cup {"none", "create_shelf", "retire_shelf",
                                "retire_item", "retire_warehouse"}
Step == {"idle", "line", "lookup", "insert", "lock", "holding", "posted",
         "creating", "retiring", "resolving"}

(* Where a request stands: its lines and the current one, the thresholds it    *)
(* has read, and for a retirement its target and the alerts it will resolve.  *)
Transaction == [pc: Step, op: Operation, lines: Seq(Line), k: Nat \ {0},
            min: [Item -> Nat],
            target: Shelf \cup Item \cup Warehouse \cup {None},
            found: SUBSET (Slot \X Nat)]

(* The thresholds a request has read: those of the items it loaded.           *)
MinOf(items) == [i \in Item |-> IF i \in items THEN minQuantity[i] ELSE 0]

Idle == [pc |-> "idle", op |-> "none", lines |-> <<>>, k |-> 1,
         min |-> MinOf({}), target |-> None, found |-> {}]

StockRequest(op, pc, lines) ==
    [pc |-> pc, op |-> op, lines |-> lines, k |-> 1,
     min |-> MinOf({lines[j].slot[2] : j \in DOMAIN lines}),
     target |-> None, found |-> {}]

AdminRequest(op, pc, target) ==
    [pc |-> pc, op |-> op, lines |-> <<>>, k |-> 1, min |-> MinOf({}),
     target |-> target, found |-> {}]

ActiveAlerts(x) == {n \in DOMAIN alerts[x] : alerts[x][n].status = "active"}

CurrentLine(s) == tx[s].lines[tx[s].k]
CurrentSlot(s) == CurrentLine(s).slot

(* Session s is blocked in the database on a row another session holds.       *)
Waiting(s, x) ==
    /\ tx[s].pc \in {"lookup", "insert", "lock"}
    /\ CurrentSlot(s) = x
    /\ lock[x] \notin {None, s}
    /\ CASE tx[s].pc = "lookup" -> x \in placed
         [] tx[s].pc = "insert" -> x \notin placed
         [] tx[s].pc = "lock"   -> TRUE

TypeOK ==
    /\ placed \subseteq Slot
    /\ quantity \in [Slot -> 0..MaxQuantity]
    /\ movements \in [Slot -> Seq(Movement)]
    /\ alerts \in [Slot -> Seq(Alert)]
    /\ minQuantity \in [Item -> Nat]
    /\ itemLive \subseteq Item
    /\ shelfState \in [Shelf -> {"absent", "active", "retired"}]
    /\ warehouseLive \subseteq Warehouse
    /\ lock \in [Slot -> Session \cup {None}]
    /\ draft \in [Session -> [Slot -> Draft \cup {None}]]
    /\ tx \in [Session -> Transaction]

Init ==
    /\ placed = {}
    /\ quantity = [x \in Slot |-> 0]
    /\ movements = [x \in Slot |-> <<>>]
    /\ alerts = [x \in Slot |-> <<>>]
    /\ minQuantity \in [Item -> Threshold]
    /\ itemLive = Item
    /\ shelfState = [h \in Shelf |-> IF h \in FirstShelves THEN "active"
                                                            ELSE "absent"]
    /\ warehouseLive = Warehouse
    /\ lock = [x \in Slot |-> None]
    /\ draft = [s \in Session |-> NoDrafts]
    /\ tx = [s \in Session |-> Idle]

-----------------------------------------------------------------------------
(* The end of a transaction *)

(* Variant: the row locks outlive the transaction.                            *)
KeptLocks(s) == lock

Unlocked(s) == [x \in Slot |-> IF lock[x] = s THEN None ELSE lock[x]]

(* session.close(): nothing of the transaction remains, an inserted row is    *)
(* gone and the row locks are free.                                           *)
Rollback(s) ==
    /\ lock' = Unlocked(s)
    /\ draft' = [draft EXCEPT ![s] = NoDrafts]
    /\ tx' = [tx EXCEPT ![s] = Idle]
    /\ UNCHANGED <<stockVars, catalogVars>>

(* An unhandled error or a lost connection before the commit.                 *)
Crash(s) == tx[s].pc # "idle" /\ Rollback(s)

(* PostgreSQL aborts one of the sessions that wait for each other.            *)
WaitCycle(s) ==
    \E x, y \in Slot :
        /\ Waiting(s, x)
        /\ Waiting(lock[x], y)
        /\ lock[y] = s

DeadlockVictim(s) == WaitCycle(s) /\ Rollback(s)

-----------------------------------------------------------------------------
(* Where a movement starts: the unlocked reads *)

MayMove(x) == Len(movements[x]) < MaxMoves

Start(s, request) ==
    /\ tx[s].pc = "idle"
    /\ tx' = [tx EXCEPT ![s] = request]
    /\ UNCHANGED <<stockVars, catalogVars, lock, draft>>

(* receive_stock checks the item and the shelf, and that the warehouse row    *)
(* exists, not that it is in service.  An amount that rounds to zero passes   *)
(* the field validation, which looks at the amount before it is rounded.      *)
BeginReceive(s, x, amount) ==
    /\ x[2] \in itemLive
    /\ shelfState[x[1]] = "active"
    /\ MayMove(x)
    /\ Start(s, StockRequest("receive", "lookup",
                             <<[slot |-> x, amount |-> amount]>>))

(* _load_stock_bundle, the first half of issue_stock and adjust_stock.        *)
Bundle(x) ==
    /\ x \in placed
    /\ shelfState[x[1]] = "active"
    /\ x[2] \in itemLive

BeginIssue(s, x, amount) ==
    /\ Bundle(x)
    /\ MayMove(x)
    /\ Start(s, StockRequest("issue", "lock",
                             <<[slot |-> x, amount |-> amount]>>))

BeginAdjust(s, x, goal) ==
    /\ Bundle(x)
    /\ MayMove(x)
    /\ Start(s, StockRequest("adjust", "lock",
                             <<[slot |-> x, amount |-> goal]>>))

(* A fulfilment moves one slot per line of an item request, in line order.    *)
(* The lines hold distinct items, and each slot holds the item of its line.   *)
(* The items were loaded with the lines, so their thresholds are read here.   *)
DistinctItems(lines) ==
    \A i, j \in DOMAIN lines : i # j => lines[i].slot[2] # lines[j].slot[2]

BeginFulfill(s, lines) ==
    /\ lines # <<>>
    /\ DistinctItems(lines)
    /\ \A j \in DOMAIN lines : MayMove(lines[j].slot)
    /\ Start(s, StockRequest("fulfillment", "line", lines))

(* The placement of the line is found and its shelf is in service; a shelf    *)
(* loaded for an earlier line is not read again.  Neither the item nor the    *)
(* warehouse is checked.                                                      *)
LineAllowed(s) ==
    /\ CurrentSlot(s) \in placed
    /\ \/ shelfState[CurrentSlot(s)[1]] = "active"
       \/ \E j \in 1..(tx[s].k - 1) : tx[s].lines[j].slot[1] = CurrentSlot(s)[1]

FulfillLine(s) ==
    /\ tx[s].pc = "line"
    /\ LineAllowed(s)
    /\ tx' = [tx EXCEPT ![s].pc = "lock"]
    /\ UNCHANGED <<stockVars, catalogVars, lock, draft>>

RefuseLine(s) == tx[s].pc = "line" /\ ~LineAllowed(s) /\ Rollback(s)

-----------------------------------------------------------------------------
(* Taking the row lock *)

Acquire(s) ==
    /\ lock' = [lock EXCEPT ![CurrentSlot(s)] = s]
    /\ tx' = [tx EXCEPT ![s].pc = "holding"]
    /\ UNCHANGED <<stockVars, catalogVars, draft>>

(* Variant: the row is read without FOR UPDATE.                               *)
LockRowUnlocked(s) == tx[s].pc = "lock" /\ Acquire(s)

(* lock_placement, and the second lock_placement_for_stock of receive_stock.  *)
LockRow(s) ==
    /\ tx[s].pc = "lock"
    /\ lock[CurrentSlot(s)] = None
    /\ Acquire(s)

(* lock_placement_for_stock: the row is committed, or there is none yet.      *)
LookupHit(s) ==
    /\ tx[s].pc = "lookup"
    /\ CurrentSlot(s) \in placed
    /\ lock[CurrentSlot(s)] = None
    /\ Acquire(s)

LookupMiss(s) ==
    /\ tx[s].pc = "lookup"
    /\ CurrentSlot(s) \notin placed
    /\ tx' = [tx EXCEPT ![s].pc = "insert"]
    /\ UNCHANGED <<stockVars, catalogVars, lock, draft>>

(* Variant: the unique index on (shelf, item) is missing.                     *)
InsertRowTwice(s) ==
    tx[s].pc = "insert" /\ CurrentSlot(s) \notin placed /\ Acquire(s)

(* The savepoint: the insert waits while another session has an uncommitted   *)
(* row under the same key, and fails once such a row is committed.            *)
InsertRow(s) ==
    /\ tx[s].pc = "insert"
    /\ CurrentSlot(s) \notin placed
    /\ lock[CurrentSlot(s)] = None
    /\ Acquire(s)

InsertConflict(s) ==
    /\ tx[s].pc = "insert"
    /\ CurrentSlot(s) \in placed
    /\ tx' = [tx EXCEPT ![s].pc = "lock"]
    /\ UNCHANGED <<stockVars, catalogVars, lock, draft>>

-----------------------------------------------------------------------------
(* The movement, under the lock *)

(* The row is re-read with the lock, so the committed quantity is what the    *)
(* new one is computed from.                                                  *)
Resulting(s) ==
    LET q == quantity[CurrentSlot(s)]
        a == CurrentLine(s).amount
    IN  CASE tx[s].op = "receive" -> q + a
          [] tx[s].op = "adjust"  -> a
          [] OTHER                -> q - a

(* Variant: the stock on the placement is not compared with the request.      *)
AcceptedUnchecked(s) ==
    tx[s].op = "adjust" => Resulting(s) # quantity[CurrentSlot(s)]

(* INSUFFICIENT_STOCK, "equals the current stock", and a quantity the column  *)
(* cannot hold.                                                               *)
Accepted(s) ==
    /\ Resulting(s) \in 0..MaxQuantity
    /\ tx[s].op = "adjust" => Resulting(s) # quantity[CurrentSlot(s)]

Refuse(s) == tx[s].pc = "holding" /\ ~Accepted(s) /\ Rollback(s)

(* Variant: an alert is raised although one is active.                        *)
AlertDecisionAgain(s, x, q) ==
    IF q < tx[s].min[x[2]] THEN [alert |-> "raise", no |-> 0]
                           ELSE [alert |-> "keep", no |-> 0]

(* Variant: reaching the threshold counts as being below it.                  *)
AlertDecisionAtMost(s, x, q) ==
    LET below  == q <= tx[s].min[x[2]]
        active == ActiveAlerts(x)
    IN  CASE below /\ active = {}    -> [alert |-> "raise", no |-> 0]
          [] ~below /\ active # {}   -> [alert |-> "recover",
                                         no |-> CHOOSE n \in active : TRUE]
          [] OTHER                   -> [alert |-> "keep", no |-> 0]

(* _evaluate_alert: the threshold is the one read at the start.  When there   *)
(* is an active alert its number is kept for the update.                      *)
AlertDecision(s, x, q) ==
    LET below  == q < tx[s].min[x[2]]
        active == ActiveAlerts(x)
    IN  CASE below /\ active = {}    -> [alert |-> "raise", no |-> 0]
          [] ~below /\ active # {}   -> [alert |-> "recover",
                                         no |-> CHOOSE n \in active : TRUE]
          [] OTHER                   -> [alert |-> "keep", no |-> 0]

(* Variant: the movement records the requested amount, without its sign.      *)
DraftUnsigned(s) ==
    LET x == CurrentSlot(s)
        d == AlertDecision(s, x, Resulting(s))
    IN  [type |-> tx[s].op, delta |-> CurrentLine(s).amount,
         resulting |-> Resulting(s), min |-> tx[s].min[x[2]],
         alert |-> d.alert, no |-> d.no]

DraftOf(s) ==
    LET x == CurrentSlot(s)
        d == AlertDecision(s, x, Resulting(s))
    IN  [type |-> tx[s].op, delta |-> Resulting(s) - quantity[x],
         resulting |-> Resulting(s), min |-> tx[s].min[x[2]],
         alert |-> d.alert, no |-> d.no]

AfterLine(r) == IF r.k < Len(r.lines) THEN [r EXCEPT !.pc = "line", !.k = r.k + 1]
                                      ELSE [r EXCEPT !.pc = "posted"]

(* The rest of the statements up to the commit, or up to the next line.       *)
Post(s) ==
    /\ tx[s].pc = "holding"
    /\ Accepted(s)
    /\ draft' = [draft EXCEPT ![s][CurrentSlot(s)] = DraftOf(s)]
    /\ tx' = [tx EXCEPT ![s] = AfterLine(tx[s])]
    /\ UNCHANGED <<stockVars, catalogVars, lock>>

Posted(s) == {x \in Slot : draft[s][x] # None}

AlertsAfter(x, d) ==
    CASE d.alert = "raise"   -> Append(alerts[x], [at |-> d.resulting,
                                                   threshold |-> d.min,
                                                   status |-> "active"])
      [] d.alert = "recover" -> [alerts[x] EXCEPT ![d.no].status = "recovered"]
      [] d.alert = "keep"    -> alerts[x]

Commit(s) ==
    /\ tx[s].pc = "posted"
    /\ placed' = placed \cup Posted(s)
    /\ quantity' = [x \in Slot |-> IF x \in Posted(s) THEN draft[s][x].resulting
                                                      ELSE quantity[x]]
    /\ movements' = [x \in Slot |->
                       IF x \in Posted(s)
                       THEN Append(movements[x],
                                   [type |-> draft[s][x].type,
                                    delta |-> draft[s][x].delta,
                                    resulting |-> draft[s][x].resulting])
                       ELSE movements[x]]
    /\ alerts' = [x \in Slot |-> IF x \in Posted(s)
                                 THEN AlertsAfter(x, draft[s][x])
                                 ELSE alerts[x]]
    /\ lock' = Unlocked(s)
    /\ draft' = [draft EXCEPT ![s] = NoDrafts]
    /\ tx' = [tx EXCEPT ![s] = Idle]
    /\ UNCHANGED catalogVars

-----------------------------------------------------------------------------
(* The catalogue and the places *)

(* update_item with a new min_quantity: the alerts are not looked at again.   *)
(* The item was in service when the request read it; it may have been retired *)
(* before the request commits.                                                *)
UpdateMinQuantity(i, min) ==
    /\ minQuantity' = [minQuantity EXCEPT ![i] = min]
    /\ UNCHANGED <<stockVars, itemLive, shelfState, warehouseLive, lock, draft, tx>>

BeginCreateShelf(s, h) ==
    /\ shelfState[h] = "absent"
    /\ WarehouseOf[h] \in warehouseLive
    /\ Start(s, AdminRequest("create_shelf", "creating", h))

(* The insert, unless a shelf with the code has been committed since.         *)
CommitCreateShelf(s) ==
    /\ tx[s].pc = "creating"
    /\ shelfState[tx[s].target] = "absent"
    /\ shelfState' = [shelfState EXCEPT ![tx[s].target] = "active"]
    /\ tx' = [tx EXCEPT ![s] = Idle]
    /\ UNCHANGED <<stockVars, minQuantity, itemLive, warehouseLive, lock, draft>>

DuplicateShelf(s) ==
    /\ tx[s].pc = "creating"
    /\ shelfState[tx[s].target] # "absent"
    /\ Rollback(s)

(* The placements a retirement looks at.  A warehouse retirement is blocked   *)
(* by stock on its active shelves only, and ends the alerts of all of them.   *)
OnShelf(h) == {x \in Slot : x[1] = h}
InWarehouse(w) == {x \in Slot : WarehouseOf[x[1]] = w}
OfItem(i) == {x \in Slot : x[2] = i}

Blocking(X) ==
    {x \in X \cap placed : quantity[x] # 0 /\ shelfState[x[1]] # "retired"}

BeginRetireShelf(s, h) ==
    /\ shelfState[h] = "active"
    /\ Blocking(OnShelf(h)) = {}
    /\ Start(s, AdminRequest("retire_shelf", "retiring", h))

BeginRetireWarehouse(s, w) ==
    /\ w \in warehouseLive
    /\ Blocking(InWarehouse(w)) = {}
    /\ Start(s, AdminRequest("retire_warehouse", "retiring", w))

(* An item may be retired whatever its stock.                                 *)
BeginRetireItem(s, i) ==
    /\ i \in itemLive
    /\ Start(s, AdminRequest("retire_item", "retiring", i))

Retired(s) ==
    CASE tx[s].op = "retire_shelf"     -> OnShelf(tx[s].target)
      [] tx[s].op = "retire_warehouse" -> InWarehouse(tx[s].target)
      [] tx[s].op = "retire_item"      -> OfItem(tx[s].target)

(* _resolve_alerts_for_retirement reads the active alerts; the update of the  *)
(* retired row itself is flushed first and waits for another retirement of    *)
(* the same row.                                                              *)
CollectAlerts(s) ==
    /\ tx[s].pc = "retiring"
    /\ \A o \in Session \ {s} :
         ~(tx[o].pc = "resolving" /\ tx[o].op = tx[s].op
                                  /\ tx[o].target = tx[s].target)
    /\ tx' = [tx EXCEPT ![s].pc = "resolving",
                        ![s].found = UNION {{x} \X ActiveAlerts(x) : x \in Retired(s)}]
    /\ UNCHANGED <<stockVars, catalogVars, lock, draft>>

CommitRetirement(s) ==
    LET op == tx[s].op
        h  == tx[s].target
        reason == IF op = "retire_item" THEN "item_retired" ELSE "placement_retired"
    IN  /\ tx[s].pc = "resolving"
        /\ shelfState' = IF op = "retire_shelf"
                         THEN [shelfState EXCEPT ![h] = "retired"] ELSE shelfState
        /\ itemLive' = IF op = "retire_item" THEN itemLive \ {h} ELSE itemLive
        /\ warehouseLive' = IF op = "retire_warehouse" THEN warehouseLive \ {h}
                                                       ELSE warehouseLive
        /\ alerts' = [x \in Slot |->
                        [n \in DOMAIN alerts[x] |->
                           IF <<x, n>> \in tx[s].found
                           THEN [alerts[x][n] EXCEPT !.status = reason]
                           ELSE alerts[x][n]]]
        /\ tx' = [tx EXCEPT ![s] = Idle]
        /\ UNCHANGED <<placed, quantity, movements, minQuantity, lock, draft>>

-----------------------------------------------------------------------------
(* The steps a session takes on its own once its request has been read.       *)
Advance(s) ==
    \/ FulfillLine(s) \/ RefuseLine(s)
    \/ LookupMiss(s) \/ InsertConflict(s)
    \/ Refuse(s) \/ Post(s)
    \/ CommitCreateShelf(s) \/ DuplicateShelf(s)
    \/ CollectAlerts(s) \/ CommitRetirement(s)

Proceed(s) == Advance(s) \/ Commit(s) \/ DeadlockVictim(s)

TakeLock(s) == LockRow(s) \/ LookupHit(s) \/ InsertRow(s)

(* A new request.  Fulfilments come from the item-request module.             *)
BeginStock(s) ==
    \E x \in Slot, a \in 0..MaxQuantity :
        BeginReceive(s, x, a) \/ BeginIssue(s, x, a) \/ BeginAdjust(s, x, a)

BeginAdmin(s) ==
    \/ \E h \in Shelf : BeginCreateShelf(s, h) \/ BeginRetireShelf(s, h)
    \/ \E w \in Warehouse : BeginRetireWarehouse(s, w)
    \/ \E i \in Item : BeginRetireItem(s, i)

(* The fulfilments the contract apply_fulfillment_issue may be called with:   *)
(* any lines of positive amounts, up to MaxLines of them.                     *)
BeginAnyFulfill(s) ==
    \E n \in 1..MaxLines : \E lines \in [1..n -> [slot: Slot, amount: 1..MaxQuantity]] :
        BeginFulfill(s, lines)

Next ==
    \/ \E s \in Session : \/ BeginStock(s) \/ BeginAdmin(s) \/ BeginAnyFulfill(s)
                          \/ TakeLock(s) \/ Proceed(s) \/ Crash(s)
    \/ \E i \in Item, m \in Threshold : UpdateMinQuantity(i, m)

Spec == Init /\ [][Next]_vars

-----------------------------------------------------------------------------
(* Safety *)

(* The ledger explains the stock of every placement: the first movement       *)
(* starts from zero, each movement starts from where the one before it ended, *)
(* and the quantity on the shelf is where the last one ended.  A lost update  *)
(* between two sessions moving the same placement would break the chain.      *)
LedgerBalanced ==
    \A x \in Slot :
        LET m == movements[x]
            n == Len(m)
        IN  /\ quantity[x] = IF n = 0 THEN 0 ELSE m[n].resulting
            /\ \A k \in 1..n :
                 m[k].resulting = m[k].delta + (IF k = 1 THEN 0 ELSE m[k-1].resulting)
            /\ x \notin placed => n = 0

(* An uncommitted movement is only ever computed by the session that holds    *)
(* the row lock, from the quantity that is still the committed one: nothing   *)
(* another session does between the locked read and the commit makes it stale.*)
LockedDrafts ==
    \A s \in Session, x \in Slot :
        draft[s][x] # None =>
            /\ lock[x] = s
            /\ draft[s][x].resulting = quantity[x] + draft[s][x].delta

(* At most one alert of a placement is active, whatever movements and         *)
(* retirements overlap, so the partial unique index on active alerts never    *)
(* has to abort a movement.                                                   *)
OneActiveAlert == \A x \in Slot : Cardinality(ActiveAlerts(x)) <= 1

InService(x) ==
    /\ x[2] \in itemLive
    /\ shelfState[x[1]] = "active"
    /\ WarehouseOf[x[1]] \in warehouseLive

(* When a movement of a placement in service commits, the placement has an    *)
(* active alert exactly if the new quantity is below the threshold the        *)
(* request read, although the alert was looked up before the commit and a     *)
(* retirement may resolve alerts at the same time.                            *)
AlertFollowsMovement ==
    [][\A s \in Session, x \in Slot :
         /\ draft[s][x] # None
         /\ movements'[x] # movements[x]
         /\ InService(x)'
         => (ActiveAlerts(x)' # {} <=> quantity'[x] < draft[s][x].min)]_vars

(* A movement that changes one placement never takes part in a deadlock: only *)
(* fulfilments hold a row while they wait for another.                        *)
OnlyFulfillmentsDeadlock ==
    \A s \in Session : WaitCycle(s) => tx[s].op = "fulfillment"

(* Refinement: the quantities and the movements are a stock book, in which a  *)
(* fulfilment of several lines is one posting.                                *)
Book == INSTANCE StockBook WITH balance <- quantity, journal <- movements
ImplementsBook == Book!Spec

(* What service.py:323 and FR-008 say of retirement: a retired shelf, and a   *)
(* shelf of a retired warehouse, hold no stock.  The code does not keep it.   *)
RetiredPlaceIsEmpty ==
    \A x \in Slot :
        \/ shelfState[x[1]] = "retired"
        \/ WarehouseOf[x[1]] \notin warehouseLive
        => quantity[x] = 0

(* What service.py:734 says: retiring an item ends its below-threshold        *)
(* episodes.  The code does not keep it.                                      *)
RetiredItemHasNoAlert ==
    \A x \in Slot : x[2] \notin itemLive => ActiveAlerts(x) = {}

=============================================================================
