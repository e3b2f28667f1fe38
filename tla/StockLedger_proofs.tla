-------------------------- MODULE StockLedger_proofs --------------------------
(***************************************************************************)
(* Theorems about StockLedger for any sessions, shelves, items and bounds. *)
(***************************************************************************)
EXTENDS StockLedger, FiniteSetTheorems, SequenceTheorems, TLAPS

-----------------------------------------------------------------------------
(* Type correctness *)

(* What the steps of a request rely on: a request that moves stock has a      *)
(* current line, and a retirement is of one of the three kinds.               *)
RequestShape ==
    \A s \in Session :
        /\ tx[s].pc \in {"line", "lookup", "insert", "lock", "holding", "posted"}
             => tx[s].op \in MovementType /\ tx[s].k \in 1..Len(tx[s].lines)
        /\ tx[s].pc \in {"retiring", "resolving"}
             => tx[s].op \in {"retire_shelf", "retire_item", "retire_warehouse"}

TypeInv == TypeOK /\ RequestShape

LEMMA IdleType ==
    ASSUME TypeOK PROVE Idle \in Transaction /\ Idle.pc = "idle"
<1>1. MinOf({}) \in [Item -> Nat]
  BY DEF MinOf
<1>2. <<>> \in Seq(Line)
  OBVIOUS
<1> QED
  BY <1>1, <1>2 DEF Idle, Transaction, Step, Operation

LEMMA StockRequestType ==
    ASSUME TypeOK, NEW op \in MovementType, NEW pc \in {"line", "lookup", "lock"},
           NEW lines \in Seq(Line), lines # <<>>
    PROVE  /\ StockRequest(op, pc, lines) \in Transaction
           /\ StockRequest(op, pc, lines).op = op
           /\ StockRequest(op, pc, lines).k \in 1..Len(StockRequest(op, pc, lines).lines)
           /\ StockRequest(op, pc, lines).pc = pc
<1> DEFINE m == MinOf({lines[j].slot[2] : j \in DOMAIN lines})
<1>1. m \in [Item -> Nat]
  BY DEF MinOf, TypeOK
<1>2. Len(lines) \in Nat \ {0}
  OBVIOUS
<1> HIDE DEF m
<1>3. StockRequest(op, pc, lines) =
        [pc |-> pc, op |-> op, lines |-> lines, k |-> 1, min |-> m,
         target |-> None, found |-> {}]
  BY DEF StockRequest, m
<1> QED
  BY <1>1, <1>2, <1>3 DEF Transaction, Step, Operation, MovementType

LEMMA AdminRequestType ==
    ASSUME TypeOK, NEW op \in Operation, NEW pc \in {"creating", "retiring"},
           NEW target \in Shelf \cup Item \cup Warehouse
    PROVE  /\ AdminRequest(op, pc, target) \in Transaction
           /\ AdminRequest(op, pc, target).op = op
           /\ AdminRequest(op, pc, target).pc = pc
<1>1. MinOf({}) \in [Item -> Nat]
  BY DEF MinOf
<1>2. AdminRequest(op, pc, target) =
        [pc |-> pc, op |-> op, lines |-> <<>>, k |-> 1, min |-> MinOf({}),
         target |-> target, found |-> {}]
  BY DEF AdminRequest
<1>3. <<>> \in Seq(Line)
  OBVIOUS
<1> QED
  BY <1>1, <1>2, <1>3 DEF Transaction, Step

(* A request that begins: the type of tx[s] is that of the request.           *)
LEMMA StartType ==
    ASSUME TypeInv, NEW s \in Session, NEW r \in Transaction, Start(s, r),
           r.pc \in {"line", "lookup", "lock"}
             => r.op \in MovementType /\ r.k \in 1..Len(r.lines),
           r.pc \in {"retiring", "resolving"}
             => r.op \in {"retire_shelf", "retire_item", "retire_warehouse"},
           r.pc \notin {"insert", "holding", "posted"}
    PROVE  TypeInv'
<1> USE DEF TypeInv, TypeOK, Start, stockVars, catalogVars
<1>1. TypeOK'
  OBVIOUS
<1>2. RequestShape'
  BY DEF RequestShape
<1> QED
  BY <1>1, <1>2

LEMMA RollbackType ==
    ASSUME TypeInv, NEW s \in Session, Rollback(s)
    PROVE  TypeInv'
<1> USE DEF TypeInv, TypeOK, Rollback, stockVars, catalogVars
<1>1. lock' \in [Slot -> Session \cup {None}]
  BY DEF Unlocked
<1>2. draft' \in [Session -> [Slot -> Draft \cup {None}]]
  BY DEF NoDrafts
<1>3. tx' \in [Session -> Transaction] /\ \A o \in Session : tx'[o] = IF o = s THEN Idle ELSE tx[o]
  BY IdleType
<1>4. TypeOK'
  BY <1>1, <1>2, <1>3
<1>5. RequestShape'
  BY <1>3, IdleType DEF RequestShape
<1> QED
  BY <1>4, <1>5

(* Steps that only move the program counter of a stock request.               *)
LEMMA StepType ==
    ASSUME TypeInv, NEW s \in Session,
           NEW pc \in {"line", "lookup", "insert", "lock", "holding", "posted"},
           tx[s].pc \in {"line", "lookup", "insert", "lock", "holding", "posted"},
           tx' = [tx EXCEPT ![s].pc = pc],
           UNCHANGED <<stockVars, catalogVars, draft>>,
           lock' \in [Slot -> Session \cup {None}]
    PROVE  TypeInv'
<1> USE DEF TypeInv, stockVars, catalogVars
<1>1. tx[s] \in Transaction /\ tx \in [Session -> Transaction]
  BY DEF TypeOK
<1>2. [tx[s] EXCEPT !.pc = pc] \in Transaction
  BY <1>1 DEF Transaction, Step
<1>3. tx' \in [Session -> Transaction]
  BY <1>1, <1>2
<1>4. TypeOK'
  BY <1>3 DEF TypeOK
<1>5. RequestShape'
  BY DEF RequestShape, TypeOK, Transaction
<1> QED
  BY <1>4, <1>5

LEMMA CurrentSlotType ==
    ASSUME TypeInv, NEW s \in Session,
           tx[s].pc \in {"line", "lookup", "insert", "lock", "holding", "posted"}
    PROVE  /\ CurrentLine(s) \in Line
           /\ CurrentSlot(s) \in Slot
           /\ CurrentLine(s).amount \in Nat
           /\ CurrentSlot(s)[1] \in Shelf /\ CurrentSlot(s)[2] \in Item
           /\ tx[s].op \in MovementType
<1>1. tx[s].k \in 1..Len(tx[s].lines) /\ tx[s].lines \in Seq(Line) /\ tx[s].op \in MovementType
  BY DEF TypeInv, TypeOK, RequestShape, Transaction
<1>2. CurrentLine(s) \in Line
  BY <1>1 DEF CurrentLine
<1> QED
  BY <1>1, <1>2 DEF CurrentSlot, Line, Slot

LEMMA AcquireType ==
    ASSUME TypeInv, NEW s \in Session, tx[s].pc \in {"lookup", "insert", "lock"},
           Acquire(s)
    PROVE  TypeInv'
<1>1. lock' \in [Slot -> Session \cup {None}]
  BY CurrentSlotType DEF Acquire, TypeInv, TypeOK
<1> QED
  BY <1>1, StepType DEF Acquire

LEMMA BeginType ==
    ASSUME TypeInv, NEW s \in Session,
           BeginStock(s) \/ BeginAdmin(s) \/ BeginAnyFulfill(s)
    PROVE  TypeInv'
<1> USE DEF TypeInv
<1>0. ASSUME NEW op \in MovementType, NEW pc \in {"line", "lookup", "lock"},
             NEW lines \in Seq(Line), lines # <<>>,
             Start(s, StockRequest(op, pc, lines))
      PROVE  TypeInv'
  <2> DEFINE r == StockRequest(op, pc, lines)
  <2>1. r \in Transaction /\ r.op = op /\ r.pc = pc /\ r.k \in 1..Len(r.lines)
    BY <1>0, StockRequestType
  <2>2. Start(s, r)
    BY <1>0
  <2> HIDE DEF r
  <2> QED
    BY <2>1, <2>2, StartType
<1>1. ASSUME NEW x \in Slot, NEW a \in 0..MaxQuantity,
             BeginReceive(s, x, a) \/ BeginIssue(s, x, a) \/ BeginAdjust(s, x, a)
      PROVE  TypeInv'
  <2>1. <<[slot |-> x, amount |-> a]>> \in Seq(Line)
    BY LedgerConstants DEF Line
  <2>2. <<[slot |-> x, amount |-> a]>> # <<>>
    OBVIOUS
  <2>3. CASE BeginReceive(s, x, a)
    BY <2>1, <2>2, <2>3, <1>0 DEF BeginReceive, MovementType
  <2>4. CASE BeginIssue(s, x, a)
    BY <2>1, <2>2, <2>4, <1>0 DEF BeginIssue, MovementType
  <2>5. CASE BeginAdjust(s, x, a)
    BY <2>1, <2>2, <2>5, <1>0 DEF BeginAdjust, MovementType
  <2> QED
    BY <1>1, <2>3, <2>4, <2>5
<1>2. ASSUME NEW n \in 1..MaxLines, NEW lines \in [1..n -> [slot: Slot, amount: 1..MaxQuantity]],
             BeginFulfill(s, lines)
      PROVE  TypeInv'
  <2>1. [slot: Slot, amount: 1..MaxQuantity] \subseteq Line
    BY LedgerConstants DEF Line
  <2>2. lines \in [1..n -> Line] /\ n \in Nat
    BY <2>1, LedgerConstants
  <2>3. lines \in Seq(Line)
    BY <2>2
  <2>4. lines # <<>> /\ Start(s, StockRequest("fulfillment", "line", lines))
    BY <1>2 DEF BeginFulfill
  <2> QED
    BY <2>3, <2>4, <1>0 DEF MovementType
<1>3. ASSUME NEW op \in Operation, NEW pc \in {"creating", "retiring"},
             NEW target \in Shelf \cup Item \cup Warehouse,
             pc = "retiring" => op \in {"retire_shelf", "retire_item", "retire_warehouse"},
             Start(s, AdminRequest(op, pc, target))
      PROVE  TypeInv'
  <2> DEFINE r == AdminRequest(op, pc, target)
  <2>1. r \in Transaction /\ r.op = op /\ r.pc = pc
    BY AdminRequestType
  <2>2. Start(s, r)
    BY <1>3
  <2> HIDE DEF r
  <2> QED
    BY <1>3, <2>1, <2>2, StartType
<1>4. ASSUME BeginAdmin(s) PROVE TypeInv'
  <2>1. ASSUME NEW h \in Shelf, BeginCreateShelf(s, h) PROVE TypeInv'
    BY <2>1, <1>3 DEF BeginCreateShelf, Operation
  <2>2. ASSUME NEW h \in Shelf, BeginRetireShelf(s, h) PROVE TypeInv'
    BY <2>2, <1>3 DEF BeginRetireShelf, Operation
  <2>3. ASSUME NEW w \in Warehouse, BeginRetireWarehouse(s, w) PROVE TypeInv'
    BY <2>3, <1>3 DEF BeginRetireWarehouse, Operation
  <2>4. ASSUME NEW i \in Item, BeginRetireItem(s, i) PROVE TypeInv'
    BY <2>4, <1>3 DEF BeginRetireItem, Operation
  <2> QED
    BY <1>4, <2>1, <2>2, <2>3, <2>4 DEF BeginAdmin
<1> QED
  BY <1>1, <1>2, <1>4 DEF BeginStock, BeginAnyFulfill

(* A sequence of alerts stays one when alerts are replaced by alerts.         *)
LEMMA ReplaceAlerts ==
    ASSUME NEW as \in Seq(Alert), NEW bs, bs = [n \in DOMAIN as |-> bs[n]],
           \A n \in DOMAIN as : bs[n] \in Alert
    PROVE  bs \in Seq(Alert) /\ DOMAIN bs = DOMAIN as
<1>1. DOMAIN as = 1..Len(as) /\ Len(as) \in Nat
  BY LenProperties
<1>2. bs \in [1..Len(as) -> Alert]
  BY <1>1
<1> QED
  BY <1>1, <1>2, SeqDef

LEMMA ActiveAlertsType ==
    ASSUME TypeOK, NEW x \in Slot
    PROVE  /\ ActiveAlerts(x) \subseteq DOMAIN alerts[x]
           /\ DOMAIN alerts[x] \subseteq Nat
BY DEF ActiveAlerts, TypeOK

LEMMA DraftType ==
    ASSUME TypeInv, NEW s \in Session, tx[s].pc = "holding", Accepted(s)
    PROVE  DraftOf(s) \in Draft
<1> DEFINE x == CurrentSlot(s)
<1> DEFINE d == AlertDecision(s, x, Resulting(s))
<1>1. x \in Slot /\ x[2] \in Item /\ tx[s].op \in MovementType
  BY CurrentSlotType
<1>2. Resulting(s) \in 0..MaxQuantity
  BY DEF Accepted
<1>3. tx[s].min[x[2]] \in Nat /\ quantity[x] \in Nat
  BY <1>1, LedgerConstants DEF TypeInv, TypeOK, Transaction
<1>4. d.alert \in {"keep", "raise", "recover"} /\ d.no \in Nat
  <2>1. ActiveAlerts(x) \subseteq Nat
    BY <1>1, ActiveAlertsType DEF TypeInv
  <2> QED
    BY <2>1 DEF AlertDecision
<1> HIDE DEF d, x
<1>5. DraftOf(s) = [type |-> tx[s].op, delta |-> Resulting(s) - quantity[x],
                    resulting |-> Resulting(s), min |-> tx[s].min[x[2]],
                    alert |-> d.alert, no |-> d.no]
  BY DEF DraftOf, d, x
<1> QED
  BY <1>1, <1>2, <1>3, <1>4, <1>5, LedgerConstants DEF Draft

LEMMA PostType ==
    ASSUME TypeInv, NEW s \in Session, Post(s)
    PROVE  TypeInv'
<1> USE DEF stockVars, catalogVars
<1>1. tx[s].pc = "holding" /\ tx[s] \in Transaction /\ tx \in [Session -> Transaction]
  BY DEF Post, TypeInv, TypeOK
<1>2. draft' \in [Session -> [Slot -> Draft \cup {None}]]
  <2>1. CurrentSlot(s) \in Slot
    BY <1>1, CurrentSlotType
  <2>2. DraftOf(s) \in Draft
    BY <1>1, DraftType DEF Post
  <2> HIDE DEF Draft
  <2> QED
    BY <2>1, <2>2 DEF Post, TypeInv, TypeOK
<1>3. tx[s].lines \in Seq(Line) /\ tx[s].k \in 1..Len(tx[s].lines) /\ tx[s].op \in MovementType
  BY <1>1 DEF TypeInv, RequestShape, Transaction
<1>4. tx' = [tx EXCEPT ![s] = AfterLine(tx[s])]
  BY DEF Post
<1> DEFINE r == AfterLine(tx[s])
<1>5. /\ r \in Transaction /\ r.op = tx[s].op /\ r.lines = tx[s].lines
      /\ r.k \in 1..Len(tx[s].lines)
      /\ r.pc \in {"line", "posted"}
  <2>0. tx[s] = [pc |-> tx[s].pc, op |-> tx[s].op, lines |-> tx[s].lines,
                 k |-> tx[s].k, min |-> tx[s].min, target |-> tx[s].target,
                 found |-> tx[s].found]
    BY <1>1 DEF Transaction
  <2>1. CASE tx[s].k < Len(tx[s].lines)
    <3>1. r = [pc |-> "line", op |-> tx[s].op, lines |-> tx[s].lines,
               k |-> tx[s].k + 1, min |-> tx[s].min, target |-> tx[s].target,
               found |-> tx[s].found]
      BY <2>0, <2>1 DEF AfterLine
    <3>2. tx[s].k + 1 \in 1..Len(tx[s].lines)
      BY <1>3, <2>1
    <3> HIDE DEF r
    <3> QED
      BY <1>1, <3>1, <3>2 DEF Transaction, Step
  <2>2. CASE ~(tx[s].k < Len(tx[s].lines))
    <3>1. r = [pc |-> "posted", op |-> tx[s].op, lines |-> tx[s].lines,
               k |-> tx[s].k, min |-> tx[s].min, target |-> tx[s].target,
               found |-> tx[s].found]
      BY <2>0, <2>2 DEF AfterLine
    <3> HIDE DEF r
    <3> QED
      BY <1>1, <1>3, <3>1 DEF Transaction, Step
  <2> QED
    BY <2>1, <2>2
<1> HIDE DEF r
<1>5a. tx'[s] = r
  BY <1>1, <1>4 DEF r
<1>6. tx' \in [Session -> Transaction] /\ \A o \in Session : o # s => tx'[o] = tx[o]
  BY <1>1, <1>4, <1>5 DEF r
<1>7. TypeOK'
  BY <1>2, <1>6 DEF Post, TypeInv, TypeOK
<1>8. RequestShape'
  BY <1>3, <1>5, <1>5a, <1>6 DEF TypeInv, RequestShape
<1> QED
  BY <1>7, <1>8 DEF TypeInv

LEMMA AlertsAfterType ==
    ASSUME TypeOK, NEW x \in Slot, NEW d \in Draft, LedgerConstants
    PROVE  AlertsAfter(x, d) \in Seq(Alert)
<1>1. alerts[x] \in Seq(Alert)
  BY DEF TypeOK
<1>2. CASE d.alert = "raise"
  <2>1. [at |-> d.resulting, threshold |-> d.min, status |-> "active"] \in Alert
    BY DEF Draft, Alert, AlertStatus, LedgerConstants
  <2>2. AlertsAfter(x, d) = Append(alerts[x], [at |-> d.resulting, threshold |-> d.min,
                                               status |-> "active"])
    BY <1>2 DEF AlertsAfter
  <2> QED
    BY <1>1, <2>1, <2>2
<1>3. CASE d.alert = "recover"
  <2> DEFINE bs == [alerts[x] EXCEPT ![d.no].status = "recovered"]
  <2>1. AlertsAfter(x, d) = bs
    BY <1>3 DEF AlertsAfter
  <2>2. bs = [n \in DOMAIN alerts[x] |-> bs[n]]
    OBVIOUS
  <2>3. ASSUME NEW n \in DOMAIN alerts[x] PROVE bs[n] \in Alert
    <3>1. alerts[x][n] \in Alert
      BY <1>1, ElementOfSeq
    <3>2. bs[n] = IF n = d.no THEN [alerts[x][n] EXCEPT !.status = "recovered"]
                              ELSE alerts[x][n]
      BY <1>1
    <3> QED
      BY <3>1, <3>2 DEF Alert, AlertStatus
  <2> HIDE DEF bs
  <2> QED
    BY <1>1, <2>1, <2>2, <2>3, ReplaceAlerts
<1>4. CASE d.alert = "keep"
  BY <1>1, <1>4 DEF AlertsAfter
<1> QED
  BY <1>2, <1>3, <1>4 DEF Draft

LEMMA CommitType ==
    ASSUME TypeInv, NEW s \in Session, Commit(s)
    PROVE  TypeInv'
<1> USE DEF TypeInv, catalogVars
<1>1. \A x \in Posted(s) : x \in Slot /\ draft[s][x] \in Draft
  BY DEF TypeOK, Posted
<1>2. /\ placed' \subseteq Slot
      /\ quantity' \in [Slot -> 0..MaxQuantity]
  BY <1>1 DEF Commit, TypeOK, Draft
<1>3. movements' \in [Slot -> Seq(Movement)]
  <2>1. ASSUME NEW x \in Slot PROVE movements'[x] \in Seq(Movement)
    <3>1. movements[x] \in Seq(Movement)
      BY DEF TypeOK
    <3>2. CASE x \in Posted(s)
      <4> DEFINE m == [type |-> draft[s][x].type, delta |-> draft[s][x].delta,
                       resulting |-> draft[s][x].resulting]
      <4>1. m \in Movement
        BY <1>1, <3>2, LedgerConstants DEF Draft, Movement
      <4>2. movements'[x] = Append(movements[x], m)
        BY <3>2 DEF Commit
      <4> HIDE DEF m
      <4> QED
        BY <3>1, <4>1, <4>2
    <3>3. CASE x \notin Posted(s)
      BY <3>1, <3>3 DEF Commit
    <3> QED
      BY <3>2, <3>3
  <2>2. movements' = [x \in Slot |-> movements'[x]]
    BY DEF Commit
  <2> QED
    BY <2>1, <2>2
<1>4. alerts' \in [Slot -> Seq(Alert)]
  <2>1. ASSUME NEW x \in Slot PROVE alerts'[x] \in Seq(Alert)
    BY <1>1, AlertsAfterType, LedgerConstants DEF Commit, TypeOK
  <2>2. alerts' = [x \in Slot |-> alerts'[x]]
    BY DEF Commit
  <2> QED
    BY <2>1, <2>2
<1>5. lock' \in [Slot -> Session \cup {None}]
  BY DEF Commit, Unlocked, TypeOK
<1>6. draft' \in [Session -> [Slot -> Draft \cup {None}]]
  BY DEF Commit, TypeOK, NoDrafts
<1>7. tx' \in [Session -> Transaction] /\ \A o \in Session : tx'[o] = IF o = s THEN Idle ELSE tx[o]
  BY IdleType DEF Commit, TypeOK
<1>8. TypeOK'
  BY <1>2, <1>3, <1>4, <1>5, <1>6, <1>7 DEF Commit, TypeOK
<1>9. RequestShape'
  BY <1>7, IdleType DEF RequestShape
<1> QED
  BY <1>8, <1>9

LEMMA CollectType ==
    ASSUME TypeInv, NEW s \in Session, CollectAlerts(s)
    PROVE  TypeInv'
<1> USE DEF stockVars, catalogVars
<1>1. tx[s] \in Transaction /\ tx \in [Session -> Transaction] /\ tx[s].pc = "retiring"
  BY DEF CollectAlerts, TypeInv, TypeOK
<1>2. tx[s].op \in {"retire_shelf", "retire_item", "retire_warehouse"}
  BY <1>1 DEF TypeInv, RequestShape
<1>3. Retired(s) \subseteq Slot
  BY <1>2 DEF Retired, OnShelf, OfItem, InWarehouse
<1> DEFINE F == UNION {{x} \X ActiveAlerts(x) : x \in Retired(s)}
<1>4. F \in SUBSET (Slot \X Nat)
  BY <1>3, ActiveAlertsType DEF TypeInv
<1>5. tx' = [tx EXCEPT ![s].pc = "resolving", ![s].found = F]
  BY DEF CollectAlerts
<1> HIDE DEF F
<1>6. [tx[s] EXCEPT !.pc = "resolving", !.found = F] \in Transaction
  BY <1>1, <1>4 DEF Transaction, Step
<1>7. /\ tx' \in [Session -> Transaction]
      /\ \A o \in Session : o # s => tx'[o] = tx[o]
      /\ tx'[s].pc = "resolving" /\ tx'[s].op = tx[s].op
  <2>1. tx' = [tx EXCEPT ![s] = [tx[s] EXCEPT !.pc = "resolving", !.found = F]]
    BY <1>1, <1>5
  <2>2. tx'[s] = [tx[s] EXCEPT !.pc = "resolving", !.found = F]
    BY <1>1, <2>1
  <2>3. tx'[s].pc = "resolving" /\ tx'[s].op = tx[s].op
    BY <1>1, <2>2 DEF Transaction
  <2> QED
    BY <1>1, <1>6, <2>1, <2>3
<1>8. TypeOK'
  BY <1>7 DEF CollectAlerts, TypeInv, TypeOK
<1>9. RequestShape'
  BY <1>2, <1>7 DEF TypeInv, RequestShape
<1> QED
  BY <1>8, <1>9 DEF TypeInv

LEMMA CommitRetirementType ==
    ASSUME TypeInv, NEW s \in Session, CommitRetirement(s)
    PROVE  TypeInv'
<1> USE DEF TypeInv
<1>1. alerts' \in [Slot -> Seq(Alert)]
  <2>1. ASSUME NEW x \in Slot PROVE alerts'[x] \in Seq(Alert)
    <3>1. alerts[x] \in Seq(Alert) /\ DOMAIN alerts[x] = 1..Len(alerts[x])
      BY LenProperties DEF TypeOK
    <3> DEFINE reason == IF tx[s].op = "retire_item" THEN "item_retired"
                                                     ELSE "placement_retired"
    <3>2. alerts'[x] = [n \in DOMAIN alerts[x] |->
                          IF <<x, n>> \in tx[s].found
                          THEN [alerts[x][n] EXCEPT !.status = reason]
                          ELSE alerts[x][n]]
      BY DEF CommitRetirement
    <3>3. reason \in AlertStatus
      BY DEF AlertStatus
    <3>4. ASSUME NEW n \in DOMAIN alerts[x] PROVE alerts'[x][n] \in Alert
      <4>1. alerts[x][n] \in Alert
        BY <3>1, ElementOfSeq
      <4> HIDE DEF reason
      <4> QED
        BY <3>2, <3>3, <4>1 DEF Alert
    <3>5. alerts'[x] = [n \in DOMAIN alerts[x] |-> alerts'[x][n]]
      BY <3>2
    <3> QED
      BY <3>1, <3>4, <3>5, ReplaceAlerts
  <2>2. alerts' = [x \in Slot |-> alerts'[x]]
    BY DEF CommitRetirement
  <2> QED
    BY <2>1, <2>2
<1>2. /\ shelfState' \in [Shelf -> {"absent", "active", "retired"}]
      /\ itemLive' \subseteq Item
      /\ warehouseLive' \subseteq Warehouse
  BY DEF CommitRetirement, TypeOK
<1>3. tx' \in [Session -> Transaction] /\ \A o \in Session : tx'[o] = IF o = s THEN Idle ELSE tx[o]
  BY IdleType DEF CommitRetirement, TypeOK
<1>4. TypeOK'
  BY <1>1, <1>2, <1>3 DEF CommitRetirement, TypeOK
<1>5. RequestShape'
  BY <1>3, IdleType DEF RequestShape
<1> QED
  BY <1>4, <1>5

LEMMA CreateShelfType ==
    ASSUME TypeInv, NEW s \in Session, CommitCreateShelf(s)
    PROVE  TypeInv'
<1> USE DEF TypeInv, stockVars
<1>1. tx' \in [Session -> Transaction] /\ \A o \in Session : tx'[o] = IF o = s THEN Idle ELSE tx[o]
  BY IdleType DEF CommitCreateShelf, TypeOK
<1>2. shelfState' \in [Shelf -> {"absent", "active", "retired"}]
  BY DEF CommitCreateShelf, TypeOK
<1>3. TypeOK'
  BY <1>1, <1>2 DEF CommitCreateShelf, TypeOK
<1>4. RequestShape'
  BY <1>1, IdleType DEF RequestShape
<1> QED
  BY <1>3, <1>4

(* The steps of Next, by what they do to the rows: begin a request, end a     *)
(* transaction without effect, take a row lock, move to another statement,    *)
(* compute a draft, commit, and the catalogue's own steps.                    *)
Rolls(s) ==
    Rollback(s) /\ (Crash(s) \/ DeadlockVictim(s) \/ RefuseLine(s) \/ Refuse(s)
                             \/ DuplicateShelf(s))

Moves(s) == FulfillLine(s) \/ LookupMiss(s) \/ InsertConflict(s)

LEMMA NextCases ==
    ASSUME Next
    PROVE  \/ \E s \in Session :
                \/ BeginStock(s) \/ BeginAdmin(s) \/ BeginAnyFulfill(s)
                \/ Rolls(s) \/ TakeLock(s) \/ Moves(s) \/ Post(s) \/ Commit(s)
                \/ CommitCreateShelf(s) \/ CollectAlerts(s) \/ CommitRetirement(s)
           \/ \E i \in Item, m \in Threshold : UpdateMinQuantity(i, m)
BY DEF Next, Proceed, Advance, Rolls, Moves, Crash, DeadlockVictim, RefuseLine, Refuse,
       DuplicateShelf

LEMMA TypeStep == TypeInv /\ [Next]_vars => TypeInv'
<1> SUFFICES ASSUME TypeInv, [Next]_vars PROVE TypeInv'
  OBVIOUS
<1>1. CASE Next
  <2>1. ASSUME NEW s \in Session, BeginStock(s) \/ BeginAdmin(s) \/ BeginAnyFulfill(s)
        PROVE  TypeInv'
    BY <2>1, BeginType
  <2>2. ASSUME NEW s \in Session, Rolls(s) PROVE TypeInv'
    BY <2>2, RollbackType DEF Rolls
  <2>3. ASSUME NEW s \in Session, TakeLock(s) PROVE TypeInv'
    BY <2>3, AcquireType DEF TakeLock, LockRow, LookupHit, InsertRow
  <2>4. ASSUME NEW s \in Session, Moves(s) PROVE TypeInv'
    <3>1. lock' \in [Slot -> Session \cup {None}]
      BY <2>4 DEF Moves, FulfillLine, LookupMiss, InsertConflict, TypeInv, TypeOK
    <3> QED
      BY <2>4, <3>1, StepType DEF Moves, FulfillLine, LookupMiss, InsertConflict
  <2>5. ASSUME NEW s \in Session, Post(s) \/ Commit(s) PROVE TypeInv'
    BY <2>5, PostType, CommitType
  <2>6. ASSUME NEW s \in Session,
               CommitCreateShelf(s) \/ CollectAlerts(s) \/ CommitRetirement(s)
        PROVE  TypeInv'
    BY <2>6, CreateShelfType, CollectType, CommitRetirementType
  <2>7. ASSUME NEW i \in Item, NEW m \in Threshold, UpdateMinQuantity(i, m)
        PROVE  TypeInv'
    BY <2>7, LedgerConstants
       DEF UpdateMinQuantity, TypeInv, TypeOK, RequestShape, stockVars
  <2> QED
    BY <1>1, <2>1, <2>2, <2>3, <2>4, <2>5, <2>6, <2>7, NextCases
<1>2. CASE UNCHANGED vars
  BY <1>2 DEF TypeInv, TypeOK, RequestShape, vars
<1> QED
  BY <1>1, <1>2

LEMMA TypeInit == Init => TypeInv
<1> SUFFICES ASSUME Init PROVE TypeInv
  OBVIOUS
<1>1. MinOf({}) \in [Item -> Nat]
  BY DEF MinOf
<1>2. Idle \in Transaction /\ Idle.pc = "idle"
  <2>1. <<>> \in Seq(Line)
    OBVIOUS
  <2> QED
    BY <1>1, <2>1 DEF Idle, Transaction, Step, Operation
<1>3. TypeOK
  <2>1. /\ movements \in [Slot -> Seq(Movement)]
        /\ alerts \in [Slot -> Seq(Alert)]
    BY DEF Init
  <2>2. draft \in [Session -> [Slot -> Draft \cup {None}]]
    BY DEF Init, NoDrafts
  <2>3. tx \in [Session -> Transaction]
    BY <1>2 DEF Init
  <2>4. quantity \in [Slot -> 0..MaxQuantity] /\ minQuantity \in [Item -> Nat]
    <3>1. Threshold \subseteq Nat /\ 0 \in 0..MaxQuantity
      BY LedgerConstants
    <3>2. minQuantity \in [Item -> Threshold] /\ quantity = [x \in Slot |-> 0]
      BY DEF Init
    <3> QED
      BY <3>1, <3>2
  <2>5. shelfState \in [Shelf -> {"absent", "active", "retired"}]
    BY DEF Init
  <2>6. /\ placed \subseteq Slot /\ itemLive \subseteq Item
        /\ warehouseLive \subseteq Warehouse
        /\ lock \in [Slot -> Session \cup {None}]
    BY DEF Init
  <2> QED
    BY <2>1, <2>2, <2>3, <2>4, <2>5, <2>6 DEF TypeOK
<1>4. RequestShape
  BY <1>2 DEF Init, RequestShape
<1> QED
  BY <1>3, <1>4 DEF TypeInv

(* Every reachable state has the types of the tables and of the requests.     *)
THEOREM TypeCorrect == Spec => []TypeOK
<1>1. TypeInv => TypeOK
  BY DEF TypeInv
<1> QED
  BY <1>1, TypeInit, TypeStep, PTL DEF Spec

-----------------------------------------------------------------------------
(* The ledger *)

(* A request that has read the row under the lock holds that lock.            *)
HoldsRow ==
    \A s \in Session : tx[s].pc = "holding" => lock[CurrentSlot(s)] = s

LockInv == TypeInv /\ HoldsRow /\ LockedDrafts

LEMMA LockStep == LockInv /\ [Next]_vars => LockInv'
<1> SUFFICES ASSUME LockInv, [Next]_vars PROVE HoldsRow' /\ LockedDrafts'
  BY TypeStep DEF LockInv
<1> USE DEF LockInv
<1>0. None \notin Session
  BY LedgerConstants
<1>1. ASSUME UNCHANGED <<quantity, lock, draft>>,
             \A s \in Session :
               tx'[s].pc = "holding" => tx[s].pc = "holding" /\ tx'[s] = tx[s]
      PROVE  HoldsRow' /\ LockedDrafts'
  BY <1>1 DEF HoldsRow, LockedDrafts, CurrentSlot, CurrentLine
<1>2. ASSUME NEW s \in Session, NEW r, Start(s, r), r.pc # "holding"
      PROVE  HoldsRow' /\ LockedDrafts'
  BY <1>1, <1>2 DEF Start, stockVars, TypeInv, TypeOK
<1>3. ASSUME NEW s \in Session, BeginStock(s) \/ BeginAdmin(s) \/ BeginAnyFulfill(s)
      PROVE  HoldsRow' /\ LockedDrafts'
  <2>1. ASSUME NEW op, NEW pc \in {"line", "lookup", "lock"}, NEW lines,
               Start(s, StockRequest(op, pc, lines))
        PROVE  HoldsRow' /\ LockedDrafts'
    BY <2>1, <1>2 DEF StockRequest
  <2>2. ASSUME NEW op, NEW pc \in {"creating", "retiring"}, NEW target,
               Start(s, AdminRequest(op, pc, target))
        PROVE  HoldsRow' /\ LockedDrafts'
    BY <2>2, <1>2 DEF AdminRequest
  <2>3. CASE BeginStock(s)
    BY <2>1, <2>3 DEF BeginStock, BeginReceive, BeginIssue, BeginAdjust
  <2>4. CASE BeginAdmin(s)
    BY <2>2, <2>4 DEF BeginAdmin, BeginCreateShelf, BeginRetireShelf,
       BeginRetireWarehouse, BeginRetireItem
  <2>5. CASE BeginAnyFulfill(s)
    BY <2>1, <2>5 DEF BeginAnyFulfill, BeginFulfill
  <2> QED
    BY <1>3, <2>3, <2>4, <2>5
<1>4. ASSUME NEW s \in Session, Rollback(s)
      PROVE  HoldsRow' /\ LockedDrafts'
  <2>1. \A o \in Session : tx'[o] = IF o = s THEN Idle ELSE tx[o]
    BY <1>4 DEF Rollback, TypeInv, TypeOK
  <2>2. HoldsRow'
    BY <1>4, <2>1, CurrentSlotType
       DEF Rollback, HoldsRow, CurrentSlot, CurrentLine, Unlocked, Idle
  <2>3. LockedDrafts'
    BY <1>4 DEF Rollback, LockedDrafts, Unlocked, NoDrafts, TypeInv, TypeOK, stockVars
  <2> QED
    BY <2>2, <2>3
<1>5. ASSUME NEW s \in Session, TakeLock(s)
      PROVE  HoldsRow' /\ LockedDrafts'
  <2>1. /\ Acquire(s) /\ lock[CurrentSlot(s)] = None
        /\ tx[s].pc \in {"lookup", "insert", "lock"}
    BY <1>5 DEF TakeLock, LockRow, LookupHit, InsertRow
  <2>2. CurrentSlot(s) \in Slot
    BY <2>1, CurrentSlotType
  <2>3. /\ \A o \in Session : o # s => tx'[o] = tx[o]
        /\ tx'[s].lines = tx[s].lines /\ tx'[s].k = tx[s].k
    BY <2>1 DEF Acquire, TypeInv, TypeOK, Transaction
  <2>4. HoldsRow'
    BY <1>0, <2>1, <2>2, <2>3, CurrentSlotType
       DEF Acquire, HoldsRow, CurrentSlot, CurrentLine, TypeInv, TypeOK
  <2>5. LockedDrafts'
    BY <1>0, <2>1, <2>2 DEF Acquire, LockedDrafts, TypeInv, TypeOK, stockVars
  <2> QED
    BY <2>4, <2>5
<1>6. ASSUME NEW s \in Session, Moves(s)
      PROVE  HoldsRow' /\ LockedDrafts'
  BY <1>1, <1>6 DEF Moves, FulfillLine, LookupMiss, InsertConflict, stockVars,
     TypeInv, TypeOK, Transaction
<1>7. ASSUME NEW s \in Session, Post(s)
      PROVE  HoldsRow' /\ LockedDrafts'
  <2>1. tx[s].pc = "holding" /\ CurrentSlot(s) \in Slot /\ lock[CurrentSlot(s)] = s
    BY <1>7, CurrentSlotType DEF Post, HoldsRow
  <2>2. \A o \in Session : tx'[o] = IF o = s THEN AfterLine(tx[s]) ELSE tx[o]
    BY <1>7 DEF Post, TypeInv, TypeOK
  <2>3. AfterLine(tx[s]).pc # "holding"
    BY <2>1 DEF AfterLine, TypeInv, TypeOK, Transaction
  <2>4. HoldsRow'
    BY <1>7, <2>2, <2>3 DEF Post, HoldsRow, CurrentSlot, CurrentLine
  <2>5. DraftOf(s).resulting = quantity[CurrentSlot(s)] + DraftOf(s).delta
    <3>1. quantity[CurrentSlot(s)] \in Nat /\ Resulting(s) \in Nat
      BY <1>7, <2>1, LedgerConstants DEF Post, Accepted, TypeInv, TypeOK
    <3> QED
      BY <3>1 DEF DraftOf
  <2>6. LockedDrafts'
    BY <1>7, <2>1, <2>5 DEF Post, LockedDrafts, TypeInv, TypeOK, stockVars
  <2> QED
    BY <2>4, <2>6
<1>8. ASSUME NEW s \in Session, Commit(s)
      PROVE  HoldsRow' /\ LockedDrafts'
  <2>1. \A o \in Session : tx'[o] = IF o = s THEN Idle ELSE tx[o]
    BY <1>8 DEF Commit, TypeInv, TypeOK
  <2>2. HoldsRow'
    BY <1>8, <2>1, CurrentSlotType
       DEF Commit, HoldsRow, CurrentSlot, CurrentLine, Unlocked, Idle
  <2>3. ASSUME NEW o \in Session, NEW x \in Slot, draft'[o][x] # None
        PROVE  lock'[x] = o /\ draft'[o][x].resulting = quantity'[x] + draft'[o][x].delta
    <3>1. o # s /\ draft'[o] = draft[o]
      BY <1>8, <2>3 DEF Commit, NoDrafts, TypeInv, TypeOK
    <3>2. lock[x] = o /\ draft[o][x].resulting = quantity[x] + draft[o][x].delta
      BY <2>3, <3>1 DEF LockedDrafts
    <3>3. x \notin Posted(s)
      BY <3>1, <3>2 DEF LockedDrafts, Posted
    <3>4. quantity'[x] = quantity[x] /\ lock'[x] = lock[x]
      BY <1>8, <3>1, <3>2, <3>3 DEF Commit, Unlocked
    <3> QED
      BY <3>1, <3>2, <3>4
  <2> QED
    BY <2>2, <2>3 DEF LockedDrafts
<1>9. ASSUME NEW s \in Session,
             CommitCreateShelf(s) \/ CollectAlerts(s) \/ CommitRetirement(s)
      PROVE  HoldsRow' /\ LockedDrafts'
  BY <1>1, <1>9 DEF CommitCreateShelf, CollectAlerts, CommitRetirement, stockVars,
     TypeInv, TypeOK, Idle, Transaction
<1>10. ASSUME NEW i \in Item, NEW m \in Threshold, UpdateMinQuantity(i, m)
       PROVE  HoldsRow' /\ LockedDrafts'
  BY <1>1, <1>10 DEF UpdateMinQuantity, stockVars
<1>11. CASE UNCHANGED vars
  BY <1>1, <1>11 DEF vars
<1> QED
  BY <1>3, <1>4, <1>5, <1>6, <1>7, <1>8, <1>9, <1>10, <1>11, NextCases DEF Rolls

LEMMA LockInit == Init => LockInv
<1>1. Init => HoldsRow
  BY DEF Init, HoldsRow, Idle
<1>2. Init => LockedDrafts
  BY DEF Init, LockedDrafts, NoDrafts
<1> QED
  BY <1>1, <1>2, TypeInit DEF LockInv

(* Two sessions never work on one placement at a time: whatever is flushed    *)
(* but not committed was computed, by the holder of the row lock, from the    *)
(* quantity that is still the committed one.                                  *)
THEOREM DraftsAreLocked == Spec => []LockedDrafts
<1>1. LockInv => LockedDrafts
  BY DEF LockInv
<1> QED
  BY <1>1, LockInit, LockStep, PTL DEF Spec

(* A commit of s, slot by slot: the entry appended, the quantity it leaves.   *)
LEMMA CommitSlot ==
    ASSUME LockInv, NEW s \in Session, Commit(s), NEW x \in Slot
    PROVE  IF x \in Posted(s)
           THEN /\ x \in placed'
                /\ movements'[x] = Append(movements[x],
                                     [type |-> draft[s][x].type,
                                      delta |-> draft[s][x].delta,
                                      resulting |-> draft[s][x].resulting])
                /\ quantity'[x] = draft[s][x].resulting
                /\ draft[s][x] \in Draft
                /\ draft[s][x].resulting = quantity[x] + draft[s][x].delta
           ELSE quantity'[x] = quantity[x] /\ movements'[x] = movements[x]
<1>1. CASE x \in Posted(s)
  <2>1. draft[s][x] \in Draft /\ draft[s][x] # None
    BY <1>1 DEF LockInv, TypeInv, TypeOK, Posted
  <2>2. draft[s][x].resulting = quantity[x] + draft[s][x].delta
    BY <2>1 DEF LockInv, LockedDrafts
  <2> QED
    BY <1>1, <2>1, <2>2 DEF Commit
<1>2. CASE x \notin Posted(s)
  BY <1>2 DEF Commit
<1> QED
  BY <1>1, <1>2

(* Only a commit touches the ledger.                                          *)
LEMMA OnlyCommitMoves ==
    ASSUME [Next]_vars, \A s \in Session : ~Commit(s)
    PROVE  UNCHANGED <<placed, quantity, movements>>
<1>1. CASE Next
  <2>1. ASSUME NEW s \in Session, BeginStock(s) \/ BeginAdmin(s) \/ BeginAnyFulfill(s)
        PROVE  UNCHANGED <<placed, quantity, movements>>
    BY <2>1 DEF BeginStock, BeginAdmin, BeginAnyFulfill, BeginReceive, BeginIssue,
       BeginAdjust, BeginFulfill, BeginCreateShelf, BeginRetireShelf,
       BeginRetireWarehouse, BeginRetireItem, Start, stockVars
  <2>2. ASSUME NEW s \in Session, Rolls(s) \/ TakeLock(s) \/ Moves(s) \/ Post(s)
        PROVE  UNCHANGED <<placed, quantity, movements>>
    BY <2>2 DEF Rolls, Rollback, TakeLock, LockRow, LookupHit, InsertRow, Acquire,
       Moves, FulfillLine, LookupMiss, InsertConflict, Post, stockVars
  <2>3. ASSUME NEW s \in Session,
               CommitCreateShelf(s) \/ CollectAlerts(s) \/ CommitRetirement(s)
        PROVE  UNCHANGED <<placed, quantity, movements>>
    BY <2>3 DEF CommitCreateShelf, CollectAlerts, CommitRetirement, stockVars
  <2>4. ASSUME NEW i \in Item, NEW m \in Threshold, UpdateMinQuantity(i, m)
        PROVE  UNCHANGED <<placed, quantity, movements>>
    BY <2>4 DEF UpdateMinQuantity, stockVars
  <2> QED
    BY <1>1, <2>1, <2>2, <2>3, <2>4, NextCases
<1>2. CASE UNCHANGED vars
  BY <1>2 DEF vars
<1> QED
  BY <1>1, <1>2

LEMMA LedgerStep == LockInv /\ LedgerBalanced /\ [Next]_vars => LedgerBalanced'
<1> SUFFICES ASSUME LockInv, LedgerBalanced, [Next]_vars PROVE LedgerBalanced'
  OBVIOUS
<1>1. CASE \A s \in Session : ~Commit(s)
  BY <1>1, OnlyCommitMoves DEF LedgerBalanced
<1>2. ASSUME NEW s \in Session, Commit(s), NEW x \in Slot
      PROVE  LET m == movements'[x]
                 n == Len(m)
             IN  /\ quantity'[x] = IF n = 0 THEN 0 ELSE m[n].resulting
                 /\ \A k \in 1..n :
                      m[k].resulting = m[k].delta + (IF k = 1 THEN 0 ELSE m[k-1].resulting)
                 /\ x \notin placed' => n = 0
  <2>1. CASE x \in Posted(s)
    <3> DEFINE e == [type |-> draft[s][x].type, delta |-> draft[s][x].delta,
                     resulting |-> draft[s][x].resulting]
    <3>1. /\ x \in placed'
          /\ movements'[x] = Append(movements[x], e)
          /\ quantity'[x] = e.resulting
          /\ e.resulting = quantity[x] + e.delta
      BY <1>2, <2>1, CommitSlot
    <3>2. movements[x] \in Seq(Movement) /\ Len(movements[x]) \in Nat
      BY DEF LockInv, TypeInv, TypeOK
    <3>2a. quantity[x] \in Int /\ e.delta \in Int /\ e \in Movement
      <4>1. draft[s][x] \in Draft
        BY <1>2, <2>1, CommitSlot
      <4>2. quantity[x] \in Int
        BY LedgerConstants DEF LockInv, TypeInv, TypeOK
      <4> QED
        BY <4>1, <4>2, LedgerConstants DEF Draft, Movement
    <3> HIDE DEF e
    <3>3. /\ Len(movements'[x]) = Len(movements[x]) + 1
          /\ movements'[x][Len(movements[x]) + 1] = e
          /\ \A k \in 1..Len(movements[x]) : movements'[x][k] = movements[x][k]
      <4> DEFINE a == Append(movements[x], e)
      <4>1. /\ Len(a) = Len(movements[x]) + 1
            /\ a[Len(movements[x]) + 1] = e
            /\ \A k \in 1..Len(movements[x]) : a[k] = movements[x][k]
        BY <3>2, <3>2a, AppendProperties
      <4>2. movements'[x] = a
        BY <3>1
      <4> HIDE DEF a
      <4> QED
        BY <4>1, <4>2
    <3>4. /\ quantity[x] = IF Len(movements[x]) = 0 THEN 0
                           ELSE movements[x][Len(movements[x])].resulting
          /\ \A k \in 1..Len(movements[x]) :
               movements[x][k].resulting = movements[x][k].delta
                 + (IF k = 1 THEN 0 ELSE movements[x][k-1].resulting)
      BY DEF LedgerBalanced
    <3>5. ASSUME NEW k \in 1..Len(movements'[x])
          PROVE  movements'[x][k].resulting = movements'[x][k].delta
                   + (IF k = 1 THEN 0 ELSE movements'[x][k-1].resulting)
      <4>1. CASE k \in 1..Len(movements[x])
        <5>1. movements'[x][k] = movements[x][k]
          BY <3>3, <4>1
        <5>2. k # 1 => k - 1 \in 1..Len(movements[x])
          BY <3>2, <4>1
        <5>3. k # 1 => movements'[x][k-1] = movements[x][k-1]
          BY <3>3, <5>2
        <5> QED
          BY <3>4, <4>1, <5>1, <5>3
      <4>2. CASE k = Len(movements[x]) + 1
        <5>1. e.resulting = e.delta + quantity[x]
          BY <3>1, <3>2a
        <5>2. CASE k = 1
          BY <3>2, <3>3, <3>4, <4>2, <5>1, <5>2
        <5>3. CASE k # 1
          BY <3>2, <3>3, <3>4, <4>2, <5>1, <5>3
        <5> QED
          BY <5>2, <5>3
      <4> QED
        BY <3>2, <3>3, <4>1, <4>2
    <3> QED
      BY <3>1, <3>2, <3>3, <3>5
  <2>2. CASE x \notin Posted(s)
    BY <1>2, <2>2, CommitSlot DEF LedgerBalanced, Commit
  <2> QED
    BY <2>1, <2>2
<1> QED
  BY <1>1, <1>2 DEF LedgerBalanced

LedgerInv == LockInv /\ LedgerBalanced

(* The movements of a placement always add up, one after the other, to the    *)
(* quantity on its shelf, for any number of concurrent requests.              *)
THEOREM LedgerAlwaysBalanced == Spec => []LedgerBalanced
<1>1. Init => LedgerBalanced
  BY DEF Init, LedgerBalanced
<1>2. Init => LedgerInv
  BY <1>1, LockInit DEF LedgerInv
<1>3. LedgerInv /\ [Next]_vars => LedgerInv'
  BY LockStep, LedgerStep DEF LedgerInv
<1>4. LedgerInv => LedgerBalanced
  BY DEF LedgerInv
<1> QED
  BY <1>2, <1>3, <1>4, PTL DEF Spec

-----------------------------------------------------------------------------
(* The ledger implements the stock book *)

(* Only Post writes a draft, for the current slot of its request.             *)
LEMMA DraftStep ==
    ASSUME TypeInv, [Next]_vars, NEW s \in Session, NEW x \in Slot, draft'[s][x] # None
    PROVE  \/ draft'[s][x] = draft[s][x]
           \/ Post(s) /\ x = CurrentSlot(s) /\ draft'[s][x] = DraftOf(s)
<1> DEFINE G == \/ draft'[s][x] = draft[s][x]
                \/ Post(s) /\ x = CurrentSlot(s) /\ draft'[s][x] = DraftOf(s)
<1> SUFFICES G
  OBVIOUS
<1>1. CASE Next
  <2>1. ASSUME NEW o \in Session, BeginStock(o) \/ BeginAdmin(o) \/ BeginAnyFulfill(o)
        PROVE  G
    BY <2>1 DEF BeginStock, BeginAdmin, BeginAnyFulfill, BeginReceive, BeginIssue,
       BeginAdjust, BeginFulfill, BeginCreateShelf, BeginRetireShelf,
       BeginRetireWarehouse, BeginRetireItem, Start
  <2>2. ASSUME NEW o \in Session, Rolls(o) \/ Commit(o)
        PROVE  G
    <3>1. draft' = [draft EXCEPT ![o] = NoDrafts]
      BY <2>2 DEF Rolls, Rollback, Commit
    <3>2. NoDrafts[x] = None /\ draft \in [Session -> [Slot -> Draft \cup {None}]]
      BY DEF NoDrafts, TypeInv, TypeOK
    <3>3. s # o
      BY <3>1, <3>2
    <3> QED
      BY <3>1, <3>2, <3>3
  <2>3. ASSUME NEW o \in Session, TakeLock(o) \/ Moves(o)
        PROVE  G
    BY <2>3 DEF TakeLock, LockRow, LookupHit, InsertRow, Acquire,
       Moves, FulfillLine, LookupMiss, InsertConflict
  <2>4. ASSUME NEW o \in Session, Post(o)
        PROVE  G
    BY <2>4 DEF Post, TypeInv, TypeOK
  <2>5. ASSUME NEW o \in Session,
               CommitCreateShelf(o) \/ CollectAlerts(o) \/ CommitRetirement(o)
        PROVE  G
    BY <2>5 DEF CommitCreateShelf, CollectAlerts, CommitRetirement
  <2>6. ASSUME NEW i \in Item, NEW m \in Threshold, UpdateMinQuantity(i, m)
        PROVE  G
    BY <2>6 DEF UpdateMinQuantity
  <2> HIDE DEF G
  <2> QED
    BY <1>1, <2>1, <2>2, <2>3, <2>4, <2>5, <2>6, NextCases
<1>2. CASE UNCHANGED vars
  BY <1>2 DEF vars
<1> QED
  BY <1>1, <1>2

(* The sign of an uncommitted movement fits its type.                         *)
DraftKinds ==
    \A s \in Session, x \in Slot :
        draft[s][x] # None => Book!KindFits(draft[s][x])

LEMMA KindsStep == LockInv /\ DraftKinds /\ [Next]_vars => DraftKinds'
<1> SUFFICES ASSUME LockInv, DraftKinds, [Next]_vars,
                    NEW s \in Session, NEW x \in Slot, draft'[s][x] # None
             PROVE  Book!KindFits(draft'[s][x])
  BY DEF DraftKinds, Book!KindFits
<1> USE DEF LockInv
<1>1. CASE draft'[s][x] = draft[s][x]
  BY <1>1 DEF DraftKinds
<1>2. CASE Post(s) /\ x = CurrentSlot(s) /\ draft'[s][x] = DraftOf(s)
  <2>1. tx[s].pc = "holding" /\ Accepted(s)
    BY <1>2 DEF Post
  <2>2. /\ tx[s].op \in MovementType
        /\ CurrentLine(s).amount \in Nat
        /\ quantity[x] \in Nat
    BY <1>2, <2>1, CurrentSlotType, LedgerConstants DEF TypeInv, TypeOK
  <2>3. /\ DraftOf(s).type = tx[s].op
        /\ DraftOf(s).delta = Resulting(s) - quantity[x]
    BY <1>2 DEF DraftOf
  <2>4. Resulting(s) = CASE tx[s].op = "receive" -> quantity[x] + CurrentLine(s).amount
                         [] tx[s].op = "adjust"  -> CurrentLine(s).amount
                         [] OTHER                -> quantity[x] - CurrentLine(s).amount
    BY <1>2 DEF Resulting
  <2>5. tx[s].op = "adjust" => Resulting(s) # quantity[x]
    BY <1>2, <2>1 DEF Accepted
  <2>6. CASE tx[s].op = "receive"
    BY <1>2, <2>2, <2>3, <2>4, <2>6 DEF Book!KindFits
  <2>7. CASE tx[s].op = "issue"
    BY <1>2, <2>2, <2>3, <2>4, <2>7 DEF Book!KindFits
  <2>8. CASE tx[s].op = "fulfillment"
    BY <1>2, <2>2, <2>3, <2>4, <2>8 DEF Book!KindFits
  <2>9. CASE tx[s].op = "adjust"
    BY <1>2, <2>2, <2>3, <2>4, <2>5, <2>9 DEF Book!KindFits
  <2> QED
    BY <2>2, <2>6, <2>7, <2>8, <2>9 DEF MovementType
<1> QED
  BY <1>1, <1>2, DraftStep

LEMMA BookStep ==
    LockInv /\ DraftKinds /\ [Next]_vars => [Book!Next]_(Book!vars)
<1> SUFFICES ASSUME LockInv, DraftKinds, [Next]_vars PROVE [Book!Next]_(Book!vars)
  OBVIOUS
<1>1. CASE \A s \in Session : ~Commit(s)
  BY <1>1, OnlyCommitMoves DEF Book!vars
<1>2. ASSUME NEW s \in Session, Commit(s) PROVE [Book!Next]_(Book!vars)
  <2>1. Posted(s) \subseteq Slot
    BY DEF Posted
  <2>2. ASSUME NEW x \in Posted(s)
        PROVE  Book!Moved(x) /\ quantity'[x] \in 0..MaxQuantity
    <3> DEFINE e == [type |-> draft[s][x].type, delta |-> draft[s][x].delta,
                     resulting |-> draft[s][x].resulting]
    <3>1. /\ x \in Slot
          /\ draft[s][x] \in Draft
          /\ movements'[x] = Append(movements[x], e)
          /\ quantity'[x] = e.resulting
          /\ e.resulting = quantity[x] + e.delta
      BY <1>2, <2>1, CommitSlot
    <3>2. movements[x] \in Seq(Movement) /\ quantity[x] \in Int
      BY <3>1, LedgerConstants DEF LockInv, TypeInv, TypeOK
    <3>3. /\ e \in Movement /\ e.resulting \in 0..MaxQuantity /\ e.delta \in Int
      BY <3>1, LedgerConstants DEF Draft, Movement
    <3>4. Book!KindFits(e)
      <4>1. Book!KindFits(draft[s][x])
        BY <2>1 DEF DraftKinds, Posted
      <4> QED
        BY <4>1 DEF Book!KindFits
    <3> HIDE DEF e
    <3> DEFINE a == Append(movements[x], e)
    <3>5. /\ Len(a) = Len(movements[x]) + 1
          /\ a[Len(movements[x]) + 1] = e
          /\ \A k \in 1..Len(movements[x]) : a[k] = movements[x][k]
      BY <3>2, <3>3, AppendProperties
    <3>6. movements'[x] = a
      BY <3>1
    <3> HIDE DEF a
    <3>7. e.delta = quantity'[x] - quantity[x]
      BY <3>1, <3>2, <3>3
    <3> QED
      BY <3>1, <3>3, <3>4, <3>5, <3>6, <3>7 DEF Book!Moved
  <2>3. ASSUME NEW x \in Slot \ Posted(s) PROVE Book!Still(x)
    BY <1>2, <2>3, CommitSlot DEF Book!Still
  <2>4. Book!Post(Posted(s))
    BY <2>2, <2>3 DEF Book!Post
  <2>5. CASE Posted(s) # {}
    BY <2>1, <2>4, <2>5 DEF Book!Next
  <2>6. CASE Posted(s) = {}
    <3>1. \A x \in Slot : quantity'[x] = quantity[x] /\ movements'[x] = movements[x]
      BY <2>3, <2>6 DEF Book!Still
    <3>2. /\ quantity = [x \in Slot |-> quantity[x]]
          /\ movements = [x \in Slot |-> movements[x]]
          /\ quantity' = [x \in Slot |-> quantity'[x]]
          /\ movements' = [x \in Slot |-> movements'[x]]
      BY <1>2 DEF Commit, LockInv, TypeInv, TypeOK
    <3>3. quantity' = quantity /\ movements' = movements
      BY <3>1, <3>2
    <3> QED
      BY <3>3 DEF Book!vars
  <2> QED
    BY <2>5, <2>6
<1> QED
  BY <1>1, <1>2

(* The transactions, with their locks, savepoints and rollbacks, implement    *)
(* the stock book: a committed transaction is one posting, whole or not at    *)
(* all, and each posted quantity has its movement.                            *)
THEOREM LedgerImplementsBook == Spec => ImplementsBook
<1> DEFINE BookInv == LockInv /\ DraftKinds
<1>1. Init => BookInv
  BY LockInit DEF Init, DraftKinds, NoDrafts
<1>2. BookInv /\ [Next]_vars => BookInv'
  BY LockStep, KindsStep
<1>3. Init => Book!Init
  BY DEF Init, Book!Init
<1>4. BookInv /\ [Next]_vars => [Book!Next]_(Book!vars)
  BY BookStep
<1> HIDE DEF BookInv
<1> QED
  BY <1>1, <1>2, <1>3, <1>4, PTL DEF Spec, ImplementsBook, Book!Spec

-----------------------------------------------------------------------------
(* Low-stock alerts *)

(* The active alerts of a placement are the same alert, and a movement that   *)
(* is about to raise one holds the row of a placement without any.            *)
AlertInv ==
    /\ \A x \in Slot : \A m, n \in ActiveAlerts(x) : m = n
    /\ \A s \in Session, x \in Slot :
         draft[s][x] # None /\ draft[s][x].alert = "raise" => ActiveAlerts(x) = {}

(* Only a commit of a movement can add an active alert.                       *)
LEMMA AlertsShrink ==
    ASSUME TypeInv, [Next]_vars, \A s \in Session : ~Commit(s), NEW x \in Slot
    PROVE  ActiveAlerts(x)' \subseteq ActiveAlerts(x)
<1>0. ASSUME UNCHANGED alerts PROVE ActiveAlerts(x)' \subseteq ActiveAlerts(x)
  BY <1>0 DEF ActiveAlerts
<1>1. CASE Next
  <2>1. ASSUME NEW s \in Session, BeginStock(s) \/ BeginAdmin(s) \/ BeginAnyFulfill(s)
        PROVE  UNCHANGED alerts
    BY <2>1 DEF BeginStock, BeginAdmin, BeginAnyFulfill, BeginReceive, BeginIssue,
       BeginAdjust, BeginFulfill, BeginCreateShelf, BeginRetireShelf,
       BeginRetireWarehouse, BeginRetireItem, Start, stockVars
  <2>2. ASSUME NEW s \in Session, Rolls(s) \/ TakeLock(s) \/ Moves(s) \/ Post(s)
        PROVE  UNCHANGED alerts
    BY <2>2 DEF Rolls, Rollback, TakeLock, LockRow, LookupHit, InsertRow, Acquire,
       Moves, FulfillLine, LookupMiss, InsertConflict, Post, stockVars
  <2>3. ASSUME NEW s \in Session, CommitCreateShelf(s) \/ CollectAlerts(s)
        PROVE  UNCHANGED alerts
    BY <2>3 DEF CommitCreateShelf, CollectAlerts, stockVars
  <2>4. ASSUME NEW i \in Item, NEW m \in Threshold, UpdateMinQuantity(i, m)
        PROVE  UNCHANGED alerts
    BY <2>4 DEF UpdateMinQuantity, stockVars
  <2>5. ASSUME NEW s \in Session, CommitRetirement(s)
        PROVE  ActiveAlerts(x)' \subseteq ActiveAlerts(x)
    <3> DEFINE reason == IF tx[s].op = "retire_item" THEN "item_retired"
                                                     ELSE "placement_retired"
    <3>1. alerts'[x] = [n \in DOMAIN alerts[x] |->
                          IF <<x, n>> \in tx[s].found
                          THEN [alerts[x][n] EXCEPT !.status = reason]
                          ELSE alerts[x][n]]
      BY <2>5 DEF CommitRetirement
    <3>2. ASSUME NEW n \in DOMAIN alerts[x], alerts'[x][n].status = "active"
          PROVE  alerts[x][n].status = "active"
      <4>1. alerts[x][n] \in Alert
        BY ElementOfSeq, LenProperties DEF TypeInv, TypeOK
      <4>2. [alerts[x][n] EXCEPT !.status = reason].status = reason /\ reason # "active"
        BY <4>1 DEF Alert
      <4> HIDE DEF reason
      <4> QED
        BY <3>1, <3>2, <4>2
    <3> HIDE DEF reason
    <3> QED
      BY <3>1, <3>2 DEF ActiveAlerts
  <2> QED
    BY <1>0, <1>1, <2>1, <2>2, <2>3, <2>4, <2>5, NextCases
<1>2. CASE UNCHANGED vars
  BY <1>0, <1>2 DEF vars
<1> QED
  BY <1>1, <1>2

(* What a draft does to the active alerts of its slot.                        *)
LEMMA AlertsAfterActive ==
    ASSUME TypeOK, AlertInv, LedgerConstants, NEW s \in Session, NEW x \in Slot,
           draft[s][x] # None
    PROVE  LET as == AlertsAfter(x, draft[s][x])
           IN  \A m, n \in {k \in DOMAIN as : as[k].status = "active"} : m = n
<1> DEFINE d == draft[s][x]
<1>0. d \in Draft /\ alerts[x] \in Seq(Alert) /\ DOMAIN alerts[x] = 1..Len(alerts[x])
      /\ Len(alerts[x]) \in Nat
  BY LenProperties DEF TypeOK
<1> HIDE DEF d
<1>1. CASE d.alert = "raise"
  <2> DEFINE e == [at |-> d.resulting, threshold |-> d.min, status |-> "active"]
  <2> DEFINE as == Append(alerts[x], e)
  <2>1. e \in Alert
    BY <1>0 DEF Draft, Alert, AlertStatus, LedgerConstants
  <2>2. ActiveAlerts(x) = {}
    BY <1>1 DEF AlertInv, d
  <2> HIDE DEF e
  <2>3. /\ DOMAIN as = 1..(Len(alerts[x]) + 1)
        /\ \A k \in 1..Len(alerts[x]) : as[k] = alerts[x][k]
    <3>1. /\ as \in Seq(Alert) /\ Len(as) = Len(alerts[x]) + 1
          /\ \A k \in 1..Len(alerts[x]) : as[k] = alerts[x][k]
      BY <1>0, <2>1, AppendProperties
    <3> HIDE DEF as
    <3>2. DOMAIN as = 1..Len(as)
      BY <3>1, LenProperties
    <3> QED
      BY <3>1, <3>2
  <2>4. AlertsAfter(x, d) = as
    BY <1>1 DEF AlertsAfter, e
  <2> HIDE DEF as
  <2>5. ASSUME NEW k \in DOMAIN as, as[k].status = "active"
        PROVE  k = Len(alerts[x]) + 1
    <3>1. ASSUME k \in 1..Len(alerts[x]) PROVE FALSE
      <4>1. alerts[x][k].status = "active" /\ k \in DOMAIN alerts[x]
        BY <1>0, <2>3, <2>5, <3>1
      <4> QED
        BY <2>2, <4>1 DEF ActiveAlerts
    <3>2. k \in 1..(Len(alerts[x]) + 1)
      BY <2>3
    <3> QED
      BY <1>0, <3>1, <3>2
  <2> QED
    BY <2>4, <2>5 DEF d
<1>2. CASE d.alert = "recover"
  <2> DEFINE as == [alerts[x] EXCEPT ![d.no].status = "recovered"]
  <2>1. AlertsAfter(x, d) = as
    BY <1>2 DEF AlertsAfter
  <2>2. ASSUME NEW k \in DOMAIN as, as[k].status = "active"
        PROVE  k \in ActiveAlerts(x)
    <3>1. alerts[x][k] \in Alert /\ k \in DOMAIN alerts[x]
      BY <1>0, ElementOfSeq
    <3>2. as[k] = IF k = d.no THEN [alerts[x][k] EXCEPT !.status = "recovered"]
                              ELSE alerts[x][k]
      BY <3>1
    <3>3. [alerts[x][k] EXCEPT !.status = "recovered"].status = "recovered"
      BY <3>1 DEF Alert
    <3> HIDE DEF as
    <3> QED
      BY <2>2, <3>1, <3>2, <3>3 DEF ActiveAlerts
  <2> HIDE DEF as
  <2> QED
    BY <2>1, <2>2 DEF AlertInv, d
<1>3. CASE d.alert = "keep"
  <2>1. AlertsAfter(x, d) = alerts[x]
    BY <1>3 DEF AlertsAfter
  <2> QED
    BY <2>1 DEF AlertInv, ActiveAlerts, d
<1> QED
  BY <1>0, <1>1, <1>2, <1>3 DEF Draft

LEMMA AlertStep == LockInv /\ AlertInv /\ [Next]_vars => AlertInv'
<1> SUFFICES ASSUME LockInv, AlertInv, [Next]_vars PROVE AlertInv'
  OBVIOUS
<1>1. ASSUME NEW x \in Slot PROVE \A m, n \in ActiveAlerts(x)' : m = n
  <2>1. CASE \A s \in Session : ~Commit(s)
    BY <2>1, AlertsShrink DEF AlertInv, LockInv
  <2>2. ASSUME NEW s \in Session, Commit(s) PROVE \A m, n \in ActiveAlerts(x)' : m = n
    <3>1. CASE x \in Posted(s)
      <4>1. alerts'[x] = AlertsAfter(x, draft[s][x]) /\ draft[s][x] # None
        BY <2>2, <3>1 DEF Commit, Posted
      <4> QED
        BY <4>1, AlertsAfterActive, LedgerConstants DEF LockInv, TypeInv, ActiveAlerts
    <3>2. CASE x \notin Posted(s)
      BY <2>2, <3>2 DEF Commit, AlertInv, ActiveAlerts
    <3> QED
      BY <3>1, <3>2
  <2> QED
    BY <2>1, <2>2
<1>2. ASSUME NEW s \in Session, NEW x \in Slot,
             draft'[s][x] # None, draft'[s][x].alert = "raise"
      PROVE  ActiveAlerts(x)' = {}
  <2>1. ActiveAlerts(x) = {}
    <3>1. CASE draft'[s][x] = draft[s][x]
      BY <1>2, <3>1 DEF AlertInv
    <3>2. CASE Post(s) /\ x = CurrentSlot(s) /\ draft'[s][x] = DraftOf(s)
      <4>1. AlertDecision(s, x, Resulting(s)).alert = "raise"
        BY <1>2, <3>2 DEF DraftOf
      <4> QED
        BY <4>1 DEF AlertDecision
    <3> QED
      BY <1>2, <3>1, <3>2, DraftStep DEF LockInv
  <2>2. CASE \A o \in Session : ~Commit(o)
    BY <2>1, <2>2, AlertsShrink DEF LockInv
  <2>3. ASSUME NEW o \in Session, Commit(o) PROVE ActiveAlerts(x)' = {}
    <3>1. lock'[x] = s
      BY <1>2, LockStep DEF LockInv, LockedDrafts
    <3>2. lock'[x] = IF lock[x] = o THEN None ELSE lock[x]
      BY <2>3 DEF Commit, Unlocked
    <3>3. o # s /\ lock[x] = s
      BY <3>1, <3>2, LedgerConstants
    <3>4. x \notin Posted(o)
      BY <3>3 DEF Posted, LockInv, LockedDrafts
    <3> QED
      BY <2>1, <2>3, <3>4 DEF Commit, ActiveAlerts
  <2> QED
    BY <2>2, <2>3
<1> QED
  BY <1>1, <1>2 DEF AlertInv

(* No interleaving of movements and retirements leaves a placement with two   *)
(* active alerts.                                                             *)
THEOREM AtMostOneActiveAlert == Spec => []OneActiveAlert
<1> DEFINE Inv == LockInv /\ AlertInv
<1>1. Init => AlertInv
  BY DEF Init, AlertInv, ActiveAlerts, NoDrafts
<1>2. Init => Inv
  BY <1>1, LockInit
<1>3. Inv /\ [Next]_vars => Inv'
  BY LockStep, AlertStep
<1>4. Inv => OneActiveAlert
  <2> SUFFICES ASSUME AlertInv, NEW x \in Slot PROVE Cardinality(ActiveAlerts(x)) <= 1
    BY DEF OneActiveAlert
  <2>1. CASE ActiveAlerts(x) = {}
    <3>1. Cardinality(ActiveAlerts(x)) = 0
      BY <2>1, FS_EmptySet
    <3> QED
      BY <3>1
  <2>2. CASE ActiveAlerts(x) # {}
    <3>1. PICK n \in ActiveAlerts(x) : TRUE
      BY <2>2
    <3>2. ActiveAlerts(x) = {n}
      BY <3>1 DEF AlertInv
    <3>3. Cardinality(ActiveAlerts(x)) = 1
      BY <3>2, FS_Singleton
    <3> QED
      BY <3>3
  <2> QED
    BY <2>1, <2>2
<1> HIDE DEF Inv
<1> QED
  BY <1>2, <1>3, <1>4, PTL DEF Spec

-----------------------------------------------------------------------------
(* Deadlocks *)

MovePc == {"line", "lookup", "insert", "lock", "holding", "posted"}

(* A session holds no row unless its request is past a row lock, and only a   *)
(* fulfilment, which has further lines, holds one while it asks for another.  *)
NoRow(s) == \A x \in Slot : lock[x] # s

HoldsSound(s) ==
    /\ tx[s].pc \in {"idle", "creating", "retiring", "resolving"} => NoRow(s)
    /\ tx[s].pc \in MovePc /\ tx[s].op # "fulfillment" =>
           tx[s].pc # "line" /\ tx[s].k = Len(tx[s].lines)
    /\ tx[s].pc \in {"lookup", "insert", "lock"} /\ tx[s].op # "fulfillment" => NoRow(s)

HoldsInv == \A s \in Session : HoldsSound(s)

LEMMA HoldsKept ==
    ASSUME NEW o \in Session, HoldsSound(o), tx'[o] = tx[o],
           \A x \in Slot : lock'[x] = o => lock[x] = o
    PROVE  HoldsSound(o)'
BY DEF HoldsSound, NoRow

(* A request ends with no row held.                                           *)
LEMMA HoldsEnd ==
    ASSUME TypeInv, HoldsInv, NEW s \in Session, lock' = Unlocked(s),
           tx' = [tx EXCEPT ![s] = Idle]
    PROVE  HoldsInv'
<1>1. \A o \in Session : \A x \in Slot : lock'[x] = o => lock[x] = o /\ o # s
  BY LedgerConstants DEF Unlocked
<1>2. tx'[s] = Idle /\ \A o \in Session \ {s} : tx'[o] = tx[o]
  BY DEF TypeInv, TypeOK
<1>3. HoldsSound(s)'
  BY <1>1, <1>2 DEF HoldsSound, NoRow, Idle, MovePc
<1>4. ASSUME NEW o \in Session \ {s} PROVE HoldsSound(o)'
  BY <1>1, <1>2, HoldsKept DEF HoldsInv
<1> QED
  BY <1>3, <1>4 DEF HoldsInv

(* A step that leaves the locks alone.                                        *)
LEMMA HoldsOn ==
    ASSUME TypeInv, HoldsInv, NEW s \in Session, lock' = lock, NEW r,
           tx' = [tx EXCEPT ![s] = r],
           r.pc \in {"idle", "creating", "retiring", "resolving"} => NoRow(s),
           r.pc \in MovePc /\ r.op # "fulfillment" => r.pc # "line" /\ r.k = Len(r.lines),
           r.pc \in {"lookup", "insert", "lock"} /\ r.op # "fulfillment" => NoRow(s)
    PROVE  HoldsInv'
<1>1. tx'[s] = r /\ \A o \in Session \ {s} : tx'[o] = tx[o]
  BY DEF TypeInv, TypeOK
<1>2. HoldsSound(s)'
  BY <1>1 DEF HoldsSound, NoRow
<1>3. ASSUME NEW o \in Session \ {s} PROVE HoldsSound(o)'
  BY <1>1, HoldsKept DEF HoldsInv
<1> QED
  BY <1>2, <1>3 DEF HoldsInv

LEMMA HoldsStep == TypeInv /\ HoldsInv /\ [Next]_vars => HoldsInv'
<1> SUFFICES ASSUME TypeInv, HoldsInv, [Next]_vars PROVE HoldsInv'
  OBVIOUS
<1>1. ASSUME NEW s \in Session, BeginStock(s) \/ BeginAdmin(s) \/ BeginAnyFulfill(s)
      PROVE  HoldsInv'
  <2>1. ASSUME NEW r, Start(s, r),
               \/ r.pc \in {"lookup", "lock"} /\ r.k = Len(r.lines)
               \/ r.pc = "line" /\ r.op = "fulfillment"
               \/ r.pc \in {"creating", "retiring"}
        PROVE  HoldsInv'
    <3>1. NoRow(s)
      BY <2>1 DEF Start, HoldsInv, HoldsSound
    <3>2. lock' = lock /\ tx' = [tx EXCEPT ![s] = r]
      BY <2>1 DEF Start
    <3> QED
      BY <2>1, <3>1, <3>2, HoldsOn DEF MovePc
  <2>2. ASSUME NEW op, NEW pc \in {"lookup", "lock"}, NEW x \in Slot, NEW a,
               Start(s, StockRequest(op, pc, <<[slot |-> x, amount |-> a]>>))
        PROVE  HoldsInv'
    <3>1. PICK r : r = StockRequest(op, pc, <<[slot |-> x, amount |-> a]>>)
      OBVIOUS
    <3>2. r.pc = pc /\ r.k = 1 /\ r.lines = <<[slot |-> x, amount |-> a]>>
      BY <3>1 DEF StockRequest
    <3> QED
      BY <2>1, <2>2, <3>1, <3>2
  <2>3. ASSUME NEW lines, Start(s, StockRequest("fulfillment", "line", lines))
        PROVE  HoldsInv'
    <3>1. PICK r : r = StockRequest("fulfillment", "line", lines)
      OBVIOUS
    <3>2. r.pc = "line" /\ r.op = "fulfillment"
      BY <3>1 DEF StockRequest
    <3> QED
      BY <2>1, <2>3, <3>1, <3>2
  <2>4. ASSUME NEW op, NEW pc \in {"creating", "retiring"}, NEW target,
               Start(s, AdminRequest(op, pc, target))
        PROVE  HoldsInv'
    <3>1. PICK r : r = AdminRequest(op, pc, target)
      OBVIOUS
    <3>2. r.pc = pc
      BY <3>1 DEF AdminRequest
    <3> QED
      BY <2>1, <2>4, <3>1, <3>2
  <2>5. CASE BeginStock(s)
    BY <2>2, <2>5 DEF BeginStock, BeginReceive, BeginIssue, BeginAdjust
  <2>6. CASE BeginAdmin(s)
    BY <2>4, <2>6 DEF BeginAdmin, BeginCreateShelf, BeginRetireShelf,
       BeginRetireWarehouse, BeginRetireItem
  <2>7. CASE BeginAnyFulfill(s)
    BY <2>3, <2>7 DEF BeginAnyFulfill, BeginFulfill
  <2> QED
    BY <1>1, <2>5, <2>6, <2>7
<1>2. ASSUME NEW s \in Session, Rolls(s) \/ Commit(s)
      PROVE  HoldsInv'
  BY <1>2, HoldsEnd DEF Rolls, Rollback, Commit
<1>3. ASSUME NEW s \in Session, TakeLock(s)
      PROVE  HoldsInv'
  <2>1. /\ lock' = [lock EXCEPT ![CurrentSlot(s)] = s]
        /\ tx' = [tx EXCEPT ![s].pc = "holding"]
        /\ tx[s].pc \in {"lookup", "insert", "lock"}
    BY <1>3 DEF TakeLock, LockRow, LookupHit, InsertRow, Acquire
  <2>2. /\ tx'[s].pc = "holding" /\ tx'[s].op = tx[s].op /\ tx'[s].k = tx[s].k
        /\ tx'[s].lines = tx[s].lines
        /\ \A o \in Session \ {s} : tx'[o] = tx[o]
    BY <2>1 DEF TypeInv, TypeOK, Transaction
  <2>3. HoldsSound(s)'
    BY <2>1, <2>2 DEF HoldsInv, HoldsSound, MovePc
  <2>4. ASSUME NEW o \in Session \ {s} PROVE HoldsSound(o)'
    <3>1. \A x \in Slot : lock'[x] = o => lock[x] = o
      BY <2>1, <2>4 DEF TypeInv, TypeOK
    <3> QED
      BY <2>2, <3>1, HoldsKept DEF HoldsInv
  <2> QED
    BY <2>3, <2>4 DEF HoldsInv
<1>4. ASSUME NEW s \in Session, Moves(s)
      PROVE  HoldsInv'
  <2>1. PICK pc : /\ tx' = [tx EXCEPT ![s].pc = pc] /\ lock' = lock
                  /\ \/ tx[s].pc = "line" /\ pc = "lock"
                     \/ tx[s].pc = "lookup" /\ pc = "insert"
                     \/ tx[s].pc = "insert" /\ pc = "lock"
    BY <1>4 DEF Moves, FulfillLine, LookupMiss, InsertConflict
  <2>2. PICK r : r = [tx[s] EXCEPT !.pc = pc]
    OBVIOUS
  <2>3. r.pc = pc /\ r.op = tx[s].op /\ r.k = tx[s].k /\ r.lines = tx[s].lines
    BY <2>2 DEF TypeInv, TypeOK, Transaction
  <2>4. tx' = [tx EXCEPT ![s] = r]
    BY <2>1, <2>2
  <2>5. HoldsSound(s)
    BY DEF HoldsInv
  <2> QED
    BY <2>1, <2>3, <2>4, <2>5, HoldsOn DEF HoldsSound, MovePc
<1>5. ASSUME NEW s \in Session, Post(s)
      PROVE  HoldsInv'
  <2>1. PICK r : r = AfterLine(tx[s])
    OBVIOUS
  <2>2. tx' = [tx EXCEPT ![s] = r] /\ lock' = lock /\ tx[s].pc = "holding"
    BY <1>5, <2>1 DEF Post
  <2>3. tx[s] \in Transaction
    BY DEF TypeInv, TypeOK
  <2>4. CASE tx[s].k < Len(tx[s].lines)
    <3>1. r.pc = "line" /\ r.op = tx[s].op
      BY <2>1, <2>3, <2>4 DEF AfterLine, Transaction
    <3>2. tx[s].op = "fulfillment"
      BY <2>2, <2>3, <2>4 DEF HoldsInv, HoldsSound, MovePc, Transaction
    <3> QED
      BY <2>2, <3>1, <3>2, HoldsOn
  <2>5. CASE ~(tx[s].k < Len(tx[s].lines))
    <3>1. r.pc = "posted" /\ r.op = tx[s].op /\ r.k = tx[s].k /\ r.lines = tx[s].lines
      BY <2>1, <2>3, <2>5 DEF AfterLine, Transaction
    <3>2. tx[s].op # "fulfillment" => tx[s].k = Len(tx[s].lines)
      BY <2>2 DEF HoldsInv, HoldsSound, MovePc
    <3> QED
      BY <2>2, <3>1, <3>2, HoldsOn
  <2> QED
    BY <2>4, <2>5
<1>6. ASSUME NEW s \in Session,
             CommitCreateShelf(s) \/ CollectAlerts(s) \/ CommitRetirement(s)
      PROVE  HoldsInv'
  <2>1. /\ lock' = lock /\ tx[s].pc \in {"creating", "retiring", "resolving"}
        /\ \A o \in Session \ {s} : tx'[o] = tx[o]
        /\ tx'[s].pc \in {"idle", "resolving"}
    BY <1>6 DEF CommitCreateShelf, CollectAlerts, CommitRetirement, TypeInv, TypeOK,
       Idle, Transaction
  <2>2. HoldsSound(s)'
    BY <2>1 DEF HoldsInv, HoldsSound, NoRow, MovePc
  <2>3. ASSUME NEW o \in Session \ {s} PROVE HoldsSound(o)'
    BY <2>1, HoldsKept DEF HoldsInv
  <2> QED
    BY <2>2, <2>3 DEF HoldsInv
<1>7. ASSUME UNCHANGED <<lock, tx>> PROVE HoldsInv'
  BY <1>7, HoldsKept DEF HoldsInv
<1>8. ASSUME NEW i \in Item, NEW m \in Threshold, UpdateMinQuantity(i, m)
      PROVE  HoldsInv'
  BY <1>7, <1>8 DEF UpdateMinQuantity
<1>9. CASE UNCHANGED vars
  BY <1>7, <1>9 DEF vars
<1> QED
  BY <1>1, <1>2, <1>3, <1>4, <1>5, <1>6, <1>8, <1>9, NextCases

(* Requests that move one placement never wait in a circle: only fulfilments  *)
(* hold a row while they ask for another.                                     *)
THEOREM MovementsNeverDeadlock == Spec => []OnlyFulfillmentsDeadlock
<1> DEFINE Inv == TypeInv /\ HoldsInv
<1>1. Init => HoldsInv
  BY LedgerConstants DEF Init, HoldsInv, HoldsSound, NoRow, Idle, MovePc
<1>2. Init => Inv
  BY <1>1, TypeInit
<1>3. Inv /\ [Next]_vars => Inv'
  BY TypeStep, HoldsStep
<1>4. Inv => OnlyFulfillmentsDeadlock
  <2>1. ASSUME HoldsInv, NEW s \in Session, NEW x \in Slot, NEW y \in Slot,
               Waiting(s, x), lock[y] = s
        PROVE  tx[s].op = "fulfillment"
    BY <2>1 DEF HoldsInv, HoldsSound, NoRow, Waiting
  <2> QED
    BY <2>1 DEF OnlyFulfillmentsDeadlock, WaitCycle
<1> HIDE DEF Inv
<1> QED
  BY <1>2, <1>3, <1>4, PTL DEF Spec

-----------------------------------------------------------------------------
(* Alerts follow movements *)

(* The shelves of the lines a request has come to were created.               *)
ShelvesSeen(s) ==
    tx[s].pc \in MovePc =>
        \A j \in 1..(IF tx[s].pc = "line" THEN tx[s].k - 1 ELSE tx[s].k) :
            shelfState[tx[s].lines[j].slot[1]] # "absent"

(* A retirement resolves alerts of what it retires and of nothing else.       *)
FoundSound(s) ==
    tx[s].pc = "resolving" => \A f \in tx[s].found : f[1] \in Retired(s)

(* What a draft says of the alerts is still so, unless the placement has gone *)
(* out of service since.                                                      *)
AlertDecided(x, d) ==
    LET below == d.resulting < d.min
    IN  /\ d.alert = "raise" => below
        /\ d.alert = "recover" => ~below /\ ActiveAlerts(x) = {d.no}
        /\ d.alert = "keep" => (below <=> ActiveAlerts(x) # {})

FollowInv ==
    /\ \A s \in Session : ShelvesSeen(s) /\ FoundSound(s)
    /\ \A s \in Session, x \in Slot : draft[s][x] # None =>
           /\ shelfState[x[1]] # "absent"
           /\ InService(x) => AlertDecided(x, draft[s][x])

(* The shelf of a line a request has come to.                                 *)
LEMMA SeenType ==
    ASSUME TypeInv, NEW s \in Session, tx[s].pc \in MovePc, NEW j \in 1..tx[s].k
    PROVE  tx[s].lines[j].slot[1] \in Shelf /\ tx[s].k \in Nat \ {0}
<1>1. tx[s].k \in 1..Len(tx[s].lines) /\ tx[s].lines \in Seq(Line)
  BY DEF TypeInv, TypeOK, RequestShape, Transaction, MovePc
<1>2. tx[s].lines[j] \in Line
  BY <1>1
<1> QED
  BY <1>1, <1>2 DEF Line, Slot

(* What the catalogue's steps do: a shelf, once created, is never absent, and *)
(* nothing that exists comes back into service.                               *)
LEMMA CatalogSteps ==
    ASSUME TypeInv, [Next]_vars
    PROVE  \/ UNCHANGED <<itemLive, shelfState, warehouseLive>>
           \/ \E s \in Session : CommitCreateShelf(s) \/ CommitRetirement(s)
<1>1. CASE Next
  <2>1. ASSUME NEW s \in Session, BeginStock(s) \/ BeginAdmin(s) \/ BeginAnyFulfill(s)
        PROVE  UNCHANGED <<itemLive, shelfState, warehouseLive>>
    BY <2>1 DEF BeginStock, BeginAdmin, BeginAnyFulfill, BeginReceive, BeginIssue,
       BeginAdjust, BeginFulfill, BeginCreateShelf, BeginRetireShelf,
       BeginRetireWarehouse, BeginRetireItem, Start, catalogVars
  <2>2. ASSUME NEW s \in Session,
               Rolls(s) \/ TakeLock(s) \/ Moves(s) \/ Post(s) \/ Commit(s) \/ CollectAlerts(s)
        PROVE  UNCHANGED <<itemLive, shelfState, warehouseLive>>
    BY <2>2 DEF Rolls, Rollback, TakeLock, LockRow, LookupHit, InsertRow, Acquire,
       Moves, FulfillLine, LookupMiss, InsertConflict, Post, Commit, CollectAlerts, catalogVars
  <2>3. ASSUME NEW i \in Item, NEW m \in Threshold, UpdateMinQuantity(i, m)
        PROVE  UNCHANGED <<itemLive, shelfState, warehouseLive>>
    BY <2>3 DEF UpdateMinQuantity
  <2> QED
    BY <1>1, <2>1, <2>2, <2>3, NextCases
<1>2. CASE UNCHANGED vars
  BY <1>2 DEF vars
<1> QED
  BY <1>1, <1>2

LEMMA ServiceShrinks ==
    ASSUME TypeInv, [Next]_vars
    PROVE  /\ \A h \in Shelf : shelfState[h] # "absent" => shelfState'[h] # "absent"
           /\ \A x \in Slot : shelfState[x[1]] # "absent" /\ InService(x)' => InService(x)
<1>0. \A x \in Slot : x[1] \in Shelf /\ x[2] \in Item
  BY DEF Slot
<1>1. CASE UNCHANGED <<itemLive, shelfState, warehouseLive>>
  BY <1>1 DEF InService
<1>2. ASSUME NEW s \in Session, CommitCreateShelf(s)
      PROVE  /\ \A h \in Shelf : shelfState[h] # "absent" => shelfState'[h] = shelfState[h]
             /\ UNCHANGED <<itemLive, warehouseLive>>
  BY <1>2 DEF CommitCreateShelf, TypeInv, TypeOK
<1>3. ASSUME NEW s \in Session, CommitRetirement(s)
      PROVE  /\ \A h \in Shelf : shelfState'[h] \in {shelfState[h], "retired"}
             /\ itemLive' \subseteq itemLive /\ warehouseLive' \subseteq warehouseLive
  BY <1>3 DEF CommitRetirement, TypeInv, TypeOK
<1>4. ASSUME NEW s \in Session, CommitCreateShelf(s)
      PROVE  /\ \A h \in Shelf : shelfState[h] # "absent" => shelfState'[h] # "absent"
             /\ \A x \in Slot : shelfState[x[1]] # "absent" /\ InService(x)' => InService(x)
  BY <1>0, <1>2, <1>4 DEF InService
<1>5. ASSUME NEW s \in Session, CommitRetirement(s)
      PROVE  /\ \A h \in Shelf : shelfState[h] # "absent" => shelfState'[h] # "absent"
             /\ \A x \in Slot : shelfState[x[1]] # "absent" /\ InService(x)' => InService(x)
  BY <1>0, <1>3, <1>5 DEF InService
<1> QED
  BY <1>1, <1>4, <1>5, CatalogSteps

LEMMA SeenKept ==
    ASSUME TypeInv, [Next]_vars, NEW o \in Session, ShelvesSeen(o), FoundSound(o),
           tx'[o] = tx[o]
    PROVE  ShelvesSeen(o)' /\ FoundSound(o)'
<1>1. ASSUME tx[o].pc \in MovePc, NEW j \in 1..(IF tx[o].pc = "line" THEN tx[o].k - 1 ELSE tx[o].k)
      PROVE  shelfState'[tx[o].lines[j].slot[1]] # "absent"
  <2>1. tx[o].k \in Nat
    BY DEF TypeInv, TypeOK, Transaction
  <2>2. j \in 1..tx[o].k
    BY <1>1, <2>1
  <2> QED
    BY <1>1, <2>2, SeenType, ServiceShrinks DEF ShelvesSeen
<1>2. ShelvesSeen(o)'
  BY <1>1 DEF ShelvesSeen
<1>3. FoundSound(o)'
  BY DEF FoundSound, Retired
<1> QED
  BY <1>2, <1>3

(* The request of s takes a step of its own: what it has to have seen.        *)
LEMMA SeenOn ==
    ASSUME TypeInv, [Next]_vars, NEW s \in Session, NEW r,
           tx' = [tx EXCEPT ![s] = r], r.pc # "resolving",
           r.pc \in MovePc =>
               \A j \in 1..(IF r.pc = "line" THEN r.k - 1 ELSE r.k) :
                   r.lines[j].slot[1] \in Shelf /\ shelfState[r.lines[j].slot[1]] # "absent",
           \A o \in Session : ShelvesSeen(o) /\ FoundSound(o)
    PROVE  \A o \in Session : (ShelvesSeen(o) /\ FoundSound(o))'
<1>1. tx'[s] = r /\ \A o \in Session \ {s} : tx'[o] = tx[o]
  BY DEF TypeInv, TypeOK
<1>2. ShelvesSeen(s)' /\ FoundSound(s)'
  BY <1>1, ServiceShrinks DEF ShelvesSeen, FoundSound
<1>3. ASSUME NEW o \in Session \ {s} PROVE ShelvesSeen(o)' /\ FoundSound(o)'
  BY <1>1, SeenKept
<1> QED
  BY <1>2, <1>3

LEMMA SeenStep ==
    ASSUME TypeInv, [Next]_vars, \A o \in Session : ShelvesSeen(o) /\ FoundSound(o)
    PROVE  \A o \in Session : (ShelvesSeen(o) /\ FoundSound(o))'
<1> DEFINE Goal == \A o \in Session : (ShelvesSeen(o) /\ FoundSound(o))'
<1> SUFFICES Goal
  OBVIOUS
<1>0. ASSUME UNCHANGED tx PROVE Goal
  BY <1>0, SeenKept
<1> HIDE DEF Goal
<1>1. ASSUME NEW s \in Session, NEW r, tx' = [tx EXCEPT ![s] = r], r.pc # "resolving",
             r.pc \in MovePc =>
                 \A j \in 1..(IF r.pc = "line" THEN r.k - 1 ELSE r.k) :
                     r.lines[j].slot[1] \in Shelf /\ shelfState[r.lines[j].slot[1]] # "absent"
      PROVE  Goal
  BY <1>1, SeenOn DEF Goal
<1>2. ASSUME NEW s \in Session, BeginStock(s) \/ BeginAdmin(s) \/ BeginAnyFulfill(s)
      PROVE  Goal
  <2>1. ASSUME NEW op, NEW pc \in {"lookup", "lock"}, NEW x \in Slot, NEW a,
               shelfState[x[1]] = "active",
               Start(s, StockRequest(op, pc, <<[slot |-> x, amount |-> a]>>))
        PROVE  Goal
    <3>1. PICK r : r = StockRequest(op, pc, <<[slot |-> x, amount |-> a]>>)
      OBVIOUS
    <3>2. r.pc = pc /\ r.k = 1 /\ r.lines = <<[slot |-> x, amount |-> a]>>
      BY <3>1 DEF StockRequest
    <3>3. \A j \in 1..1 : r.lines[j].slot = x
      BY <3>2
    <3>4. x[1] \in Shelf /\ tx' = [tx EXCEPT ![s] = r]
      BY <2>1, <3>1 DEF Slot, Start
    <3> QED
      BY <1>1, <2>1, <3>2, <3>3, <3>4
  <2>2. ASSUME NEW lines, Start(s, StockRequest("fulfillment", "line", lines))
        PROVE  Goal
    <3>1. PICK r : r = StockRequest("fulfillment", "line", lines)
      OBVIOUS
    <3>2. r.pc = "line" /\ r.k = 1
      BY <3>1 DEF StockRequest
    <3>3. tx' = [tx EXCEPT ![s] = r]
      BY <2>2, <3>1 DEF Start
    <3>4. \A j : j \notin 1..(r.k - 1)
      BY <3>2
    <3> QED
      BY <1>1, <3>2, <3>3, <3>4
  <2>3. ASSUME NEW op, NEW pc \in {"creating", "retiring"}, NEW target,
               Start(s, AdminRequest(op, pc, target))
        PROVE  Goal
    <3>1. PICK r : r = AdminRequest(op, pc, target)
      OBVIOUS
    <3>2. r.pc = pc /\ tx' = [tx EXCEPT ![s] = r]
      BY <2>3, <3>1 DEF AdminRequest, Start
    <3> QED
      BY <1>1, <3>2 DEF MovePc
  <2>4. CASE BeginStock(s)
    BY <2>1, <2>4 DEF BeginStock, BeginReceive, BeginIssue, BeginAdjust, Bundle
  <2>5. CASE BeginAdmin(s)
    BY <2>3, <2>5 DEF BeginAdmin, BeginCreateShelf, BeginRetireShelf,
       BeginRetireWarehouse, BeginRetireItem
  <2>6. CASE BeginAnyFulfill(s)
    BY <2>2, <2>6 DEF BeginAnyFulfill, BeginFulfill
  <2> QED
    BY <1>2, <2>4, <2>5, <2>6
<1>3. ASSUME NEW s \in Session,
             Rolls(s) \/ Commit(s) \/ CommitCreateShelf(s) \/ CommitRetirement(s)
      PROVE  Goal
  <2>1. tx' = [tx EXCEPT ![s] = Idle]
    BY <1>3 DEF Rolls, Rollback, Commit, CommitCreateShelf, CommitRetirement
  <2>2. PICK r : r = Idle
    OBVIOUS
  <2>3. r.pc = "idle" /\ tx' = [tx EXCEPT ![s] = r]
    BY <2>1, <2>2 DEF Idle
  <2> QED
    BY <1>1, <2>3 DEF MovePc
<1>4. ASSUME NEW s \in Session, TakeLock(s) \/ Moves(s)
      PROVE  Goal
  <2>1. PICK pc : /\ tx' = [tx EXCEPT ![s].pc = pc]
                  /\ \/ FulfillLine(s) /\ pc = "lock"
                     \/ /\ tx[s].pc \in {"lookup", "insert", "lock"}
                        /\ pc \in {"insert", "lock", "holding"}
    BY <1>4 DEF TakeLock, LockRow, LookupHit, InsertRow, Acquire,
       Moves, FulfillLine, LookupMiss, InsertConflict
  <2>2. PICK r : r = [tx[s] EXCEPT !.pc = pc]
    OBVIOUS
  <2>3. /\ r.pc = pc /\ r.k = tx[s].k /\ r.lines = tx[s].lines /\ tx[s].k \in Nat
        /\ tx' = [tx EXCEPT ![s] = r] /\ pc \in {"insert", "lock", "holding"}
    BY <2>1, <2>2 DEF TypeInv, TypeOK, Transaction
  <2>4. tx[s].pc \in MovePc
    BY <2>1 DEF FulfillLine, MovePc
  <2>5. ASSUME NEW j \in 1..tx[s].k
        PROVE  shelfState[tx[s].lines[j].slot[1]] # "absent"
    <3>1. CASE tx[s].pc # "line"
      BY <2>4, <2>5, <3>1 DEF ShelvesSeen
    <3>2. CASE tx[s].pc = "line"
      <4>1. \A i \in 1..(tx[s].k - 1) : shelfState[tx[s].lines[i].slot[1]] # "absent"
        BY <2>4, <3>2 DEF ShelvesSeen
      <4>2. LineAllowed(s)
        BY <2>1, <3>2 DEF FulfillLine
      <4>3. shelfState[tx[s].lines[tx[s].k].slot[1]] # "absent"
        BY <4>1, <4>2 DEF LineAllowed, CurrentSlot, CurrentLine
      <4>4. j \in 1..(tx[s].k - 1) \/ j = tx[s].k
        BY <2>3
      <4> QED
        BY <4>1, <4>3, <4>4
    <3> QED
      BY <3>1, <3>2
  <2>6. \A j \in 1..tx[s].k : tx[s].lines[j].slot[1] \in Shelf
    BY <2>4, SeenType
  <2> QED
    BY <1>1, <2>3, <2>5, <2>6
<1>5. ASSUME NEW s \in Session, Post(s)
      PROVE  Goal
  <2>1. PICK r : r = AfterLine(tx[s])
    OBVIOUS
  <2>2. tx' = [tx EXCEPT ![s] = r] /\ tx[s].pc = "holding" /\ tx[s].pc \in MovePc
    BY <1>5, <2>1 DEF Post, MovePc
  <2>3. tx[s] \in Transaction /\ tx[s].k \in Nat
    BY DEF TypeInv, TypeOK, Transaction
  <2>4. /\ r.lines = tx[s].lines
        /\ \/ r.pc = "line" /\ r.k = tx[s].k + 1
           \/ r.pc = "posted" /\ r.k = tx[s].k
    BY <2>1, <2>3 DEF AfterLine, Transaction
  <2>5. \A j \in 1..tx[s].k : /\ shelfState[tx[s].lines[j].slot[1]] # "absent"
                              /\ tx[s].lines[j].slot[1] \in Shelf
    BY <2>2, SeenType DEF ShelvesSeen
  <2>6. \A j \in 1..(IF r.pc = "line" THEN r.k - 1 ELSE r.k) : j \in 1..tx[s].k
    BY <2>3, <2>4
  <2> QED
    BY <1>1, <2>2, <2>4, <2>5, <2>6
<1>6. ASSUME NEW s \in Session, CollectAlerts(s)
      PROVE  Goal
  <2>1. /\ tx'[s].pc = "resolving" /\ tx'[s].op = tx[s].op /\ tx'[s].target = tx[s].target
        /\ tx'[s].found = UNION {{x} \X ActiveAlerts(x) : x \in Retired(s)}
        /\ \A o \in Session \ {s} : tx'[o] = tx[o]
    BY <1>6 DEF CollectAlerts, TypeInv, TypeOK, Transaction
  <2>2. Retired(s)' = Retired(s)
    BY <2>1 DEF Retired
  <2>3. \A f \in tx'[s].found : f[1] \in Retired(s)
    BY <2>1
  <2>4. ShelvesSeen(s)' /\ FoundSound(s)'
    BY <2>1, <2>2, <2>3 DEF ShelvesSeen, FoundSound, MovePc
  <2>5. ASSUME NEW o \in Session \ {s} PROVE ShelvesSeen(o)' /\ FoundSound(o)'
    BY <2>1, SeenKept
  <2> QED
    BY <2>4, <2>5 DEF Goal
<1>7. ASSUME NEW i \in Item, NEW m \in Threshold, UpdateMinQuantity(i, m)
      PROVE  Goal
  BY <1>0, <1>7 DEF UpdateMinQuantity
<1>8. CASE UNCHANGED vars
  BY <1>0, <1>8 DEF vars
<1> QED
  BY <1>2, <1>3, <1>4, <1>5, <1>6, <1>7, <1>8, NextCases

(* What a retirement retires is out of service once it commits.               *)
LEMMA RetiredLeaves ==
    ASSUME TypeInv, NEW s \in Session, CommitRetirement(s), NEW x \in Slot,
           x \in Retired(s)
    PROVE  ~InService(x)'
<1>1. tx[s].op \in {"retire_shelf", "retire_item", "retire_warehouse"}
  BY DEF CommitRetirement, TypeInv, RequestShape
<1>2. x[1] \in Shelf /\ x[2] \in Item
  BY DEF Slot
<1>3. CASE tx[s].op = "retire_shelf"
  BY <1>2, <1>3 DEF Retired, OnShelf, CommitRetirement, InService, TypeInv, TypeOK
<1>4. CASE tx[s].op = "retire_warehouse"
  BY <1>2, <1>4 DEF Retired, InWarehouse, CommitRetirement, InService, TypeInv, TypeOK
<1>5. CASE tx[s].op = "retire_item"
  BY <1>2, <1>5 DEF Retired, OfItem, CommitRetirement, InService, TypeInv, TypeOK
<1> QED
  BY <1>1, <1>3, <1>4, <1>5

(* The alerts of a placement in service with an uncommitted movement stay.    *)
LEMMA AlertsStay ==
    ASSUME LockInv, [Next]_vars, \A o \in Session : FoundSound(o),
           NEW s \in Session, NEW x \in Slot,
           draft[s][x] # None, draft'[s][x] # None, InService(x)'
    PROVE  ActiveAlerts(x)' = ActiveAlerts(x)
<1>0. ASSUME alerts'[x] = alerts[x] PROVE ActiveAlerts(x)' = ActiveAlerts(x)
  BY <1>0 DEF ActiveAlerts
<1>1. CASE Next
  <2>1. ASSUME NEW o \in Session, BeginStock(o) \/ BeginAdmin(o) \/ BeginAnyFulfill(o)
        PROVE  UNCHANGED alerts
    BY <2>1 DEF BeginStock, BeginAdmin, BeginAnyFulfill, BeginReceive, BeginIssue,
       BeginAdjust, BeginFulfill, BeginCreateShelf, BeginRetireShelf,
       BeginRetireWarehouse, BeginRetireItem, Start, stockVars
  <2>2. ASSUME NEW o \in Session, Rolls(o) \/ TakeLock(o) \/ Moves(o) \/ Post(o)
        PROVE  UNCHANGED alerts
    BY <2>2 DEF Rolls, Rollback, TakeLock, LockRow, LookupHit, InsertRow, Acquire,
       Moves, FulfillLine, LookupMiss, InsertConflict, Post, stockVars
  <2>3. ASSUME NEW o \in Session, CommitCreateShelf(o) \/ CollectAlerts(o)
        PROVE  UNCHANGED alerts
    BY <2>3 DEF CommitCreateShelf, CollectAlerts, stockVars
  <2>4. ASSUME NEW i \in Item, NEW m \in Threshold, UpdateMinQuantity(i, m)
        PROVE  UNCHANGED alerts
    BY <2>4 DEF UpdateMinQuantity, stockVars
  <2>5. ASSUME NEW o \in Session, Commit(o) PROVE alerts'[x] = alerts[x]
    <3>1. o # s
      BY <2>5 DEF Commit, NoDrafts, LockInv, TypeInv, TypeOK
    <3>2. x \notin Posted(o)
      BY <3>1 DEF Posted, LockInv, LockedDrafts
    <3> QED
      BY <2>5, <3>2 DEF Commit
  <2>6. ASSUME NEW o \in Session, CommitRetirement(o)
        PROVE  ActiveAlerts(x)' = ActiveAlerts(x)
    <3>1. x \notin Retired(o)
      BY <2>6, RetiredLeaves DEF LockInv
    <3>2. \A n : <<x, n>> \notin tx[o].found
      BY <2>6, <3>1 DEF FoundSound, CommitRetirement
    <3>3. alerts'[x] = [n \in DOMAIN alerts[x] |-> alerts[x][n]]
      BY <2>6, <3>2 DEF CommitRetirement
    <3> QED
      BY <3>3 DEF ActiveAlerts
  <2> QED
    BY <1>0, <1>1, <2>1, <2>2, <2>3, <2>4, <2>5, <2>6, NextCases
<1>2. CASE UNCHANGED vars
  BY <1>0, <1>2 DEF vars
<1> QED
  BY <1>1, <1>2

(* What Post decides about the alerts.                                        *)
LEMMA DecisionIs ==
    ASSUME TypeInv, AlertInv, NEW s \in Session, NEW x \in Slot, x = CurrentSlot(s)
    PROVE  AlertDecided(x, DraftOf(s))
<1> DEFINE q == Resulting(s)
<1> DEFINE below == q < tx[s].min[x[2]]
<1> HIDE DEF q, below
<1>1. /\ DraftOf(s).resulting = q /\ DraftOf(s).min = tx[s].min[x[2]]
      /\ DraftOf(s).alert = AlertDecision(s, x, q).alert
      /\ DraftOf(s).no = AlertDecision(s, x, q).no
  BY DEF DraftOf, q
<1>2. (DraftOf(s).resulting < DraftOf(s).min) <=> below
  BY <1>1 DEF below
<1>3. CASE below /\ ActiveAlerts(x) = {}
  <2>1. AlertDecision(s, x, q) = [alert |-> "raise", no |-> 0]
    BY <1>3 DEF AlertDecision, below
  <2> QED
    BY <1>1, <1>2, <1>3, <2>1 DEF AlertDecided
<1>4. CASE ~below /\ ActiveAlerts(x) # {}
  <2>1. PICK n : n = CHOOSE m \in ActiveAlerts(x) : TRUE
    OBVIOUS
  <2>2. n \in ActiveAlerts(x)
    BY <1>4, <2>1
  <2>3. ActiveAlerts(x) = {n}
    BY <2>2 DEF AlertInv
  <2>4. AlertDecision(s, x, q) = [alert |-> "recover", no |-> n]
    BY <1>4, <2>1 DEF AlertDecision, below
  <2> QED
    BY <1>1, <1>2, <1>4, <2>3, <2>4 DEF AlertDecided
<1>5. CASE ~(below /\ ActiveAlerts(x) = {}) /\ ~(~below /\ ActiveAlerts(x) # {})
  <2>1. AlertDecision(s, x, q) = [alert |-> "keep", no |-> 0]
    BY <1>5 DEF AlertDecision, below
  <2> QED
    BY <1>1, <1>2, <1>5, <2>1 DEF AlertDecided
<1> QED
  BY <1>3, <1>4, <1>5

LEMMA FollowStep == LockInv /\ AlertInv /\ FollowInv /\ [Next]_vars => FollowInv'
<1> SUFFICES ASSUME LockInv, AlertInv, FollowInv, [Next]_vars PROVE FollowInv'
  OBVIOUS
<1>1. TypeInv /\ \A o \in Session : ShelvesSeen(o) /\ FoundSound(o)
  BY DEF LockInv, FollowInv
<1>2. \A o \in Session : (ShelvesSeen(o) /\ FoundSound(o))'
  BY <1>1, SeenStep
<1>3. ASSUME NEW s \in Session, NEW x \in Slot, draft'[s][x] # None
      PROVE  /\ shelfState'[x[1]] # "absent"
             /\ InService(x)' => AlertDecided(x, draft[s][x])'
  <2>1. CASE draft'[s][x] = draft[s][x]
    <3>1. /\ shelfState[x[1]] # "absent" /\ x[1] \in Shelf
          /\ InService(x) => AlertDecided(x, draft[s][x])
      BY <1>3, <2>1 DEF FollowInv, Slot
    <3>2. /\ shelfState'[x[1]] # "absent"
          /\ InService(x)' => InService(x)
      BY <1>1, <3>1, ServiceShrinks
    <3>3. InService(x)' => ActiveAlerts(x)' = ActiveAlerts(x)
      BY <1>1, <1>3, <2>1, AlertsStay
    <3> QED
      BY <2>1, <3>1, <3>2, <3>3 DEF AlertDecided
  <2>2. CASE Post(s) /\ x = CurrentSlot(s) /\ draft'[s][x] = DraftOf(s)
    <3>1. /\ tx[s].pc = "holding" /\ tx[s].pc \in MovePc
          /\ UNCHANGED <<alerts, itemLive, shelfState, warehouseLive>>
      BY <2>2 DEF Post, MovePc, stockVars, catalogVars
    <3>2. tx[s].k \in 1..tx[s].k
      BY <1>1 DEF TypeInv, TypeOK, Transaction
    <3>3. shelfState[x[1]] # "absent"
      BY <1>1, <2>2, <3>1, <3>2 DEF ShelvesSeen, CurrentSlot, CurrentLine
    <3>4. AlertDecided(x, draft'[s][x])
      BY <1>1, <2>2, DecisionIs
    <3>5. ActiveAlerts(x)' = ActiveAlerts(x)
      BY <3>1 DEF ActiveAlerts
    <3> QED
      BY <3>1, <3>3, <3>4, <3>5 DEF AlertDecided
  <2> QED
    BY <1>1, <1>3, <2>1, <2>2, DraftStep
<1> QED
  BY <1>2, <1>3 DEF FollowInv

(* What the decision leaves: an active alert exactly below the threshold.     *)
LEMMA DecisionHolds ==
    ASSUME TypeOK, LedgerConstants, NEW x \in Slot, NEW d \in Draft, AlertDecided(x, d),
           alerts'[x] = AlertsAfter(x, d)
    PROVE  ActiveAlerts(x)' # {} <=> d.resulting < d.min
<1>0. alerts[x] \in Seq(Alert) /\ DOMAIN alerts[x] = 1..Len(alerts[x]) /\ Len(alerts[x]) \in Nat
  BY LenProperties DEF TypeOK
<1>1. CASE d.alert = "raise"
  <2>1. PICK e : e = [at |-> d.resulting, threshold |-> d.min, status |-> "active"]
    OBVIOUS
  <2>2. e \in Alert /\ e.status = "active"
    BY <2>1, LedgerConstants DEF Draft, Alert, AlertStatus
  <2>3. alerts'[x] = Append(alerts[x], e)
    BY <1>1, <2>1 DEF AlertsAfter
  <2>4. PICK n \in Nat : n = Len(alerts[x]) + 1
    BY <1>0
  <2>5. n \in DOMAIN alerts'[x] /\ alerts'[x][n] = e
    BY <1>0, <2>2, <2>3, <2>4
  <2> QED
    BY <1>1, <2>2, <2>5 DEF AlertDecided, ActiveAlerts
<1>2. CASE d.alert = "recover"
  <2>1. ActiveAlerts(x) = {d.no} /\ ~(d.resulting < d.min)
    BY <1>2 DEF AlertDecided
  <2>2. alerts'[x] = [alerts[x] EXCEPT ![d.no].status = "recovered"]
    BY <1>2 DEF AlertsAfter
  <2>3. ASSUME NEW k \in DOMAIN alerts'[x] PROVE alerts'[x][k].status # "active"
    <3>1. k \in DOMAIN alerts[x] /\ alerts[x][k] \in Alert
      BY <1>0, <2>2, ElementOfSeq
    <3>2. CASE k = d.no
      <4>1. alerts'[x][k] = [alerts[x][k] EXCEPT !.status = "recovered"]
        BY <2>2, <3>1, <3>2
      <4> QED
        BY <3>1, <4>1 DEF Alert
    <3>3. CASE k # d.no
      BY <2>1, <2>2, <3>1, <3>3 DEF ActiveAlerts
    <3> QED
      BY <3>2, <3>3
  <2> QED
    BY <2>1, <2>3 DEF ActiveAlerts
<1>3. CASE d.alert = "keep"
  <2>1. ActiveAlerts(x)' = ActiveAlerts(x)
    BY <1>3 DEF AlertsAfter, ActiveAlerts
  <2> QED
    BY <1>3, <2>1 DEF AlertDecided
<1> QED
  BY <1>1, <1>2, <1>3 DEF Draft

(* Whatever movements and retirements overlap: when a movement of a placement *)
(* in service commits, it has an active alert exactly if the new quantity is  *)
(* below the threshold the request read.                                      *)
THEOREM AlertsFollow == Spec => AlertFollowsMovement
<1> DEFINE Inv == LockInv /\ AlertInv /\ FollowInv
<1>1. Init => Inv
  <2>1. Init => AlertInv
    BY DEF Init, AlertInv, ActiveAlerts, NoDrafts
  <2>2. Init => FollowInv
    BY DEF Init, FollowInv, ShelvesSeen, FoundSound, NoDrafts, Idle, MovePc
  <2> QED
    BY <2>1, <2>2, LockInit
<1>2. Inv /\ [Next]_vars => Inv'
  BY LockStep, AlertStep, FollowStep
<1>3. ASSUME LockInv, FollowInv, [Next]_vars, NEW s \in Session, NEW x \in Slot,
             draft[s][x] # None, movements'[x] # movements[x], InService(x)'
      PROVE  ActiveAlerts(x)' # {} <=> quantity'[x] < draft[s][x].min
  <2>1. PICK o \in Session : Commit(o)
    BY <1>3, OnlyCommitMoves
  <2>2. x \in Posted(o)
    BY <1>3, <2>1, CommitSlot
  <2>3. o = s
    BY <1>3, <2>2 DEF Posted, LockInv, LockedDrafts
  <2>4. draft[s][x] \in Draft /\ quantity'[x] = draft[s][x].resulting
    BY <1>3, <2>1, <2>2, <2>3, CommitSlot
  <2>5. InService(x)
    BY <1>3, <2>1 DEF Commit, catalogVars, InService
  <2>6. AlertDecided(x, draft[s][x])
    BY <1>3, <2>5 DEF FollowInv
  <2>7. alerts'[x] = AlertsAfter(x, draft[s][x])
    BY <2>1, <2>2, <2>3 DEF Commit
  <2> QED
    BY <1>3, <2>4, <2>6, <2>7, DecisionHolds, LedgerConstants DEF LockInv, TypeInv
<1>4. Inv /\ [Next]_vars =>
        [\A s \in Session, x \in Slot :
           /\ draft[s][x] # None
           /\ movements'[x] # movements[x]
           /\ InService(x)'
           => (ActiveAlerts(x)' # {} <=> quantity'[x] < draft[s][x].min)]_vars
  BY <1>3
<1> HIDE DEF Inv
<1> QED
  BY <1>1, <1>2, <1>4, PTL DEF Spec, AlertFollowsMovement
=============================================================================
