------------------------------ MODULE Catalogue ------------------------------
(***************************************************************************)
(* Rows that people edit: catalogue items, warehouses, shelves and         *)
(* settings.  All are kept the same way.  A change loads the row without a *)
(* lock, compares its version with the caller's in the program, and writes *)
(* the columns it changed, the version counted up from the one it loaded,  *)
(* and an audit entry with snapshots of the row before and after, in one   *)
(* transaction.  A request whose version is not the row's is refused.      *)
(*                                                                         *)
(* The name stands for what a partial unique index keeps apart among the   *)
(* rows in service: the name or the code of an item, in lower case; the    *)
(* code of a warehouse; the code of a shelf in its warehouse.  That a      *)
(* place still holds stock is StockLedger's affair: here a retirement may  *)
(* be refused or not.                                                      *)
(***************************************************************************)
EXTENDS Naturals, Sequences, FiniteSetsExt, Functions

CONSTANTS
    Editor,       (* the sessions that change rows, one request each             *)
    Blank,        (* no row, no change in hand                                  *)
    Record,
    SortOf,       (* SortOf[r]: "item", "warehouse", "shelf" or "setting"     *)
    Apart,        (* Apart[r]: the rows that share the unique index with r    *)
    Name, Lower,  (* Lower[n]: the name in lower case                         *)
    Data,         (* Data[r]: what the other columns of r may hold            *)
    MaxEntries    (* bound on the audit entries                               *)

Snap == [name: Name, data: UNION Range(Data)]
Kept == [name: Name, key: Name, data: UNION Range(Data), live: BOOLEAN, version: Nat]
Change == [r: Record, action: {"updated", "retired"}, old: Kept, new: Kept]

ASSUME CatalogueConstants ==
    /\ Lower \in [Name -> Name]
    /\ Data \in [Record -> SUBSET UNION Range(Data)]
    /\ Blank \notin Snap \cup Kept \cup Change

VARIABLES
    row,   (* row[r]: the committed row, Blank until it is created             *)
    book,  (* book[r]: the committed audit entries about r, oldest first      *)
    pen    (* pen[s]: the change editor s has in hand, or Blank               *)

catalogueVars == <<row, book, pen>>

(* The settings are seeded.                                                   *)
CatalogueInit ==
    /\ row \in [Record -> {Blank} \cup
                   [name: Name, key: Name, data: UNION Range(Data), live: {TRUE}, version: {1}]]
    /\ \A r \in Record : row[r] # Blank <=> SortOf[r] = "setting"
    /\ \A r \in Record : row[r] # Blank => row[r].key = row[r].name /\ row[r].data \in Data[r]
    /\ book = [r \in Record |-> <<>>]
    /\ pen = [s \in Editor |-> Blank]

KeyOf(r, n) == IF SortOf[r] = "item" THEN Lower[n] ELSE n

KeyIsFree(r, k) ==
    \A x \in Apart[r] \ {r} : row[x] # Blank /\ row[x].live => row[x].key # k

(* A snapshot has neither the key nor whether the row is in service.          *)
Snapshot(w) == IF w = Blank THEN Blank ELSE [name |-> w.name, data |-> w.data]

Entry(action, before, after) ==
    [action |-> action, before |-> Snapshot(before), after |-> Snapshot(after)]

RoomInBook == MapThenSumSet(LAMBDA r : Len(book[r]), Record) < MaxEntries
-----------------------------------------------------------------------------
(* create_item, create_warehouse, create_shelf                                *)
CreateRecord(r, n, d) ==
    LET new == [name |-> n, key |-> KeyOf(r, n), data |-> d, live |-> TRUE,
                version |-> 1]
    IN  /\ SortOf[r] # "setting"
        /\ row[r] = Blank
        /\ RoomInBook
        /\ KeyIsFree(r, new.key)
        /\ row' = [row EXCEPT ![r] = new]
        /\ book' = [book EXCEPT ![r] = <<Entry("created", Blank, new)>>]
        /\ UNCHANGED pen

Take(s, r, action, new) ==
    /\ pen[s] = Blank
    /\ RoomInBook
    /\ pen' = [pen EXCEPT ![s] = [r |-> r, action |-> action, old |-> row[r],
                                  new |-> [new EXCEPT !.version = @ + 1]]]
    /\ UNCHANGED <<row, book>>

(* Variant: the key is left as it was.                                        *)
BeginUpdateStale(s, r, n, d) ==
    /\ row[r] # Blank
    /\ row[r].live
    /\ SortOf[r] = "setting" => n = row[r].name
    /\ Take(s, r, "updated", [row[r] EXCEPT !.name = n, !.data = d])

(* update_item, update_warehouse, update_shelf, update_setting; a setting has *)
(* a value only.                                                              *)
BeginUpdate(s, r, n, d) ==
    /\ row[r] # Blank
    /\ row[r].live
    /\ SortOf[r] = "setting" => n = row[r].name
    /\ Take(s, r, "updated", [row[r] EXCEPT !.name = n, !.key = KeyOf(r, n), !.data = d])

(* retire_item, retire_warehouse, retire_shelf                                *)
BeginRetire(s, r) ==
    /\ SortOf[r] # "setting"
    /\ row[r] # Blank
    /\ row[r].live
    /\ Take(s, r, "retired", [row[r] EXCEPT !.live = FALSE])

(* Retiring a retired row changes nothing but is audited.                     *)
RetireAgain(r) ==
    /\ row[r] # Blank
    /\ ~row[r].live
    /\ RoomInBook
    /\ book' = [book EXCEPT ![r] = Append(@, Entry("retired", Blank, row[r]))]
    /\ UNCHANGED <<row, pen>>

(* Variant: the UPDATE writes every column.                                   *)
MergedWhole(p, now) == p.new

(* What the UPDATE leaves: the changed columns are the session's, the others  *)
(* what they have become.                                                     *)
Merged(p, now) == [f \in DOMAIN now |-> IF p.new[f] # p.old[f] THEN p.new[f] ELSE now[f]]

(* The flush waits for the row's lock, and the unique index for the sessions  *)
(* that insert the same key, until their commits; then this is the commit.    *)
WriteRow(s) ==
    LET p == pen[s]
        new == Merged(p, row[p.r])
    IN  /\ p # Blank
        /\ RoomInBook
        /\ new.live => KeyIsFree(p.r, new.key)
        /\ row' = [row EXCEPT ![p.r] = new]
        /\ book' = [book EXCEPT ![p.r] = Append(@, Entry(p.action, p.old, p.new))]
        /\ pen' = [pen EXCEPT ![s] = Blank]

(* A duplicate, a refused retirement or a lost connection: a rollback.        *)
PutDown(s) ==
    /\ pen[s] # Blank
    /\ pen' = [pen EXCEPT ![s] = Blank]
    /\ UNCHANGED <<row, book>>

CatalogueNext ==
    \/ \E r \in Record, n \in Name : \E d \in Data[r] : CreateRecord(r, n, d)
    \/ \E r \in Record : RetireAgain(r)
    \/ \E s \in Editor :
        \/ \E r \in Record, n \in Name : \E d \in Data[r] : BeginUpdate(s, r, n, d)
        \/ \E r \in Record : BeginRetire(s, r)
        \/ WriteRow(s) \/ PutDown(s)

CatalogueSpec == CatalogueInit /\ [][CatalogueNext]_catalogueVars
-----------------------------------------------------------------------------
(* Properties *)

(* The entries that tell of a change, by their places in the book.            *)
Changes(r) == {i \in DOMAIN book[r] : book[r][i].before # Blank}

(* The last of them before place i.                                           *)
IsBefore(r, j, i) == /\ j \in Changes(r) /\ j < i
                     /\ \A x \in Changes(r) : x < i => x <= j

(* The version never counts a change that was not made.  While it counts them *)
(* all, that is unless two callers loaded the same version and both were let  *)
(* through, the audit trail tells the row: each change starts from where the  *)
(* one before it ended (the first from the creation), the last is what the    *)
(* row holds, and the key an item is kept apart by is the one of its name.    *)
(* (After an overlap none of this is certain, the last not even for a change  *)
(* of capitals.)                                                              *)
AuditTellsRow ==
    \A r \in Record : row[r] # Blank =>
        LET n == Cardinality(Changes(r))
            end == Len(book[r]) + 1
        IN  /\ row[r].version <= n + 1
            /\ row[r].version = n + 1 =>
                /\ row[r].key = KeyOf(r, row[r].name)
                /\ \A j \in Changes(r) :
                      IsBefore(r, j, end) => book[r][j].after = Snapshot(row[r])
                /\ \A i \in Changes(r), j \in Changes(r) :
                      IsBefore(r, j, i) => book[r][i].before = book[r][j].after
                /\ SortOf[r] # "setting" =>
                      \A i \in Changes(r) : (\A j \in Changes(r) : i <= j)
                                             => book[r][i].before = book[r][1].after

(* A row out of service stays so, whatever change was in flight when it was   *)
(* retired: a change names its columns and the service is none of them.       *)
RetiredStaysRetired ==
    [][\A r \in Record : row[r] # Blank /\ ~row[r].live => ~row'[r].live]_catalogueVars
=============================================================================
