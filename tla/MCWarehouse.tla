----------------------------- MODULE MCWarehouse -----------------------------
(* Small instances for TLC of the warehouse: the stock of one placement and   *)
(* the rows of the catalogue.  The two share sessions and nothing else, so a  *)
(* behaviour is about the one or about the other.                             *)
EXTENDS MCStockLedger, Catalogue

CONSTANTS r1, r2

(* Two items that may meet on a name, and a setting.                          *)
Sorts == [r \in Record |-> IF r = "setting" THEN "setting" ELSE "item"]
Neighbours == [r \in Record |-> {x \in Record : Sorts[x] = Sorts[r]}]
LowerCase == [n \in Name |-> IF n = "BOLT" THEN "bolt" ELSE n]

Columns == [r \in Record |-> IF r = r2 THEN {0} ELSE {0, 1}]

(* Nothing of the catalogue has changed, for the records of R.                *)
Untouched(R) == /\ \A r \in R : book[r] = <<>>
                /\ \A s \in Editor : pen[s] # Blank => pen[s].r \notin R

WarehouseInit ==
    /\ Init
    /\ CatalogueInit
    /\ \A r \in Record : row[r] # Blank => row[r].name = "nut" /\ row[r].data = 0

(* A step of the catalogue keeps to the items or to the settings.             *)
WarehouseNext ==
    \/ Untouched(Record) /\ OnePlaceNext /\ UNCHANGED catalogueVars
    \/ /\ Init
       /\ CatalogueNext
       /\ \E sort \in {"item", "setting"} : Untouched({r \in Record : Sorts[r] # sort})'
       /\ UNCHANGED vars

WarehouseSpec == WarehouseInit /\ [][WarehouseNext]_<<vars, catalogueVars>>
==============================================================================
