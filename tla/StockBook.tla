------------------------------ MODULE StockBook ------------------------------
(***************************************************************************)
(* What the warehouse module promises about stock, without sessions, locks *)
(* or rows: a balance per placement and a journal of entries per placement *)
(* that only grows.  One posting moves one or more placements at once, all *)
(* or nothing; each moved placement gets exactly one entry, and the entry  *)
(* accounts for the whole change of the balance.  StockLedger, the level   *)
(* of the code's transactions, is checked to implement this specification. *)
(***************************************************************************)
EXTENDS Integers, Sequences

CONSTANTS Slot,         (* the placements: one item on one shelf           *)
          MaxQuantity   (* the largest quantity the column can hold        *)

VARIABLES balance,      (* balance[x]: the stock of placement x            *)
          journal       (* journal[x]: the entries of x, oldest first      *)

vars == <<balance, journal>>

(* The sign an entry of each type may have.  An issue or a receipt of less  *)
(* than half a thousandth is rounded to zero, so zero is not excluded.      *)
KindFits(e) ==
    CASE e.type = "receive"     -> e.delta >= 0
      [] e.type = "issue"       -> e.delta <= 0
      [] e.type = "fulfillment" -> e.delta <= 0
      [] e.type = "adjust"      -> e.delta # 0

Init == /\ balance = [x \in Slot |-> 0]
        /\ journal = [x \in Slot |-> <<>>]

(* The entry that takes x to its new balance is the only one added.         *)
Moved(x) ==
    /\ Len(journal'[x]) = Len(journal[x]) + 1
    /\ \A k \in 1..Len(journal[x]) : journal'[x][k] = journal[x][k]
    /\ LET e == journal'[x][Len(journal[x]) + 1]
       IN  /\ e.delta = balance'[x] - balance[x]
           /\ e.resulting = balance'[x]
           /\ KindFits(e)

Still(x) == balance'[x] = balance[x] /\ journal'[x] = journal[x]

Post(S) ==
    /\ \A x \in S : Moved(x) /\ balance'[x] \in 0..MaxQuantity
    /\ \A x \in Slot \ S : Still(x)

Next == \E S \in (SUBSET Slot) \ {{}} : Post(S)

Spec == Init /\ [][Next]_vars
=============================================================================
