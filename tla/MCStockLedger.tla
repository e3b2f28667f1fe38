---------------------------- MODULE MCStockLedger ----------------------------
(* Small instances of StockLedger for TLC.                                    *)
EXTENDS StockLedger, TLC

CONSTANTS s1, s2, h1, h2, i1, i2, w1

OneWarehouse == [h \in Shelf |-> w1]
Sessions == Permutations(Session)

(* Next for one placement, where no two sessions can wait for each other.     *)
OnePlaceNext ==
    \/ \E s \in Session : \/ BeginStock(s) \/ BeginAdmin(s) \/ BeginAnyFulfill(s)
                          \/ TakeLock(s) \/ Advance(s) \/ Commit(s) \/ Crash(s)
    \/ \E i \in Item, m \in Threshold : UpdateMinQuantity(i, m)
=============================================================================
