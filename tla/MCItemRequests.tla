--------------------------- MODULE MCItemRequests ---------------------------
(* Small instances of ItemRequests for TLC.                                   *)
EXTENDS ItemRequests, TLC

CONSTANTS s1, s2, h1, i1, i2, w1, r1, r2

OneWarehouse == [h \in Shelf |-> w1]

One(i) == [item |-> i, amount |-> 1]

(* Two requests for the same two items, which may list them in either order.  *)
BothOrders == {<<One(i1), One(i2)>>, <<One(i2), One(i1)>>}
SmallOrder == {<<One(i1)>>}

(* Beside the requests themselves only receipts, which stock their lines.     *)
FlowNext ==
    \E s \in Session :
        \/ BeginRequest(s)
        \/ /\ held[s] = None
           /\ \E x \in Slot : BeginReceive(s, x, MaxQuantity)
           /\ UNCHANGED requestVars
        \/ LockStock(s) \/ Finish(s) \/ CrashStock(s) \/ Abandon(s)

FlowSpec == RequestInit /\ [][FlowNext]_allVars

(* A request that has begun is not abandoned by its worker thread, and        *)
(* PostgreSQL grants a row lock to its waiters in turn.                       *)
FairFlowSpec ==
    /\ FlowSpec
    /\ \A s \in Session : WF_allVars(Finish(s)) /\ SF_allVars(LockStock(s))
=============================================================================
