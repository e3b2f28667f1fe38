----------------------------- MODULE RequestFlow -----------------------------
(***************************************************************************)
(* The life cycle the warehouse module promises for an item request: one   *)
(* decision, then for an approved request one fulfilment, which is the     *)
(* only time stock is taken for it.                                        *)
(***************************************************************************)
EXTENDS Naturals

CONSTANT RequestId

VARIABLES status,   (* status[r]: "none" until r is created                *)
          served    (* served[r]: how often stock was taken for r          *)

vars == <<status, served>>

Init == /\ status = [r \in RequestId |-> "none"]
        /\ served = [r \in RequestId |-> 0]

Turn(r, from, to) ==
    /\ status[r] = from
    /\ status' = [status EXCEPT ![r] = to]

Create(r)  == Turn(r, "none", "pending") /\ UNCHANGED served
Approve(r) == Turn(r, "pending", "approved") /\ UNCHANGED served
Reject(r)  == Turn(r, "pending", "rejected") /\ UNCHANGED served
Fulfill(r) == /\ Turn(r, "approved", "fulfilled")
              /\ served' = [served EXCEPT ![r] = @ + 1]

Next == \E r \in RequestId : Create(r) \/ Approve(r) \/ Reject(r) \/ Fulfill(r)

Spec == Init /\ [][Next]_vars
=============================================================================
