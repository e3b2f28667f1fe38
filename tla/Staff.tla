-------------------------------- MODULE Staff --------------------------------
(***************************************************************************)
(* What the loan and asset components rely on about employees: each has a  *)
(* workplace, may be moved to another, and may be deactivated and          *)
(* reactivated, one of these at a time and at any moment.  Module Accounts *)
(* has the operations of the user module and implements this one.          *)
(***************************************************************************)
CONSTANTS Employee, Workplace,
          Session,  (* requests to the program that run at the same time      *)
          None      (* a value that is no value of the model                  *)

ASSUME StaffConstants == None \notin Workplace

VARIABLES place,    (* place[e]: the workplace of e, None until e is hired    *)
          working   (* working[e]: whether e is active                        *)

staffVars == <<place, working>>

StaffTypeOK ==
    /\ place \in [Employee -> Workplace \cup {None}]
    /\ working \in [Employee -> BOOLEAN]

StaffInit ==
    /\ place = [e \in Employee |-> None]
    /\ working = [e \in Employee |-> FALSE]

Hire(e, w) ==
    /\ place[e] = None
    /\ place' = [place EXCEPT ![e] = w]
    /\ working' = [working EXCEPT ![e] = TRUE]

Move(e, w) ==
    /\ place[e] \notin {None, w}
    /\ place' = [place EXCEPT ![e] = w]
    /\ UNCHANGED working

SetActive(e) ==
    /\ place[e] # None
    /\ working' = [working EXCEPT ![e] = ~@]
    /\ UNCHANGED place

StaffNext ==
    \E e \in Employee :
        \/ \E w \in Workplace : Hire(e, w) \/ Move(e, w)
        \/ SetActive(e)

StaffSpec == StaffInit /\ [][StaffNext]_staffVars
=============================================================================
