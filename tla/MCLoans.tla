------------------------------- MODULE MCLoans -------------------------------
(* A small instance of Loans for TLC, and the calendar that dates the loans.  *)
EXTENDS Loans, Calendar

T(y, n, a) == [year |-> y, loan |-> 1, guarantee |-> 1, perYear |-> n,
               lifetime |-> 2, active |-> a]

(* One request a year, another year with two, and a pause.                    *)
SmallTerms == {T(1, 1, TRUE), T(2, 2, TRUE), T(1, 1, FALSE)}

SmallWishes == {[kind |-> "loan", amount |-> 1], [kind |-> "guarantee", amount |-> 2]}

(* Around the ends of two centuries, and five years from leap year to leap    *)
(* year in the Jalali calendar (1403 to 1408).                                *)
ClockYears == 1999..2001 \cup 2023..2030 \cup 2099..2101

(* Bounds: a behaviour has policy changes or transitions of requests, beside  *)
(* creating the first policy and submitting, not both: they share no state    *)
(* but the clock and the requests' rows.  A first policy of the second year,  *)
(* which allows two requests, is for transitions, and nobody moves under it;  *)
(* of the others only the first is changed, and only loans are asked for.     *)
NoTurnYet == /\ Cardinality(Loan) <= 1
             /\ \A r \in LoanId : Len(diary[r]) <= 1
             /\ \A s \in Session : turn[s] = None
NoEditYet == /\ policy = [[p \in PolicyId |-> None] EXCEPT ![1] = policy[1]]
             /\ policy[1] # None => policy[1].live /\ policy[1].terms.year = 2
                                                  /\ policy[1].version = 1
             /\ \A s \in Session : edit[s] = None

NoPolicyYet == \A p \in PolicyId : policy[p] = None
Changeable == /\ policy[1] # None => policy[1].version > 1 \/ policy[1].terms.year = 1
              /\ \A s \in Session : edit[s] # None /\ edit[s].op = "create" =>
                                        edit[s].new.year = 1

SmallNext ==
    \/ \E s \in Session :
        \/ /\ NoTurnYet
           /\ Changeable
           /\ \/ \E w \in Workplace, t \in Terms :
                    (t.year # 1 => NoPolicyYet /\ \A x \in Session : Free(x))
                        /\ BeginCreatePolicy(s, w, t)
              \/ \E t \in Terms : BeginUpdatePolicy(s, 1, t)
              \/ \E p \in PolicyId : BeginRetirePolicy(s, p)
        \/ CommitPolicy(s)
        \/ /\ Room
           /\ \E e \in Employee, wish \in Wish :
                (Changeable => wish.kind = "loan") /\ BeginSubmit(s, e, wish)
        \/ Submission(s)
        \/ /\ NoEditYet
           /\ \E op \in {"activate", "settle", "cancel"}, r \in LoanId : BeginTurn(s, op, r)
        \/ CheckHolder(s) \/ CommitTurn(s)
        \/ RollBack(s)
    \/ NewYear
    \/ StaffStep /\ (Changeable \/ place' = place)

(* The clock of the calendar runs while nothing is asked for, over the days   *)
(* of its years; the other behaviours have the clock of Loans, which counts   *)
(* the years alone, and the calendar's stands still.                          *)
Idle == year = 1 /\ NoPolicyYet /\ StaffInit /\ \A s \in Session : Free(s)

LoansNext ==
    \/ ClockInit /\ day.year = 1999 /\ SmallNext /\ UNCHANGED clockVars
    \/ Idle /\ Tick /\ UNCHANGED loanVars

LoansInit == LoanInit /\ ClockInit

LoansSpec == /\ LoansInit
             /\ [][LoansNext]_<<loanVars, clockVars>>
             /\ \A s \in Session : SF_loanVars(Submission(s))
=============================================================================
