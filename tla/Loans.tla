-------------------------------- MODULE Loans --------------------------------
(***************************************************************************)
(* Loans and guarantees: a policy per workplace and Jalali year bounds     *)
(* what an employee may ask for, and officers activate, settle and cancel  *)
(* the requests.                                                           *)
(*                                                                         *)
(* A submission locks the row of the governing policy from its SELECT FOR  *)
(* UPDATE to its commit.  Everything else reads without a lock, compares   *)
(* the version in the program and ends with an UPDATE of literal values    *)
(* that writes the changed columns only; that UPDATE is the last statement *)
(* of its transaction that can wait, so write and commit are one step.     *)
(* A row's version is the caller's or the call is refused: refusals change *)
(* nothing.                                                                *)
(***************************************************************************)
EXTENDS Staff, Naturals, Sequences, FiniteSets

CONSTANTS
    Year,         (* the Jalali years in which the model runs                 *)
    Wish,         (* the kinds and amounts an employee may ask for            *)
    Terms,        (* what an officer may write in a policy                    *)
    MaxPolicies, MaxLoans,   (* bounds on the rows                            *)
    MaxVersion    (* bound on the version of a policy                         *)

Kind == {"loan", "guarantee"}
Term == [year: Year, loan: Nat, guarantee: Nat, perYear: Nat, lifetime: Nat,
         active: BOOLEAN]

ASSUME LoanConstants ==
    /\ Year \subseteq Nat
    /\ Wish \subseteq [kind: Kind, amount: Nat \ {0}]
    /\ Terms \subseteq Term /\ Terms # {}
    /\ MaxPolicies \in Nat /\ MaxLoans \in Nat /\ MaxVersion \in Nat

PolicyId == 1..MaxPolicies
LoanId == 1..MaxLoans

VARIABLES
    year,    (* the Jalali year of the clock                                  *)
    policy,  (* policy[p]: the committed row, None until it is created        *)
    loan,    (* loan[r]: the committed row, None until it is created          *)
    diary,   (* diary[r]: the committed audit actions about r, in order       *)
    ask,     (* ask[s]: the submission session s has in hand, or None         *)
    turn,    (* turn[s]: the transition session s has in hand, or None        *)
    edit     (* edit[s]: the policy change session s has in hand, or None     *)

loanVars == <<staffVars, year, policy, loan, diary, ask, turn, edit>>

Status == {"pending", "active", "settled", "cancelled"}
PolicyRow == [place: Workplace, terms: Term, live: BOOLEAN, version: Nat]
LoanRow == [who: Employee, place: Workplace, kind: Kind, amount: Nat \ {0},
            year: Year, status: Status, stamped: BOOLEAN, version: Nat]
Ask == [who: Employee, place: Workplace, kind: Kind, amount: Nat \ {0}, year: Year,
        policy: PolicyId \cup {None}, checked: BOOLEAN]
Turn == [op: {"activate", "settle", "cancel"}, r: LoanId, version: Nat,
         checked: BOOLEAN]
Edit == [op: {"create", "update", "retire"}, p: PolicyId \cup {None},
         place: Workplace, old: Term, new: Term, version: Nat]

ASSUME NoneIsNoLoanRow ==
    None \notin PolicyRow \cup LoanRow \cup Ask \cup Turn \cup Edit \cup Nat

LoanTypeOK ==
    /\ StaffTypeOK
    /\ year \in Year
    /\ policy \in [PolicyId -> PolicyRow \cup {None}]
    /\ loan \in [LoanId -> LoanRow \cup {None}]
    /\ diary \in [LoanId -> Seq({"create", "activate", "settle", "cancel"})]
    /\ ask \in [Session -> Ask \cup {None}]
    /\ turn \in [Session -> Turn \cup {None}]
    /\ edit \in [Session -> Edit \cup {None}]

LoanInit ==
    /\ StaffInit
    /\ year \in Year
    /\ policy = [p \in PolicyId |-> None]
    /\ loan = [r \in LoanId |-> None]
    /\ diary = [r \in LoanId |-> <<>>]
    /\ ask = [s \in Session |-> None]
    /\ turn = [s \in Session |-> None]
    /\ edit = [s \in Session |-> None]

Free(s) == ask[s] = None /\ turn[s] = None /\ edit[s] = None

(* The rows of the partial unique index on workplace and year.                *)
InForce(w, y) == {p \in PolicyId : /\ policy[p] # None
                                   /\ policy[p].live
                                   /\ policy[p].place = w
                                   /\ policy[p].terms.year = y}

(* Variant: the policy is read without FOR UPDATE.                            *)
LockedNever(p) == FALSE

Locked(p) == \E s \in Session : ask[s] # None /\ ask[s].policy = p

Loan == {r \in LoanId : loan[r] # None}

-----------------------------------------------------------------------------
(* create_policy, update_policy, retire_policy *)

BeginCreatePolicy(s, w, t) ==
    /\ Free(s)
    /\ t.active
    /\ InForce(w, t.year) = {}
    /\ edit' = [edit EXCEPT ![s] = [op |-> "create", p |-> None, place |-> w,
                                    old |-> t, new |-> t, version |-> 0]]
    /\ UNCHANGED <<staffVars, year, policy, loan, diary, ask, turn>>

BeginUpdatePolicy(s, p, t) ==
    /\ Free(s)
    /\ policy[p] # None
    /\ policy[p].live
    /\ policy[p].version < MaxVersion
    /\ InForce(policy[p].place, t.year) \subseteq {p}
    /\ edit' = [edit EXCEPT ![s] = [op |-> "update", p |-> p,
                                    place |-> policy[p].place,
                                    old |-> policy[p].terms, new |-> t,
                                    version |-> policy[p].version]]
    /\ UNCHANGED <<staffVars, year, policy, loan, diary, ask, turn>>

BeginRetirePolicy(s, p) ==
    /\ Free(s)
    /\ policy[p] # None
    /\ policy[p].live
    /\ edit' = [edit EXCEPT ![s] = [op |-> "retire", p |-> p,
                                    place |-> policy[p].place,
                                    old |-> policy[p].terms,
                                    new |-> policy[p].terms,
                                    version |-> policy[p].version]]
    /\ UNCHANGED <<staffVars, year, policy, loan, diary, ask, turn>>

(* The row the session's INSERT or UPDATE leaves: the changed columns and the *)
(* version are the session's, the others are the row's of the moment.         *)
Written(e) ==
    IF e.op = "create"
    THEN [place |-> e.place, terms |-> e.new, live |-> TRUE, version |-> 1]
    ELSE [policy[e.p] EXCEPT
            !.terms = [f \in DOMAIN @ |->
                        IF e.new[f] # e.old[f] THEN e.new[f] ELSE @[f]],
            !.live = @ /\ e.op # "retire",
            !.version = e.version + 1]

(* Variant: there is no unique index on workplace and year.                   *)
AdmitsAll(row, p) == TRUE

(* The unique index admits the row.                                           *)
Admits(row, p) == ~row.live \/ InForce(row.place, row.terms.year) \subseteq {p}

NewPolicy == Cardinality({p \in PolicyId : policy[p] # None}) + 1

CommitPolicy(s) ==
    LET e == edit[s]
        p == IF e.op = "create" THEN NewPolicy ELSE e.p
    IN  /\ e # None
        /\ p \in PolicyId
        /\ ~Locked(p)
        /\ Admits(Written(e), p)
        /\ policy' = [policy EXCEPT ![p] = Written(e)]
        /\ edit' = [edit EXCEPT ![s] = None]
        /\ UNCHANGED <<staffVars, year, loan, diary, ask, turn>>

-----------------------------------------------------------------------------
(* submit_request *)

BeginSubmit(s, e, wish) ==
    /\ Free(s)
    /\ place[e] # None
    /\ working[e]
    /\ ask' = [ask EXCEPT ![s] = [who |-> e, place |-> place[e],
                                  kind |-> wish.kind, amount |-> wish.amount,
                                  year |-> year, policy |-> None,
                                  checked |-> FALSE]]
    /\ UNCHANGED <<staffVars, year, policy, loan, diary, turn, edit>>

(* Every request the employee ever made, and those of a year.                 *)
MadeBy(e) == {r \in Loan : loan[r].who = e}
MadeInYear(e, y) == {r \in MadeBy(e) : loan[r].year = y}

WithinCounts(q, t) ==
    /\ t.active
    /\ Cardinality(MadeBy(q.who)) < t.lifetime
    /\ Cardinality(MadeInYear(q.who, q.year)) < t.perYear

Active(e, y, k) == {r \in MadeInYear(e, y) : /\ loan[r].kind = k
                                             /\ loan[r].status = "active"}

(* The amounts of requests added up: as many as there are units of them.      *)
Units(requests) == UNION {{r} \X (1..loan[r].amount) : r \in requests}
ActiveSum(e, y, k) == Cardinality(Units(Active(e, y, k)))

(* SELECT FOR UPDATE of the governing policy, which waits for its lock, and   *)
(* the counts.  (They only grow, so counting with the lock refuses no more    *)
(* than counting after it.)                                                   *)
LockPolicy(s) ==
    /\ ask[s] # None
    /\ ask[s].policy = None
    /\ \E p \in InForce(ask[s].place, ask[s].year) :
        /\ ~Locked(p)
        /\ WithinCounts(ask[s], policy[p].terms)
        /\ ask' = [ask EXCEPT ![s].policy = p]
    /\ UNCHANGED <<staffVars, year, policy, loan, diary, turn, edit>>

(* Variant: the cap bounds what is active already, without the request.       *)
SumActiveBefore(s) ==
    /\ ask[s] # None
    /\ ask[s].policy # None
    /\ ~ask[s].checked
    /\ ActiveSum(ask[s].who, ask[s].year, ask[s].kind)
            <= policy[ask[s].policy].terms[ask[s].kind]
    /\ ask' = [ask EXCEPT ![s].checked = TRUE]
    /\ UNCHANGED <<staffVars, year, policy, loan, diary, turn, edit>>

SumActive(s) ==
    /\ ask[s] # None
    /\ ask[s].policy # None
    /\ ~ask[s].checked
    /\ ActiveSum(ask[s].who, ask[s].year, ask[s].kind) + ask[s].amount
            <= policy[ask[s].policy].terms[ask[s].kind]
    /\ ask' = [ask EXCEPT ![s].checked = TRUE]
    /\ UNCHANGED <<staffVars, year, policy, loan, diary, turn, edit>>

(* Variant: a request above the cap is neither refused nor let through.       *)
RefuseAskEarly(s) ==
    LET q == ask[s]
    IN  /\ q # None
        /\ \/ q.policy = None /\ InForce(q.place, q.year) = {}
           \/ /\ q.policy = None
              /\ \E p \in InForce(q.place, q.year) :
                    ~Locked(p) /\ ~WithinCounts(q, policy[p].terms)
        /\ ask' = [ask EXCEPT ![s] = None]
        /\ UNCHANGED <<staffVars, year, policy, loan, diary, turn, edit>>

(* no_policy, lifetime_count, yearly_count, loan_cap and guarantee_cap        *)
RefuseAsk(s) ==
    LET q == ask[s]
    IN  /\ q # None
        /\ \/ q.policy = None /\ InForce(q.place, q.year) = {}
           \/ /\ q.policy = None
              /\ \E p \in InForce(q.place, q.year) :
                    ~Locked(p) /\ ~WithinCounts(q, policy[p].terms)
           \/ /\ q.policy # None
              /\ ~q.checked
              /\ ActiveSum(q.who, q.year, q.kind) + q.amount
                    > policy[q.policy].terms[q.kind]
        /\ ask' = [ask EXCEPT ![s] = None]
        /\ UNCHANGED <<staffVars, year, policy, loan, diary, turn, edit>>

NewLoan == Cardinality(Loan) + 1

CommitAsk(s) ==
    LET q == ask[s]
    IN  /\ q # None
        /\ q.checked
        /\ NewLoan \in LoanId
        /\ loan' = [loan EXCEPT ![NewLoan] =
                        [who |-> q.who, place |-> q.place, kind |-> q.kind,
                         amount |-> q.amount, year |-> q.year,
                         status |-> "pending", stamped |-> FALSE, version |-> 1]]
        /\ diary' = [diary EXCEPT ![NewLoan] = Append(@, "create")]
        /\ ask' = [ask EXCEPT ![s] = None]
        /\ UNCHANGED <<staffVars, year, policy, turn, edit>>

-----------------------------------------------------------------------------
(* activate_request, settle_request, cancel_request *)

From(op) == CASE op = "activate" -> {"pending"}
              [] op = "settle"   -> {"active"}
              [] op = "cancel"   -> {"pending", "active"}

(* Variant: settling writes a status that is not in the list.                 *)
ToUnlisted(op) == CASE op = "activate" -> "active"
            [] op = "settle"   -> "closed"
            [] op = "cancel"   -> "cancelled"

To(op) == CASE op = "activate" -> "active"
            [] op = "settle"   -> "settled"
            [] op = "cancel"   -> "cancelled"

BeginTurn(s, op, r) ==
    /\ Free(s)
    /\ loan[r] # None
    /\ loan[r].status \in From(op)
    /\ turn' = [turn EXCEPT ![s] = [op |-> op, r |-> r,
                                    version |-> loan[r].version,
                                    checked |-> op # "activate"]]
    /\ UNCHANGED <<staffVars, year, policy, loan, diary, ask, edit>>

CheckHolder(s) ==
    /\ turn[s] # None
    /\ ~turn[s].checked
    /\ working[loan[turn[s].r].who]
    /\ turn' = [turn EXCEPT ![s].checked = TRUE]
    /\ UNCHANGED <<staffVars, year, policy, loan, diary, ask, edit>>

(* Variant: the version is counted up from the row of the moment.             *)
CommitTurnCounting(s) ==
    LET t == turn[s]
    IN  /\ t # None
        /\ t.checked
        /\ loan' = [loan EXCEPT ![t.r].status = To(t.op),
                                ![t.r].stamped = @ \/ t.op = "settle",
                                ![t.r].version = @ + 1]
        /\ diary' = [diary EXCEPT ![t.r] = Append(@, t.op)]
        /\ turn' = [turn EXCEPT ![s] = None]
        /\ UNCHANGED <<staffVars, year, policy, ask, edit>>

(* Variant: the UPDATE writes every column, not the changed ones.             *)
CommitTurnWhole(s) ==
    LET t == turn[s]
    IN  /\ t # None
        /\ t.checked
        /\ loan' = [loan EXCEPT ![t.r].status = To(t.op),
                                ![t.r].stamped = t.op = "settle",
                                ![t.r].version = t.version + 1]
        /\ diary' = [diary EXCEPT ![t.r] = Append(@, t.op)]
        /\ turn' = [turn EXCEPT ![s] = None]
        /\ UNCHANGED <<staffVars, year, policy, ask, edit>>

CommitTurn(s) ==
    LET t == turn[s]
    IN  /\ t # None
        /\ t.checked
        /\ loan' = [loan EXCEPT ![t.r].status = To(t.op),
                                ![t.r].stamped = @ \/ t.op = "settle",
                                ![t.r].version = t.version + 1]
        /\ diary' = [diary EXCEPT ![t.r] = Append(@, t.op)]
        /\ turn' = [turn EXCEPT ![s] = None]
        /\ UNCHANGED <<staffVars, year, policy, ask, edit>>

-----------------------------------------------------------------------------
(* A refusal, an integrity error, a lost connection: the transaction rolls    *)
(* back and its lock is released.                                             *)
RollBack(s) ==
    /\ ~Free(s)
    /\ ask' = [ask EXCEPT ![s] = None]
    /\ turn' = [turn EXCEPT ![s] = None]
    /\ edit' = [edit EXCEPT ![s] = None]
    /\ UNCHANGED <<staffVars, year, policy, loan, diary>>

NewYear ==
    /\ year + 1 \in Year
    /\ year' = year + 1
    /\ UNCHANGED <<staffVars, policy, loan, diary, ask, turn, edit>>

StaffStep == StaffNext /\ UNCHANGED <<year, policy, loan, diary, ask, turn, edit>>

(* Bound: a submission begins only while a row is left for it.                *)
Room == Cardinality(Loan) + Cardinality({s \in Session : ask[s] # None}) < MaxLoans

Submission(s) == LockPolicy(s) \/ SumActive(s) \/ RefuseAsk(s) \/ CommitAsk(s)

LoanNext ==
    \/ \E s \in Session :
        \/ \E w \in Workplace, t \in Terms : BeginCreatePolicy(s, w, t)
        \/ \E p \in PolicyId, t \in Terms : BeginUpdatePolicy(s, p, t)
        \/ \E p \in PolicyId : BeginRetirePolicy(s, p)
        \/ CommitPolicy(s)
        \/ Room /\ \E e \in Employee, wish \in Wish : BeginSubmit(s, e, wish)
        \/ Submission(s)
        \/ \E op \in {"activate", "settle", "cancel"}, r \in LoanId : BeginTurn(s, op, r)
        \/ CheckHolder(s) \/ CommitTurn(s)
        \/ RollBack(s)
    \/ NewYear
    \/ StaffStep

LoanSpec == LoanInit /\ [][LoanNext]_loanVars

(* A request that has begun is carried on by its worker thread, and           *)
(* PostgreSQL grants a row lock to its waiters in turn.                       *)
FairLoanSpec == LoanSpec /\ \A s \in Session : SF_loanVars(Submission(s))
-----------------------------------------------------------------------------
(* Properties *)

(* At most one policy is in force for a workplace and year, though creations  *)
(* and changes of the year look for a duplicate before others commit theirs.  *)
OnePolicyInForce ==
    \A w \in Workplace, y \in Year : Cardinality(InForce(w, y)) <= 1

(* The version of a loan request tells what it may be, in spite of            *)
(* transitions that overwrite one another and even set the version back: a    *)
(* caller whose version is accepted cannot be mistaken about the status by    *)
(* more than one of the outcomes listed here.                                 *)
VersionTellsLoanStatus ==
    \A r \in Loan :
        CASE loan[r].version = 1 -> loan[r].status = "pending"
          [] loan[r].version = 2 -> loan[r].status \in {"active", "cancelled"}
          [] loan[r].version = 3 -> loan[r].status \in {"settled", "cancelled"}
          [] OTHER -> FALSE

(* The settlement stamp and the audit entries agree whatever overlaps: a      *)
(* request is stamped if and only if a settlement of it was committed, and    *)
(* none is committed that was never activated.                                *)
SettlementIsRemembered ==
    \A r \in Loan :
        /\ loan[r].stamped <=> \E i \in DOMAIN diary[r] : diary[r][i] = "settle"
        /\ loan[r].status = "settled" => loan[r].stamped
        /\ \A i \in DOMAIN diary[r] :
              diary[r][i] = "settle" =>
                 \E j \in 1..(i - 1) : diary[r][j] = "activate"

(* A request is only committed under a policy that is in force and active at  *)
(* that moment, for an amount it allows, and within its counts: what an       *)
(* employee asked for at that workplace in that year never exceeds them,      *)
(* whoever else submits, edits the policy or transfers the employee.  (The    *)
(* counts over several workplaces or years are not safe: their submissions    *)
(* lock different policies.)                                                  *)
SubmissionWithinLimits ==
    [][\A r \in LoanId : loan[r] = None /\ loan'[r] # None =>
          LET q == loan'[r]
              made == {m \in LoanId : /\ loan'[m] # None
                                      /\ loan'[m].who = q.who
                                      /\ loan'[m].place = q.place
                                      /\ loan'[m].year = q.year}
          IN  \E p \in InForce(q.place, q.year) :
                /\ policy[p].terms.active
                /\ q.amount <= policy[p].terms[q.kind]
                /\ Cardinality(made) <= policy[p].terms.perYear
                /\ Cardinality(made) <= policy[p].terms.lifetime]_loanVars

(* What the caps and counts bound together.  Activation does not look at the  *)
(* cap again, so requests submitted one by one within the cap can be active   *)
(* together above it; but what an employee owes for a workplace and a year    *)
(* stays below the widest cap times the widest yearly count.                  *)
ExposureBounded ==
    \A e \in Employee, w \in Workplace, y \in Year, k \in Kind :
        \E cap \in Terms, count \in Terms :
            Cardinality(Units({r \in Active(e, y, k) : loan[r].place = w}))
                <= cap[k] * count.perYear

(* Every submission is answered: none waits for a policy's lock for ever.     *)
EverySubmissionEnds == \A s \in Session : ask[s] # None ~> ask[s] = None
=============================================================================
