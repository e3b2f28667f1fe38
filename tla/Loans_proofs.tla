----------------------------- MODULE Loans_proofs -----------------------------
(***************************************************************************)
(* One policy in force, loans within its limits, versions and settlements  *)
(* that tell what happened, for any employees, workplaces, sessions, terms *)
(* and bounds.                                                             *)
(*                                                                         *)
(* The inductive invariant says of the rows what the properties say, and   *)
(* of every session that what it has read is still so: the lock on the     *)
(* policy keeps a submission's counts and cap true until it commits, and   *)
(* nothing but the order of the versions keeps a transition's.             *)
(***************************************************************************)
EXTENDS Loans, FiniteSetTheorems, TLAPS

(* Requests of an employee at a workplace, in a year.                         *)
MadeAt(e, w, y) == {r \in MadeInYear(e, y) : loan[r].place = w}

Limits == {"loan", "guarantee", "perYear"}

(* Policies: one for a workplace and year; and every limit is below one that  *)
(* an officer may write.                                                      *)
PoliciesApart ==
    \A w \in Workplace, y \in Year : \A p \in InForce(w, y), x \in InForce(w, y) : p = x

BelowTerms(t) == \A f \in Limits : \E u \in Terms : t[f] <= u[f]

EditSound(e) ==
    /\ e.op \in {"update", "retire"} => e.p \in PolicyId /\ policy[e.p] # None
    /\ IF e.op = "retire" THEN e.new = e.old ELSE e.new \in Terms

PolicyInv ==
    /\ PoliciesApart
    /\ \A p \in PolicyId : policy[p] # None => BelowTerms(policy[p].terms)
    /\ \A s \in Session, e \in Edit : edit[s] = e => EditSound(e)

(* Submissions: each holds the lock of its policy alone, and what it has read *)
(* of it and counted is still so.                                             *)
AskSound(q) ==
    /\ q.checked => q.policy # None
    /\ q.policy # None =>
          LET t == policy[q.policy].terms
          IN  /\ q.policy \in InForce(q.place, q.year)
              /\ t.active
              /\ Cardinality(MadeAt(q.who, q.place, q.year)) < t.perYear
              /\ Cardinality(MadeAt(q.who, q.place, q.year)) < t.lifetime
              /\ q.checked => q.amount <= t[q.kind]

AskInv ==
    /\ \A s \in Session, q \in Ask : ask[s] = q => AskSound(q)
    /\ \A s \in Session, x \in Session :
          /\ ask[s] # None /\ ask[x] # None
          /\ ask[s].policy # None /\ ask[s].policy = ask[x].policy
          => s = x

(* Requests: their rows are taken in order; together they stay below limits   *)
(* that an officer may write.                                                 *)
LoansInOrder == \E n \in 0..MaxLoans : Loan = 1..n

AmountsBelow(k, t) == \A r \in Loan : loan[r].kind = k => loan[r].amount <= t[k]

CountsBelow(t) ==
    \A e \in Employee, w \in Workplace, y \in Year :
        Cardinality(MadeAt(e, w, y)) <= t.perYear

BoundInv ==
    /\ LoansInOrder
    /\ \A k \in Kind : \E t \in Terms : AmountsBelow(k, t)
    /\ \E t \in Terms : CountsBelow(t)

(* Transitions: what the version tells, and what the diary remembers.         *)
Has(r, action) == \E i \in DOMAIN diary[r] : diary[r][i] = action

TurnSound(t) ==
    /\ loan[t.r] # None
    /\ CASE t.op = "activate" -> t.version = 1
         [] t.op = "settle"   -> t.version = 2
         [] t.op = "cancel"   -> t.version \in {1, 2}
    /\ t.op = "settle" => Has(t.r, "activate")

LoanTells(r) ==
    /\ CASE loan[r].version = 1 -> loan[r].status = "pending"
         [] loan[r].version = 2 -> loan[r].status \in {"active", "cancelled"}
         [] loan[r].version = 3 -> loan[r].status \in {"settled", "cancelled"}
         [] OTHER -> FALSE
    /\ loan[r].stamped <=> Has(r, "settle")
    /\ loan[r].status = "settled" => loan[r].stamped
    /\ loan[r].status = "active" => Has(r, "activate")
    /\ \A i \in DOMAIN diary[r] :
          diary[r][i] = "settle" => \E j \in 1..(i - 1) : diary[r][j] = "activate"

TurnInv ==
    /\ \A r \in Loan : LoanTells(r)
    /\ \A r \in LoanId \ Loan : diary[r] = <<>>
    /\ \A s \in Session, t \in Turn : turn[s] = t => TurnSound(t)

LoanInv == LoanTypeOK /\ PolicyInv /\ AskInv /\ BoundInv /\ TurnInv

-----------------------------------------------------------------------------
(* Types *)

LEMMA RowTypes ==
    ASSUME LoanTypeOK
    PROVE  /\ \A p \in PolicyId : policy[p] # None => policy[p] \in PolicyRow
           /\ \A r \in LoanId : loan[r] # None => loan[r] \in LoanRow
           /\ \A s \in Session : /\ ask[s] # None => ask[s] \in Ask
                                 /\ turn[s] # None => turn[s] \in Turn
                                 /\ edit[s] # None => edit[s] \in Edit
           /\ None \notin PolicyId /\ None \notin LoanId
BY NoneIsNoLoanRow, LoanConstants DEF LoanTypeOK, PolicyId, LoanId

LEMMA WrittenType ==
    ASSUME LoanTypeOK, NEW e \in Edit, e.op # "create" => e.p \in PolicyId /\ policy[e.p] # None
    PROVE  /\ Written(e) \in PolicyRow
           /\ e.op = "create" => Written(e).terms = e.new
           /\ e.op # "create" =>
                 /\ Written(e).place = policy[e.p].place
                 /\ \A f \in DOMAIN policy[e.p].terms :
                       Written(e).terms[f] = IF e.new[f] # e.old[f] THEN e.new[f]
                                                                    ELSE policy[e.p].terms[f]
<1>1. e.new \in Term /\ e.place \in Workplace /\ e.version \in Nat
  BY DEF Edit
<1>2. CASE e.op = "create"
  BY <1>1, <1>2 DEF Written, PolicyRow
<1>3. CASE e.op # "create"
  <2>1. PICK row \in PolicyRow : row = policy[e.p]
    BY <1>3, RowTypes
  <2>2. row.terms \in Term /\ row.live \in BOOLEAN
    BY DEF PolicyRow
  <2>3. PICK t : t = [f \in DOMAIN row.terms |->
                        IF e.new[f] # e.old[f] THEN e.new[f] ELSE row.terms[f]]
    OBVIOUS
  <2>4. t \in Term
    BY <1>1, <2>2, <2>3 DEF Term
  <2>5. PICK live \in BOOLEAN :
          Written(e) = [row EXCEPT !.terms = t, !.live = live, !.version = e.version + 1]
    BY <1>3, <2>1, <2>3 DEF Written
  <2>6. Written(e) \in PolicyRow /\ Written(e).terms = t /\ Written(e).place = row.place
    <3>1. PICK a : a = [row EXCEPT !.terms = t]
      OBVIOUS
    <3>2. PICK b : b = [a EXCEPT !.live = live]
      OBVIOUS
    <3>3. a \in PolicyRow /\ a.terms = t /\ a.place = row.place
      BY <2>4, <3>1 DEF PolicyRow
    <3>4. b \in PolicyRow /\ b.terms = t /\ b.place = row.place
      BY <3>2, <3>3 DEF PolicyRow
    <3>5. Written(e) = [b EXCEPT !.version = e.version + 1]
      BY <2>5, <3>1, <3>2, Zenon
    <3>. QED
      BY <1>1, <3>4, <3>5 DEF PolicyRow
  <2>. QED
    BY <1>3, <2>1, <2>3, <2>6
<1>. QED
  BY <1>2, <1>3

LEMMA StaffTypeKept == StaffTypeOK /\ StaffNext => StaffTypeOK'
BY DEF StaffTypeOK, StaffNext, Hire, Move, SetActive

(* The steps, by what they change.                                            *)
PolicyBegins(s) ==
    \/ \E w \in Workplace, t \in Terms : BeginCreatePolicy(s, w, t)
    \/ \E p \in PolicyId, t \in Terms : BeginUpdatePolicy(s, p, t)
    \/ \E p \in PolicyId : BeginRetirePolicy(s, p)

AskGoesOn(s) ==
    \/ \E e \in Employee, wish \in Wish : BeginSubmit(s, e, wish)
    \/ LockPolicy(s) \/ SumActive(s) \/ RefuseAsk(s)

TurnGoesOn(s) ==
    \/ \E op \in {"activate", "settle", "cancel"}, r \in LoanId : BeginTurn(s, op, r)
    \/ CheckHolder(s)

LEMMA LoanSteps ==
    ASSUME LoanNext
    PROVE  \/ NewYear \/ StaffStep
           \/ \E s \in Session : \/ PolicyBegins(s) \/ CommitPolicy(s)
                                 \/ AskGoesOn(s) \/ CommitAsk(s)
                                 \/ TurnGoesOn(s) \/ CommitTurn(s) \/ RollBack(s)
BY DEF LoanNext, PolicyBegins, AskGoesOn, TurnGoesOn, Submission

LEMMA PolicyBeginsType ==
    ASSUME LoanTypeOK, NEW s \in Session, PolicyBegins(s)
    PROVE  /\ \E e \in Edit : edit' = [edit EXCEPT ![s] = e] /\ EditSound(e)
           /\ UNCHANGED <<staffVars, year, policy, loan, diary, ask, turn>>
<1>. USE RowTypes, LoanConstants
<1>1. CASE \E w \in Workplace, t \in Terms : BeginCreatePolicy(s, w, t)
  <2>1. PICK w \in Workplace, t \in Terms : BeginCreatePolicy(s, w, t)
    BY <1>1
  <2>2. PICK e : e = [op |-> "create", p |-> None, place |-> w, old |-> t, new |-> t,
                      version |-> 0]
    OBVIOUS
  <2>3. e \in Edit /\ EditSound(e)
    BY <2>2 DEF Edit, EditSound
  <2>. QED
    BY <2>1, <2>2, <2>3 DEF BeginCreatePolicy
<1>2. CASE \E p \in PolicyId, t \in Terms : BeginUpdatePolicy(s, p, t)
  <2>1. PICK p \in PolicyId, t \in Terms : BeginUpdatePolicy(s, p, t)
    BY <1>2
  <2>2. PICK e : e = [op |-> "update", p |-> p, place |-> policy[p].place,
                      old |-> policy[p].terms, new |-> t, version |-> policy[p].version]
    OBVIOUS
  <2>3. policy[p] # None /\ policy[p] \in PolicyRow
    BY <2>1 DEF BeginUpdatePolicy
  <2>4. e \in Edit /\ EditSound(e)
    BY <2>2, <2>3 DEF Edit, EditSound, PolicyRow
  <2>. QED
    BY <2>1, <2>2, <2>4 DEF BeginUpdatePolicy
<1>3. CASE \E p \in PolicyId : BeginRetirePolicy(s, p)
  <2>1. PICK p \in PolicyId : BeginRetirePolicy(s, p)
    BY <1>3
  <2>2. PICK e : e = [op |-> "retire", p |-> p, place |-> policy[p].place,
                      old |-> policy[p].terms, new |-> policy[p].terms,
                      version |-> policy[p].version]
    OBVIOUS
  <2>3. policy[p] # None /\ policy[p] \in PolicyRow
    BY <2>1 DEF BeginRetirePolicy
  <2>4. e \in Edit /\ EditSound(e)
    BY <2>2, <2>3 DEF Edit, EditSound, PolicyRow
  <2>. QED
    BY <2>1, <2>2, <2>4 DEF BeginRetirePolicy
<1>. QED
  BY <1>1, <1>2, <1>3 DEF PolicyBegins

(* What a change of a policy leaves of it.                                    *)
LEMMA CommitPolicyType ==
    ASSUME LoanTypeOK, PolicyInv, NEW s \in Session, CommitPolicy(s)
    PROVE  /\ \E p \in PolicyId, row \in PolicyRow :
                 /\ ~Locked(p) /\ Admits(row, p) /\ BelowTerms(row.terms)
                 /\ policy' = [policy EXCEPT ![p] = row]
           /\ edit' = [edit EXCEPT ![s] = None]
           /\ UNCHANGED <<staffVars, year, loan, diary, ask, turn>>
<1>1. PICK e : e = edit[s]
  OBVIOUS
<1>2. e \in Edit /\ EditSound(e)
  BY <1>1, RowTypes DEF CommitPolicy, PolicyInv
<1>3. PICK p : p = IF e.op = "create" THEN NewPolicy ELSE e.p
  OBVIOUS
<1>4. PICK row : row = Written(e)
  OBVIOUS
<1>5. /\ p \in PolicyId /\ ~Locked(p) /\ Admits(row, p)
      /\ policy' = [policy EXCEPT ![p] = row]
      /\ edit' = [edit EXCEPT ![s] = None]
      /\ UNCHANGED <<staffVars, year, loan, diary, ask, turn>>
  BY <1>1, <1>3, <1>4 DEF CommitPolicy
<1>6. e.op # "create" => e.p \in PolicyId /\ policy[e.p] # None
  BY <1>2 DEF EditSound, Edit
<1>7. row \in PolicyRow
  BY <1>2, <1>4, <1>6, WrittenType
<1>8. BelowTerms(row.terms)
  <2>1. \A t \in Terms : BelowTerms(t)
    BY LoanConstants DEF BelowTerms, Term, Limits
  <2>2. CASE e.op = "create"
    <3>1. row.terms = e.new
      BY <1>2, <1>4, <1>6, <2>2, WrittenType
    <3>. QED
      BY <1>2, <2>1, <2>2, <3>1 DEF EditSound
  <2>3. CASE e.op # "create"
    <3>1. BelowTerms(policy[e.p].terms) /\ policy[e.p] \in PolicyRow
      BY <1>6, <2>3, RowTypes DEF PolicyInv
    <3>2. e.new # e.old => BelowTerms(e.new)
      BY <1>2, <2>1 DEF EditSound
    <3>3. \A f \in Limits : f \in DOMAIN policy[e.p].terms
      BY <3>1 DEF PolicyRow, Term, Limits
    <3>4. \A f \in Limits : row.terms[f] = IF e.new[f] # e.old[f] THEN e.new[f]
                                           ELSE policy[e.p].terms[f]
      BY <1>2, <1>4, <1>6, <2>3, <3>3, WrittenType
    <3>. QED
      BY <3>1, <3>2, <3>4 DEF BelowTerms
  <2>. QED
    BY <2>2, <2>3
<1>. QED
  BY <1>5, <1>7, <1>8

LEMMA TurnGoesOnType ==
    ASSUME LoanTypeOK, TurnInv, NEW s \in Session, TurnGoesOn(s)
    PROVE  /\ \E t \in Turn : turn' = [turn EXCEPT ![s] = t] /\ TurnSound(t)
           /\ UNCHANGED <<staffVars, year, policy, loan, diary, ask, edit>>
<1>. USE RowTypes
<1>1. CASE \E op \in {"activate", "settle", "cancel"}, r \in LoanId : BeginTurn(s, op, r)
  <2>1. PICK op \in {"activate", "settle", "cancel"}, r \in LoanId : BeginTurn(s, op, r)
    BY <1>1
  <2>2. PICK t : t = [op |-> op, r |-> r, version |-> loan[r].version,
                      checked |-> op # "activate"]
    OBVIOUS
  <2>3. loan[r] # None /\ loan[r] \in LoanRow /\ loan[r].status \in From(op)
    BY <2>1 DEF BeginTurn
  <2>4. t \in Turn
    BY <2>2, <2>3 DEF Turn, LoanRow
  <2>5. LoanTells(r)
    BY <2>3 DEF TurnInv, Loan
  <2>6. TurnSound(t)
    BY <2>2, <2>3, <2>5 DEF TurnSound, LoanTells, From
  <2>. QED
    BY <2>1, <2>2, <2>4, <2>6 DEF BeginTurn
<1>2. CASE CheckHolder(s)
  <2>1. turn[s] \in Turn /\ TurnSound(turn[s])
    BY <1>2 DEF CheckHolder, TurnInv
  <2>2. PICK t : t = [turn[s] EXCEPT !.checked = TRUE]
    OBVIOUS
  <2>3. t \in Turn /\ t.op = turn[s].op /\ t.r = turn[s].r /\ t.version = turn[s].version
    BY <2>1, <2>2 DEF Turn
  <2>4. TurnSound(t)
    BY <2>1, <2>3 DEF TurnSound
  <2>. QED
    BY <1>2, <2>2, <2>3, <2>4 DEF CheckHolder, LoanTypeOK
<1>. QED
  BY <1>1, <1>2 DEF TurnGoesOn

LEMMA AskGoesOnType ==
    ASSUME LoanTypeOK, NEW s \in Session, AskGoesOn(s)
    PROVE  /\ \E q \in Ask \cup {None} : ask' = [ask EXCEPT ![s] = q]
           /\ UNCHANGED <<staffVars, year, policy, loan, diary, turn, edit>>
<1>. USE RowTypes
<1>1. CASE \E e \in Employee, wish \in Wish : BeginSubmit(s, e, wish)
  <2>1. PICK e \in Employee, wish \in Wish : BeginSubmit(s, e, wish)
    BY <1>1
  <2>2. PICK q : q = [who |-> e, place |-> place[e], kind |-> wish.kind,
                      amount |-> wish.amount, year |-> year, policy |-> None,
                      checked |-> FALSE]
    OBVIOUS
  <2>3. place[e] \in Workplace /\ year \in Year
    BY <2>1 DEF BeginSubmit, LoanTypeOK, StaffTypeOK
  <2>4. wish.kind \in Kind /\ wish.amount \in Nat \ {0}
    BY LoanConstants
  <2>5. q \in Ask
    BY <2>2, <2>3, <2>4 DEF Ask
  <2>. QED
    BY <2>1, <2>2, <2>5 DEF BeginSubmit
<1>2. CASE LockPolicy(s)
  <2>1. PICK p \in PolicyId : ask' = [ask EXCEPT ![s].policy = p]
    BY <1>2 DEF LockPolicy, InForce
  <2>2. PICK q : q = [ask[s] EXCEPT !.policy = p]
    OBVIOUS
  <2>3. ask[s] \in Ask
    BY <1>2 DEF LockPolicy
  <2>4. q \in Ask
    BY <2>2, <2>3 DEF Ask
  <2>. QED
    BY <1>2, <2>1, <2>2, <2>4 DEF LockPolicy, LoanTypeOK
<1>3. CASE SumActive(s)
  <2>1. ask[s] \in Ask /\ ask' = [ask EXCEPT ![s].checked = TRUE]
    BY <1>3 DEF SumActive
  <2>2. PICK q : q = [ask[s] EXCEPT !.checked = TRUE]
    OBVIOUS
  <2>3. q \in Ask
    BY <2>1, <2>2 DEF Ask
  <2>. QED
    BY <1>3, <2>1, <2>2, <2>3 DEF SumActive, LoanTypeOK
<1>4. CASE RefuseAsk(s)
  BY <1>4 DEF RefuseAsk
<1>. QED
  BY <1>1, <1>2, <1>3, <1>4 DEF AskGoesOn

(* A new request takes the next row.                                          *)
LEMMA CommitAskType ==
    ASSUME LoanTypeOK, BoundInv, NEW s \in Session, CommitAsk(s)
    PROVE  \E r \in LoanId, q \in Ask, row \in LoanRow :
              /\ q = ask[s] /\ q # None /\ q.checked
              /\ loan[r] = None /\ Loan = 1..(r - 1)
              /\ loan' = [loan EXCEPT ![r] = row]
              /\ row.who = q.who /\ row.place = q.place /\ row.kind = q.kind
              /\ row.amount = q.amount /\ row.year = q.year
              /\ row.status = "pending" /\ ~row.stamped /\ row.version = 1
              /\ diary' = [diary EXCEPT ![r] = Append(diary[r], "create")]
              /\ ask' = [ask EXCEPT ![s] = None]
              /\ UNCHANGED <<staffVars, year, policy, turn, edit>>
<1>1. PICK q : q = ask[s]
  OBVIOUS
<1>2. q # None /\ q.checked /\ q \in Ask
  BY <1>1, RowTypes DEF CommitAsk
<1>3. PICK r : r = NewLoan
  OBVIOUS
<1>4. PICK row : row = [who |-> q.who, place |-> q.place, kind |-> q.kind,
                        amount |-> q.amount, year |-> q.year,
                        status |-> "pending", stamped |-> FALSE, version |-> 1]
  OBVIOUS
<1>5. row \in LoanRow
  BY <1>2, <1>4 DEF Ask, LoanRow, Status
<1>6. r \in LoanId
  BY <1>3 DEF CommitAsk
<1>7. PICK n \in 0..MaxLoans : Loan = 1..n
  BY DEF BoundInv, LoansInOrder
<1>8. r = n + 1 /\ n \in Nat
  <2>1. Cardinality(1..n) = n /\ n \in Nat
    BY FS_Interval, LoanConstants
  <2>. QED
    BY <1>3, <1>7, <2>1 DEF NewLoan
<1>9. loan[r] = None /\ Loan = 1..(r - 1)
  <2>1. r \notin 1..n /\ r - 1 = n
    BY <1>8
  <2>. QED
    BY <1>6, <1>7, <2>1 DEF Loan
<1>10. /\ loan' = [loan EXCEPT ![r] = row]
       /\ diary' = [diary EXCEPT ![r] = Append(diary[r], "create")]
       /\ ask' = [ask EXCEPT ![s] = None]
       /\ UNCHANGED <<staffVars, year, policy, turn, edit>>
  BY <1>1, <1>3, <1>4 DEF CommitAsk
<1>. QED
  BY <1>1, <1>2, <1>4, <1>5, <1>6, <1>9, <1>10

(* A transition writes status, stamp and version over whatever is there.      *)
LEMMA CommitTurnType ==
    ASSUME LoanTypeOK, TurnInv, NEW s \in Session, CommitTurn(s)
    PROVE  \E r \in LoanId, t \in Turn, row \in LoanRow :
              /\ t = turn[s] /\ t # None /\ r = t.r /\ loan[r] # None /\ TurnSound(t)
              /\ loan' = [loan EXCEPT ![r] = row]
              /\ row.who = loan[r].who /\ row.place = loan[r].place
              /\ row.kind = loan[r].kind /\ row.amount = loan[r].amount
              /\ row.year = loan[r].year
              /\ row.status = To(t.op) /\ row.version = t.version + 1
              /\ row.stamped = (loan[r].stamped \/ t.op = "settle")
              /\ diary' = [diary EXCEPT ![r] = Append(diary[r], t.op)]
              /\ turn' = [turn EXCEPT ![s] = None]
              /\ UNCHANGED <<staffVars, year, policy, ask, edit>>
<1>1. PICK t : t = turn[s]
  OBVIOUS
<1>2. t # None /\ t \in Turn /\ TurnSound(t)
  BY <1>1, RowTypes DEF CommitTurn, TurnInv
<1>3. PICK r \in LoanId : r = t.r
  BY <1>2 DEF Turn
<1>4. loan[r] # None /\ loan[r] \in LoanRow
  BY <1>2, <1>3, RowTypes DEF TurnSound
<1>5. t.op \in {"activate", "settle", "cancel"} /\ t.version \in Nat
  BY <1>2 DEF Turn
<1>6. PICK row : row = [loan[r] EXCEPT !.status = To(t.op),
                                       !.stamped = @ \/ t.op = "settle",
                                       !.version = t.version + 1]
  OBVIOUS
<1>7. To(t.op) \in Status
  BY <1>5 DEF To, Status
<1>8. /\ row \in LoanRow
      /\ row.who = loan[r].who /\ row.place = loan[r].place
      /\ row.kind = loan[r].kind /\ row.amount = loan[r].amount /\ row.year = loan[r].year
      /\ row.status = To(t.op) /\ row.version = t.version + 1
      /\ row.stamped = (loan[r].stamped \/ t.op = "settle")
  <2>1. PICK a : a = [loan[r] EXCEPT !.status = To(t.op)]
    OBVIOUS
  <2>2. PICK stamped \in BOOLEAN : stamped = (loan[r].stamped \/ t.op = "settle")
    OBVIOUS
  <2>3. PICK b : b = [a EXCEPT !.stamped = stamped]
    OBVIOUS
  <2>4. /\ a \in LoanRow /\ a.status = To(t.op)
        /\ a.who = loan[r].who /\ a.place = loan[r].place
        /\ a.kind = loan[r].kind /\ a.amount = loan[r].amount /\ a.year = loan[r].year
        /\ a.stamped = loan[r].stamped
    BY <1>4, <1>7, <2>1 DEF LoanRow
  <2>5. /\ b \in LoanRow /\ b.status = a.status /\ b.stamped = stamped
        /\ b.who = a.who /\ b.place = a.place
        /\ b.kind = a.kind /\ b.amount = a.amount /\ b.year = a.year
    BY <2>3, <2>4 DEF LoanRow
  <2>6. row = [b EXCEPT !.version = t.version + 1]
    <3>1. row = [[[loan[r] EXCEPT !.status = To(t.op)] EXCEPT !.stamped = stamped]
                     EXCEPT !.version = t.version + 1]
      <4>1. [loan[r] EXCEPT !.status = To(t.op)].stamped = loan[r].stamped
        BY <2>1, <2>4
      <4>. QED
        BY <1>6, <2>2, <4>1
    <3>. QED
      BY <2>1, <2>3, <3>1, Zenon
  <2>. QED
    BY <1>5, <2>2, <2>4, <2>5, <2>6 DEF LoanRow
<1>10. loan' = [loan EXCEPT ![r] = row]
  BY <1>1, <1>3, <1>6 DEF CommitTurn, LoanTypeOK
<1>11. /\ diary' = [diary EXCEPT ![r] = Append(diary[r], t.op)]
       /\ turn' = [turn EXCEPT ![s] = None]
       /\ UNCHANGED <<staffVars, year, policy, ask, edit>>
  BY <1>1, <1>3 DEF CommitTurn
<1>. QED
  BY <1>1, <1>2, <1>3, <1>4, <1>8, <1>10, <1>11

-----------------------------------------------------------------------------
(* Every step keeps the types *)

LEMMA LoanTypeNext == LoanInv /\ LoanNext => LoanTypeOK'
<1>. SUFFICES ASSUME LoanInv, LoanNext PROVE LoanTypeOK'
  OBVIOUS
<1>1. LoanTypeOK /\ PolicyInv /\ BoundInv /\ TurnInv
  BY DEF LoanInv
<1>2. CASE NewYear
  BY <1>1, <1>2 DEF NewYear, LoanTypeOK, StaffTypeOK, staffVars
<1>3. CASE StaffStep
  BY <1>1, <1>3, StaffTypeKept DEF StaffStep, LoanTypeOK
<1>4. ASSUME NEW s \in Session, PolicyBegins(s) PROVE LoanTypeOK'
  BY <1>1, <1>4, PolicyBeginsType DEF LoanTypeOK, StaffTypeOK, staffVars
<1>5. ASSUME NEW s \in Session, CommitPolicy(s) PROVE LoanTypeOK'
  BY <1>1, <1>5, CommitPolicyType DEF LoanTypeOK, StaffTypeOK, staffVars
<1>6. ASSUME NEW s \in Session, AskGoesOn(s) PROVE LoanTypeOK'
  BY <1>1, <1>6, AskGoesOnType DEF LoanTypeOK, StaffTypeOK, staffVars
<1>7. ASSUME NEW r \in LoanId, NEW row \in LoanRow,
             NEW action \in {"create", "activate", "settle", "cancel"},
             loan' = [loan EXCEPT ![r] = row],
             diary' = [diary EXCEPT ![r] = Append(diary[r], action)]
      PROVE  /\ loan' \in [LoanId -> LoanRow \cup {None}]
             /\ diary' \in [LoanId -> Seq({"create", "activate", "settle", "cancel"})]
  <2>1. Append(diary[r], action) \in Seq({"create", "activate", "settle", "cancel"})
    BY <1>1 DEF LoanTypeOK
  <2>. QED
    BY <1>1, <1>7, <2>1 DEF LoanTypeOK
<1>8. ASSUME NEW s \in Session, CommitAsk(s) PROVE LoanTypeOK'
  <2>1. PICK r \in LoanId, row \in LoanRow :
          /\ loan' = [loan EXCEPT ![r] = row]
          /\ diary' = [diary EXCEPT ![r] = Append(diary[r], "create")]
          /\ ask' = [ask EXCEPT ![s] = None]
          /\ UNCHANGED <<staffVars, year, policy, turn, edit>>
    BY <1>1, <1>8, CommitAskType
  <2>. QED
    BY <1>1, <1>7, <2>1 DEF LoanTypeOK, StaffTypeOK, staffVars
<1>9. ASSUME NEW s \in Session, TurnGoesOn(s) PROVE LoanTypeOK'
  BY <1>1, <1>9, TurnGoesOnType DEF LoanTypeOK, StaffTypeOK, staffVars
<1>10. ASSUME NEW s \in Session, CommitTurn(s) PROVE LoanTypeOK'
  <2>1. PICK r \in LoanId, t \in Turn, row \in LoanRow :
          /\ loan' = [loan EXCEPT ![r] = row]
          /\ diary' = [diary EXCEPT ![r] = Append(diary[r], t.op)]
          /\ turn' = [turn EXCEPT ![s] = None]
          /\ UNCHANGED <<staffVars, year, policy, ask, edit>>
    BY <1>1, <1>10, CommitTurnType
  <2>2. t.op \in {"create", "activate", "settle", "cancel"}
    BY DEF Turn
  <2>. QED
    BY <1>1, <1>7, <2>1, <2>2 DEF LoanTypeOK, StaffTypeOK, staffVars
<1>11. ASSUME NEW s \in Session, RollBack(s) PROVE LoanTypeOK'
  BY <1>1, <1>11 DEF RollBack, LoanTypeOK, StaffTypeOK, staffVars
<1>. QED
  BY <1>2, <1>3, <1>4, <1>5, <1>6, <1>8, <1>9, <1>10, <1>11, LoanSteps

-----------------------------------------------------------------------------
(* Every step keeps what is said of policies *)

LEMMA PolicyNext == LoanInv /\ LoanNext => PolicyInv'
<1>. SUFFICES ASSUME LoanInv, LoanNext PROVE PolicyInv'
  OBVIOUS
<1>1. LoanTypeOK /\ PolicyInv /\ BoundInv /\ TurnInv
  BY DEF LoanInv
<1>2. ASSUME policy' = policy,
             \A s \in Session : edit'[s] \in {None, edit[s]} \/
                                   \E e \in Edit : edit'[s] = e /\ EditSound(e)
      PROVE  PolicyInv'
  <2>1. PoliciesApart' /\ (\A p \in PolicyId : policy[p] # None => BelowTerms(policy[p].terms))'
    BY <1>1, <1>2 DEF PolicyInv, PoliciesApart, InForce
  <2>2. ASSUME NEW s \in Session, NEW e \in Edit, edit'[s] = e PROVE EditSound(e)'
    <3>1. EditSound(e)
      BY <1>1, <1>2, <2>2, NoneIsNoLoanRow DEF PolicyInv
    <3>. QED
      BY <1>2, <3>1 DEF EditSound
  <2>. QED
    BY <2>1, <2>2 DEF PolicyInv
<1>3. CASE NewYear \/ StaffStep
  BY <1>2, <1>3 DEF NewYear, StaffStep
<1>4. ASSUME NEW s \in Session, PolicyBegins(s) PROVE PolicyInv'
  BY <1>1, <1>2, <1>4, PolicyBeginsType DEF LoanTypeOK
<1>5. ASSUME NEW s \in Session, CommitPolicy(s) PROVE PolicyInv'
  <2>1. PICK p \in PolicyId, row \in PolicyRow :
          /\ Admits(row, p) /\ BelowTerms(row.terms)
          /\ policy' = [policy EXCEPT ![p] = row]
          /\ edit' = [edit EXCEPT ![s] = None]
    BY <1>1, <1>5, CommitPolicyType
  <2>2. row # None /\ policy'[p] = row /\ \A x \in PolicyId \ {p} : policy'[x] = policy[x]
    BY <1>1, <2>1, NoneIsNoLoanRow DEF LoanTypeOK
  <2>3. PoliciesApart'
    <3>1. SUFFICES ASSUME NEW w \in Workplace, NEW y \in Year,
                          NEW a \in InForce(w, y)', NEW b \in InForce(w, y)'
                   PROVE  a = b
      BY DEF PoliciesApart
    <3>2. \A x \in InForce(w, y)' : x = p \/ x \in InForce(w, y)
      BY <2>2 DEF InForce
    <3>3. p \in InForce(w, y)' => InForce(w, y) \subseteq {p}
      BY <2>1, <2>2 DEF InForce, Admits
    <3>. QED
      BY <1>1, <3>2, <3>3 DEF PolicyInv, PoliciesApart
  <2>4. \A x \in PolicyId : policy'[x] # None => BelowTerms(policy'[x].terms)
    BY <1>1, <2>1, <2>2 DEF PolicyInv
  <2>5. ASSUME NEW x \in Session, NEW e \in Edit, edit'[x] = e PROVE EditSound(e)'
    <3>1. EditSound(e)
      BY <1>1, <2>1, <2>5, NoneIsNoLoanRow DEF PolicyInv, LoanTypeOK
    <3>. QED
      BY <2>2, <3>1 DEF EditSound
  <2>. QED
    BY <2>3, <2>4, <2>5 DEF PolicyInv
<1>6. ASSUME NEW s \in Session, AskGoesOn(s) \/ CommitAsk(s) PROVE PolicyInv'
  <2>1. policy' = policy /\ edit' = edit
    BY <1>1, <1>6, AskGoesOnType DEF CommitAsk
  <2>. QED
    BY <1>2, <2>1
<1>7. ASSUME NEW s \in Session, TurnGoesOn(s) \/ CommitTurn(s) PROVE PolicyInv'
  <2>1. policy' = policy /\ edit' = edit
    BY <1>1, <1>7, TurnGoesOnType DEF CommitTurn
  <2>. QED
    BY <1>2, <2>1
<1>8. ASSUME NEW s \in Session, RollBack(s) PROVE PolicyInv'
  BY <1>1, <1>2, <1>8 DEF RollBack, LoanTypeOK
<1>. QED
  BY <1>3, <1>4, <1>5, <1>6, <1>7, <1>8, LoanSteps

-----------------------------------------------------------------------------
(* Counting requests *)

LEMMA MadeFinite ==
    ASSUME NEW e, NEW w, NEW y
    PROVE  /\ IsFiniteSet(Loan) /\ IsFiniteSet(MadeBy(e)) /\ IsFiniteSet(MadeInYear(e, y))
           /\ IsFiniteSet(MadeAt(e, w, y))
           /\ Cardinality(MadeAt(e, w, y)) \in Nat
           /\ Cardinality(MadeBy(e)) \in Nat /\ Cardinality(MadeInYear(e, y)) \in Nat
           /\ Cardinality(MadeAt(e, w, y)) <= Cardinality(MadeBy(e))
           /\ Cardinality(MadeAt(e, w, y)) <= Cardinality(MadeInYear(e, y))
<1>1. IsFiniteSet(LoanId)
  BY FS_Interval, LoanConstants DEF LoanId
<1>2. IsFiniteSet(Loan)
  BY <1>1, FS_Subset DEF Loan
<1>3. MadeBy(e) \subseteq Loan /\ MadeInYear(e, y) \subseteq MadeBy(e)
      /\ MadeAt(e, w, y) \subseteq MadeInYear(e, y)
  BY DEF MadeBy, MadeInYear, MadeAt
<1>4. IsFiniteSet(MadeBy(e)) /\ IsFiniteSet(MadeInYear(e, y)) /\ IsFiniteSet(MadeAt(e, w, y))
  BY <1>2, <1>3, FS_Subset
<1>5. MadeAt(e, w, y) \subseteq MadeBy(e)
  BY <1>3
<1>6. /\ Cardinality(MadeAt(e, w, y)) <= Cardinality(MadeBy(e))
      /\ Cardinality(MadeAt(e, w, y)) <= Cardinality(MadeInYear(e, y))
  BY <1>3, <1>4, <1>5, FS_Subset
<1>. QED
  BY <1>2, <1>4, <1>6, FS_CardinalityType

(* A transition moves no request to another employee, workplace or year.      *)
LEMMA MadeSame ==
    ASSUME LoanTypeOK, NEW r \in LoanId, NEW row \in LoanRow, loan[r] # None,
           loan' = [loan EXCEPT ![r] = row],
           row.who = loan[r].who, row.place = loan[r].place, row.kind = loan[r].kind,
           row.amount = loan[r].amount, row.year = loan[r].year
    PROVE  /\ Loan' = Loan
           /\ \A e, w, y : MadeAt(e, w, y)' = MadeAt(e, w, y)
           /\ \A x \in Loan : loan'[x].kind = loan[x].kind /\ loan'[x].amount = loan[x].amount
<1>1. row # None /\ loan'[r] = row /\ \A x \in LoanId \ {r} : loan'[x] = loan[x]
  BY NoneIsNoLoanRow DEF LoanTypeOK
<1>2. Loan' = Loan
  BY <1>1 DEF Loan
<1>3. \A e, w, y : MadeAt(e, w, y)' = MadeAt(e, w, y)
  BY <1>1, <1>2 DEF MadeAt, MadeInYear, MadeBy, Loan
<1>. QED
  BY <1>1, <1>2, <1>3 DEF Loan

LEMMA MadeMore ==
    ASSUME LoanTypeOK, NEW r \in LoanId, NEW row \in LoanRow, loan[r] = None,
           loan' = [loan EXCEPT ![r] = row]
    PROVE  /\ Loan' = Loan \cup {r} /\ r \notin Loan
           /\ \A x \in Loan : loan'[x] = loan[x]
           /\ \A e, w, y : MadeAt(e, w, y)' =
                 IF row.who = e /\ row.place = w /\ row.year = y
                 THEN MadeAt(e, w, y) \cup {r} ELSE MadeAt(e, w, y)
<1>1. row # None /\ loan'[r] = row /\ \A x \in LoanId \ {r} : loan'[x] = loan[x]
  BY NoneIsNoLoanRow DEF LoanTypeOK
<1>2. Loan' = Loan \cup {r} /\ r \notin Loan
  BY <1>1 DEF Loan
<1>3. \A e, w, y : MadeAt(e, w, y)' =
         IF row.who = e /\ row.place = w /\ row.year = y
         THEN MadeAt(e, w, y) \cup {r} ELSE MadeAt(e, w, y)
  BY <1>1, <1>2 DEF MadeAt, MadeInYear, MadeBy, Loan
<1>. QED
  BY <1>1, <1>2, <1>3 DEF Loan

(* A sum of amounts is a natural number, below as many times their bound as   *)
(* there are requests.                                                        *)
LEMMA UnitsBounded ==
    ASSUME NEW requests, IsFiniteSet(requests), NEW bound \in Nat,
           \A r \in requests : loan[r].amount \in Nat /\ loan[r].amount <= bound
    PROVE  /\ Cardinality(Units(requests)) \in Nat
           /\ Cardinality(Units(requests)) <= Cardinality(requests) * bound
<1>1. IsFiniteSet(1..bound) /\ Cardinality(1..bound) = bound
  BY FS_Interval
<1>2. /\ IsFiniteSet(requests \X (1..bound))
      /\ Cardinality(requests \X (1..bound)) = Cardinality(requests) * bound
  BY <1>1, FS_Product
<1>3. Units(requests) \subseteq requests \X (1..bound)
  BY DEF Units
<1>. QED
  BY <1>2, <1>3, FS_Subset, FS_CardinalityType

-----------------------------------------------------------------------------
(* Every step keeps what is said of submissions *)

(* What a submission has read is still so if nobody changes its policy and    *)
(* nobody asks for the same employee, workplace and year.                     *)
LEMMA AskKept ==
    ASSUME NEW q \in Ask, AskSound(q), q.policy # None => policy'[q.policy] = policy[q.policy],
           q.policy # None =>
              MadeAt(q.who, q.place, q.year)' = MadeAt(q.who, q.place, q.year)
    PROVE  AskSound(q)'
BY DEF AskSound, InForce

LEMMA AskFree ==
    ASSUME NEW q, q.policy = None, ~q.checked
    PROVE  AskSound(q)
BY DEF AskSound

LEMMA AskGoesOnSound ==
    ASSUME LoanInv, NEW s \in Session, AskGoesOn(s)
    PROVE  \E q \in Ask \cup {None} :
              /\ ask' = [ask EXCEPT ![s] = q]
              /\ q # None => AskSound(q)
              /\ q # None /\ q.policy # None =>
                    \/ ask[s] # None /\ ask[s].policy = q.policy
                    \/ ~Locked(q.policy)
<1>1. LoanTypeOK /\ AskInv /\ BoundInv
  BY DEF LoanInv
<1>2. PICK q \in Ask \cup {None} : ask' = [ask EXCEPT ![s] = q]
  BY <1>1, AskGoesOnType
<1>3. q = ask'[s]
  BY <1>1, <1>2 DEF LoanTypeOK
<1>4. CASE \E e \in Employee, wish \in Wish : BeginSubmit(s, e, wish)
  <2>1. q.policy = None /\ q.checked = FALSE
    BY <1>1, <1>3, <1>4 DEF BeginSubmit, LoanTypeOK
  <2>. QED
    BY <1>2, <2>1, AskFree
<1>5. CASE LockPolicy(s)
  <2>1. PICK p \in InForce(ask[s].place, ask[s].year) :
          /\ ~Locked(p) /\ WithinCounts(ask[s], policy[p].terms)
          /\ ask' = [ask EXCEPT ![s].policy = p]
    BY <1>5 DEF LockPolicy
  <2>2. /\ ask[s] \in Ask /\ ask[s].policy = None /\ AskSound(ask[s])
    BY <1>1, <1>5, RowTypes DEF LockPolicy, AskInv
  <2>3. ~ask[s].checked
    BY <2>2 DEF AskSound
  <2>4. q = [ask[s] EXCEPT !.policy = p]
    BY <1>1, <1>3, <2>1 DEF LoanTypeOK
  <2>5. /\ q.policy = p /\ q.who = ask[s].who /\ q.place = ask[s].place
        /\ q.year = ask[s].year /\ q.checked = ask[s].checked
    BY <2>2, <2>4 DEF Ask
  <2>6. policy[p] \in PolicyRow
    BY <1>1, <2>1, RowTypes DEF InForce
  <2>7. policy[p].terms.perYear \in Nat /\ policy[p].terms.lifetime \in Nat
    BY <2>6 DEF PolicyRow, Term
  <2>8. /\ Cardinality(MadeAt(q.who, q.place, q.year)) < policy[p].terms.perYear
        /\ Cardinality(MadeAt(q.who, q.place, q.year)) < policy[p].terms.lifetime
        /\ policy[p].terms.active
    <3>1. /\ Cardinality(MadeBy(q.who)) < policy[p].terms.lifetime
          /\ Cardinality(MadeInYear(q.who, q.year)) < policy[p].terms.perYear
          /\ policy[p].terms.active
      BY <2>1, <2>5 DEF WithinCounts
    <3>. QED
      BY <2>7, <3>1, MadeFinite
  <2>9. AskSound(q)
    BY <2>1, <2>3, <2>5, <2>8 DEF AskSound
  <2>. QED
    BY <1>2, <2>1, <2>5, <2>9
<1>6. CASE SumActive(s)
  <2>1. /\ ask[s] \in Ask /\ ask[s] # None /\ ask[s].policy # None /\ AskSound(ask[s])
        /\ ActiveSum(ask[s].who, ask[s].year, ask[s].kind) + ask[s].amount
              <= policy[ask[s].policy].terms[ask[s].kind]
        /\ ask' = [ask EXCEPT ![s].checked = TRUE]
    BY <1>1, <1>6, RowTypes DEF SumActive, AskInv
  <2>2. q = [ask[s] EXCEPT !.checked = TRUE]
    BY <1>1, <1>3, <2>1 DEF LoanTypeOK
  <2>3. /\ q.policy = ask[s].policy /\ q.who = ask[s].who /\ q.place = ask[s].place
        /\ q.year = ask[s].year /\ q.kind = ask[s].kind /\ q.amount = ask[s].amount
        /\ q.amount \in Nat /\ q.kind \in Kind
    BY <2>1, <2>2 DEF Ask
  <2>4. q.policy \in InForce(q.place, q.year)
    BY <2>1, <2>3 DEF AskSound
  <2>5. policy[q.policy].terms[q.kind] \in Nat
    BY <1>1, <2>3, <2>4, RowTypes DEF InForce, PolicyRow, Term, Kind
  <2>6. ActiveSum(q.who, q.year, q.kind) \in Nat
    <3>1. PICK t \in Terms : AmountsBelow(q.kind, t)
      BY <1>1, <2>3 DEF BoundInv
    <3>2. t[q.kind] \in Nat
      BY <2>3, LoanConstants DEF Term, Kind
    <3>3. Active(q.who, q.year, q.kind) \subseteq Loan
      BY DEF Active, MadeInYear, MadeBy
    <3>4. IsFiniteSet(Active(q.who, q.year, q.kind))
      BY <3>3, MadeFinite, FS_Subset
    <3>5. \A r \in Active(q.who, q.year, q.kind) :
             loan[r].amount \in Nat /\ loan[r].amount <= t[q.kind]
      BY <1>1, <3>1, <3>3, RowTypes DEF AmountsBelow, Active, Loan, LoanRow
    <3>. QED
      BY <3>2, <3>4, <3>5, UnitsBounded DEF ActiveSum
  <2>7. q.amount <= policy[q.policy].terms[q.kind]
    BY <2>1, <2>3, <2>5, <2>6
  <2>8. AskSound(q)
    BY <2>1, <2>3, <2>7 DEF AskSound
  <2>. QED
    BY <1>2, <2>1, <2>3, <2>8
<1>7. CASE RefuseAsk(s)
  BY <1>1, <1>2, <1>3, <1>7 DEF RefuseAsk, LoanTypeOK
<1>. QED
  BY <1>4, <1>5, <1>6, <1>7 DEF AskGoesOn

LEMMA AskNext == LoanInv /\ LoanNext => AskInv'
<1>. SUFFICES ASSUME LoanInv, LoanNext PROVE AskInv'
  OBVIOUS
<1>1. LoanTypeOK /\ PolicyInv /\ AskInv /\ BoundInv /\ TurnInv
  BY DEF LoanInv
<1>2. ASSUME policy' = policy, \A e, w, y : MadeAt(e, w, y)' = MadeAt(e, w, y), ask' = ask
      PROVE  AskInv'
  BY <1>1, <1>2, AskKept DEF AskInv
<1>3. ASSUME loan' = loan PROVE \A e, w, y : MadeAt(e, w, y)' = MadeAt(e, w, y)
  BY <1>3 DEF MadeAt, MadeInYear, MadeBy, Loan
<1>4. CASE NewYear \/ StaffStep
  BY <1>2, <1>3, <1>4 DEF NewYear, StaffStep
<1>5. ASSUME NEW s \in Session, PolicyBegins(s) PROVE AskInv'
  BY <1>1, <1>2, <1>3, <1>5, PolicyBeginsType
<1>6. ASSUME NEW s \in Session, CommitPolicy(s) PROVE AskInv'
  <2>1. PICK p \in PolicyId, row \in PolicyRow :
          ~Locked(p) /\ policy' = [policy EXCEPT ![p] = row]
    BY <1>1, <1>6, CommitPolicyType
  <2>2. loan' = loan /\ ask' = ask
    BY <1>6 DEF CommitPolicy
  <2>3. ASSUME NEW x \in Session, NEW q \in Ask, ask[x] = q PROVE AskSound(q)'
    <3>1. AskSound(q) /\ q # None
      BY <1>1, <2>3, NoneIsNoLoanRow DEF AskInv
    <3>2. q.policy # p
      BY <2>1, <2>3, <3>1 DEF Locked
    <3>3. q.policy # None => q.policy \in PolicyId
      BY DEF Ask
    <3>4. q.policy # None => policy'[q.policy] = policy[q.policy]
      BY <1>1, <2>1, <3>2, <3>3 DEF LoanTypeOK
    <3>. QED
      BY <1>3, <2>2, <3>1, <3>4, AskKept
  <2>. QED
    BY <1>1, <2>2, <2>3 DEF AskInv
<1>7. ASSUME NEW s \in Session, AskGoesOn(s) PROVE AskInv'
  <2>1. policy' = policy /\ loan' = loan
    BY <1>1, <1>7, AskGoesOnType
  <2>2. PICK new \in Ask \cup {None} :
          /\ ask' = [ask EXCEPT ![s] = new]
          /\ new # None => AskSound(new)
          /\ new # None /\ new.policy # None =>
                \/ ask[s] # None /\ ask[s].policy = new.policy
                \/ ~Locked(new.policy)
    BY <1>7, AskGoesOnSound
  <2>3. ask'[s] = new /\ \A x \in Session \ {s} : ask'[x] = ask[x]
    BY <1>1, <2>2 DEF LoanTypeOK
  <2>4. ASSUME NEW x \in Session, NEW q \in Ask, ask'[x] = q PROVE AskSound(q)'
    <3>1. AskSound(q)
      BY <1>1, <2>2, <2>3, <2>4, NoneIsNoLoanRow DEF AskInv
    <3>. QED
      BY <1>3, <2>1, <3>1, AskKept
  <2>5. ASSUME NEW x \in Session, NEW y \in Session, ask'[x] # None, ask'[y] # None,
               ask'[x].policy # None, ask'[x].policy = ask'[y].policy
        PROVE  x = y
    BY <1>1, <2>2, <2>3, <2>5 DEF AskInv, Locked
  <2>. QED
    BY <2>4, <2>5 DEF AskInv
<1>8. ASSUME NEW s \in Session, CommitAsk(s) PROVE AskInv'
  <2>1. PICK r \in LoanId, new \in Ask, row \in LoanRow :
          /\ new = ask[s] /\ new # None /\ new.checked
          /\ loan[r] = None /\ loan' = [loan EXCEPT ![r] = row]
          /\ row.who = new.who /\ row.place = new.place /\ row.year = new.year
          /\ ask' = [ask EXCEPT ![s] = None]
          /\ policy' = policy
    BY <1>1, <1>8, CommitAskType
  <2>2. ask'[s] = None /\ \A x \in Session \ {s} : ask'[x] = ask[x]
    BY <1>1, <2>1 DEF LoanTypeOK
  <2>3. AskSound(new) /\ new.policy # None
    BY <1>1, <2>1 DEF AskInv, AskSound
  <2>4. \A e, w, y : MadeAt(e, w, y)' = IF row.who = e /\ row.place = w /\ row.year = y
                                        THEN MadeAt(e, w, y) \cup {r} ELSE MadeAt(e, w, y)
    BY <1>1, <2>1, MadeMore
  <2>5. ASSUME NEW x \in Session, NEW q \in Ask, ask'[x] = q PROVE AskSound(q)'
    <3>1. x # s /\ ask[x] = q /\ AskSound(q) /\ q # None
      BY <1>1, <2>2, <2>5, NoneIsNoLoanRow DEF AskInv
    <3>2. ASSUME q.policy # None, q.place = new.place, q.year = new.year PROVE FALSE
      <4>1. q.policy = new.policy
        <5>1. q.policy \in InForce(q.place, q.year) /\ new.policy \in InForce(q.place, q.year)
          BY <2>3, <3>1, <3>2 DEF AskSound
        <5>2. q.place \in Workplace /\ q.year \in Year
          BY DEF Ask
        <5>. QED
          BY <1>1, <5>1, <5>2 DEF PolicyInv, PoliciesApart
      <4>. QED
        BY <1>1, <2>1, <3>1, <3>2, <4>1 DEF AskInv
    <3>3. q.policy # None => MadeAt(q.who, q.place, q.year)' = MadeAt(q.who, q.place, q.year)
      <4>1. SUFFICES ASSUME q.policy # None
                     PROVE  MadeAt(q.who, q.place, q.year)' = MadeAt(q.who, q.place, q.year)
        OBVIOUS
      <4>2. ~(row.place = q.place /\ row.year = q.year)
        BY <2>1, <3>2, <4>1
      <4>. QED
        BY <2>4, <4>2
    <3>. QED
      BY <2>1, <3>1, <3>3, AskKept
  <2>6. ASSUME NEW x \in Session, NEW y \in Session, ask'[x] # None, ask'[y] # None,
               ask'[x].policy # None, ask'[x].policy = ask'[y].policy
        PROVE  x = y
    BY <1>1, <2>2, <2>6 DEF AskInv
  <2>. QED
    BY <2>5, <2>6 DEF AskInv
<1>9. ASSUME NEW s \in Session, TurnGoesOn(s) PROVE AskInv'
  BY <1>1, <1>2, <1>3, <1>9, TurnGoesOnType
<1>10. ASSUME NEW s \in Session, CommitTurn(s) PROVE AskInv'
  <2>1. PICK r \in LoanId, row \in LoanRow :
          /\ loan[r] # None /\ loan' = [loan EXCEPT ![r] = row]
          /\ row.who = loan[r].who /\ row.place = loan[r].place
          /\ row.kind = loan[r].kind /\ row.amount = loan[r].amount
          /\ row.year = loan[r].year
          /\ policy' = policy /\ ask' = ask
    BY <1>1, <1>10, CommitTurnType
  <2>. QED
    BY <1>1, <1>2, <2>1, MadeSame
<1>11. ASSUME NEW s \in Session, RollBack(s) PROVE AskInv'
  <2>1. policy' = policy /\ loan' = loan /\ ask' = [ask EXCEPT ![s] = None]
    BY <1>11 DEF RollBack
  <2>2. ask'[s] = None /\ \A x \in Session \ {s} : ask'[x] = ask[x]
    BY <1>1, <2>1 DEF LoanTypeOK
  <2>3. ASSUME NEW x \in Session, NEW q \in Ask, ask'[x] = q PROVE AskSound(q)'
    BY <1>1, <1>3, <2>1, <2>2, <2>3, AskKept, NoneIsNoLoanRow DEF AskInv
  <2>4. ASSUME NEW x \in Session, NEW y \in Session, ask'[x] # None, ask'[y] # None,
               ask'[x].policy # None, ask'[x].policy = ask'[y].policy
        PROVE  x = y
    BY <1>1, <2>2, <2>4 DEF AskInv
  <2>. QED
    BY <2>3, <2>4 DEF AskInv
<1>. QED
  BY <1>4, <1>5, <1>6, <1>7, <1>8, <1>9, <1>10, <1>11, LoanSteps

-----------------------------------------------------------------------------
(* Every step keeps the bounds on what is asked for *)

(* A request that is committed is within the limits of its policy.            *)
LEMMA AskWithin ==
    ASSUME LoanInv, NEW s \in Session, CommitAsk(s), NEW q, q = ask[s]
    PROVE  /\ q \in Ask /\ q.policy \in InForce(q.place, q.year)
           /\ policy[q.policy] \in PolicyRow
           /\ policy[q.policy].terms.active
           /\ q.amount <= policy[q.policy].terms[q.kind]
           /\ Cardinality(MadeAt(q.who, q.place, q.year)) + 1 <= policy[q.policy].terms.perYear
           /\ Cardinality(MadeAt(q.who, q.place, q.year)) + 1 <= policy[q.policy].terms.lifetime
<1>1. q \in Ask /\ q.checked
  BY RowTypes DEF LoanInv, CommitAsk
<1>2. AskSound(q)
  BY <1>1 DEF LoanInv, AskInv
<1>3. q.policy \in InForce(q.place, q.year)
  BY <1>1, <1>2 DEF AskSound
<1>4. policy[q.policy] \in PolicyRow
  BY <1>3, RowTypes DEF InForce, LoanInv
<1>5. policy[q.policy].terms.perYear \in Nat /\ policy[q.policy].terms.lifetime \in Nat
  BY <1>4 DEF PolicyRow, Term
<1>6. /\ policy[q.policy].terms.active
      /\ q.amount <= policy[q.policy].terms[q.kind]
      /\ Cardinality(MadeAt(q.who, q.place, q.year)) < policy[q.policy].terms.perYear
      /\ Cardinality(MadeAt(q.who, q.place, q.year)) < policy[q.policy].terms.lifetime
  BY <1>1, <1>2 DEF AskSound
<1>. QED
  BY <1>1, <1>3, <1>4, <1>5, <1>6, MadeFinite

LEMMA BoundNext == LoanInv /\ LoanNext => BoundInv'
<1>. SUFFICES ASSUME LoanInv, LoanNext PROVE BoundInv'
  OBVIOUS
<1>1. LoanTypeOK /\ PolicyInv /\ BoundInv /\ TurnInv
  BY DEF LoanInv
<1>2. ASSUME Loan' = Loan, \A e, w, y : MadeAt(e, w, y)' = MadeAt(e, w, y),
             \A x \in Loan : loan'[x].kind = loan[x].kind /\ loan'[x].amount = loan[x].amount
      PROVE  BoundInv'
  <2>1. LoansInOrder'
    BY <1>1, <1>2 DEF BoundInv, LoansInOrder
  <2>2. ASSUME NEW k \in Kind PROVE \E t \in Terms : AmountsBelow(k, t)'
    BY <1>1, <1>2 DEF BoundInv, AmountsBelow
  <2>3. \E t \in Terms : CountsBelow(t)'
    BY <1>1, <1>2 DEF BoundInv, CountsBelow
  <2>. QED
    BY <2>1, <2>2, <2>3 DEF BoundInv
<1>3. ASSUME loan' = loan PROVE BoundInv'
  BY <1>2, <1>3 DEF MadeAt, MadeInYear, MadeBy, Loan
<1>4. CASE NewYear \/ StaffStep
  BY <1>3, <1>4 DEF NewYear, StaffStep
<1>5. ASSUME NEW s \in Session, \/ PolicyBegins(s) \/ CommitPolicy(s) \/ AskGoesOn(s)
                                \/ TurnGoesOn(s) \/ RollBack(s)
      PROVE  BoundInv'
  <2>1. loan' = loan
    BY <1>1, <1>5, PolicyBeginsType, AskGoesOnType, TurnGoesOnType DEF CommitPolicy, RollBack
  <2>. QED
    BY <1>3, <2>1
<1>6. ASSUME NEW s \in Session, CommitTurn(s) PROVE BoundInv'
  <2>1. PICK r \in LoanId, row \in LoanRow :
          /\ loan[r] # None /\ loan' = [loan EXCEPT ![r] = row]
          /\ row.who = loan[r].who /\ row.place = loan[r].place
          /\ row.kind = loan[r].kind /\ row.amount = loan[r].amount
          /\ row.year = loan[r].year
    BY <1>1, <1>6, CommitTurnType
  <2>. QED
    BY <1>1, <1>2, <2>1, MadeSame
<1>7. ASSUME NEW s \in Session, CommitAsk(s) PROVE BoundInv'
  <2>1. PICK r \in LoanId, q \in Ask, row \in LoanRow :
          /\ q = ask[s] /\ loan[r] = None /\ Loan = 1..(r - 1)
          /\ loan' = [loan EXCEPT ![r] = row]
          /\ row.who = q.who /\ row.place = q.place /\ row.kind = q.kind
          /\ row.amount = q.amount /\ row.year = q.year
    BY <1>1, <1>7, CommitAskType
  <2>2. /\ Loan' = Loan \cup {r} /\ r \notin Loan
        /\ \A x \in Loan : loan'[x] = loan[x]
        /\ loan'[r] = row
    BY <1>1, <2>1, MadeMore DEF LoanTypeOK
  <2>3. \A e, w, y : MadeAt(e, w, y)' = IF row.who = e /\ row.place = w /\ row.year = y
                                        THEN MadeAt(e, w, y) \cup {r} ELSE MadeAt(e, w, y)
    BY <1>1, <2>1, MadeMore
  <2>. DEFINE t == policy[q.policy].terms
  <2>4. /\ policy[q.policy] \in PolicyRow /\ q.policy \in PolicyId /\ policy[q.policy] # None
        /\ q.amount <= t[q.kind]
        /\ Cardinality(MadeAt(q.who, q.place, q.year)) + 1 <= t.perYear
    BY <1>7, <2>1, AskWithin DEF InForce
  <2>5. t \in Term /\ q.kind \in Kind /\ q.amount \in Nat
    BY <2>4 DEF PolicyRow, Ask
  <2>6. BelowTerms(t)
    BY <1>1, <2>4 DEF PolicyInv
  <2>. HIDE DEF t
  <2>7. LoansInOrder'
    <3>1. Loan' = 1..r
      BY <2>1, <2>2, LoanConstants DEF LoanId
    <3>. QED
      BY <3>1, LoanConstants DEF LoansInOrder, LoanId
  <2>8. ASSUME NEW k \in Kind PROVE \E u \in Terms : AmountsBelow(k, u)'
    <3>1. PICK u \in Terms : AmountsBelow(k, u)
      BY <1>1 DEF BoundInv
    <3>2. CASE k # q.kind
      BY <2>1, <2>2, <3>1, <3>2 DEF AmountsBelow
    <3>3. CASE k = q.kind
      <4>1. PICK v \in Terms : t[k] <= v[k]
        BY <2>5, <2>6, <3>3 DEF BelowTerms, Limits, Kind
      <4>2. t[k] \in Nat /\ u[k] \in Nat /\ v[k] \in Nat
        BY <2>5, LoanConstants DEF Term, Kind
      <4>3. q.amount <= v[k]
        BY <2>4, <2>5, <3>3, <4>1, <4>2
      <4>4. \A x \in Loan : loan[x].amount \in Nat
        BY <1>1, RowTypes DEF Loan, LoanRow
      <4>5. CASE u[k] <= v[k]
        <5>1. AmountsBelow(k, v)'
          BY <2>1, <2>2, <3>1, <4>2, <4>3, <4>4, <4>5 DEF AmountsBelow
        <5>. QED
          BY <5>1
      <4>6. CASE v[k] <= u[k]
        <5>1. AmountsBelow(k, u)'
          BY <2>1, <2>2, <2>5, <3>1, <4>2, <4>3, <4>6 DEF AmountsBelow
        <5>. QED
          BY <5>1
      <4>. QED
        BY <4>2, <4>5, <4>6
    <3>. QED
      BY <3>2, <3>3
  <2>9. \E u \in Terms : CountsBelow(u)'
    <3>1. PICK u \in Terms : CountsBelow(u)
      BY <1>1 DEF BoundInv
    <3>2. PICK v \in Terms : t.perYear <= v.perYear
      BY <2>6 DEF BelowTerms, Limits
    <3>3. t.perYear \in Nat /\ u.perYear \in Nat /\ v.perYear \in Nat
      BY <2>5, LoanConstants DEF Term
    <3>4. ASSUME NEW e \in Employee, NEW w \in Workplace, NEW y \in Year
          PROVE  \/ Cardinality(MadeAt(e, w, y)') <= t.perYear
                 \/ Cardinality(MadeAt(e, w, y)') = Cardinality(MadeAt(e, w, y))
      <4>1. CASE row.who = e /\ row.place = w /\ row.year = y
        <5>1. MadeAt(e, w, y)' = MadeAt(e, w, y) \cup {r}
          BY <2>3, <4>1
        <5>2. r \notin MadeAt(e, w, y)
          BY <2>2 DEF MadeAt, MadeInYear, MadeBy
        <5>3. Cardinality(MadeAt(e, w, y) \cup {r}) = Cardinality(MadeAt(e, w, y)) + 1
          BY <5>2, MadeFinite, FS_AddElement
        <5>. QED
          BY <2>1, <2>4, <4>1, <5>1, <5>3
      <4>2. CASE ~(row.who = e /\ row.place = w /\ row.year = y)
        BY <2>3, <4>2
      <4>. QED
        BY <4>1, <4>2
    <3>5. \A e \in Employee, w \in Workplace, y \in Year :
             /\ Cardinality(MadeAt(e, w, y)) <= u.perYear
             /\ Cardinality(MadeAt(e, w, y)) \in Nat
      BY <3>1, MadeFinite DEF CountsBelow
    <3>6. \A e \in Employee, w \in Workplace, y \in Year :
             \/ Cardinality(MadeAt(e, w, y)') <= t.perYear
             \/ /\ Cardinality(MadeAt(e, w, y)') <= u.perYear
                /\ Cardinality(MadeAt(e, w, y)') \in Nat
      BY <3>4, <3>5
    <3>7. \A e \in Employee, w \in Workplace, y \in Year :
             Cardinality(MadeAt(e, w, y)') \in Nat
      <4>1. ASSUME NEW e \in Employee, NEW w \in Workplace, NEW y \in Year
            PROVE  Cardinality(MadeAt(e, w, y)') \in Nat
        <5>1. IsFiniteSet(MadeAt(e, w, y)')
          <6>1. IsFiniteSet(MadeAt(e, w, y)) /\ IsFiniteSet(MadeAt(e, w, y) \cup {r})
            BY MadeFinite, FS_AddElement
          <6>. QED
            BY <2>3, <6>1
        <5>. QED
          BY <5>1, FS_CardinalityType
      <4>. QED
        BY <4>1
    <3>8. CASE u.perYear <= v.perYear
      <4>1. CountsBelow(v)'
        BY <3>2, <3>3, <3>6, <3>7, <3>8 DEF CountsBelow
      <4>. QED
        BY <4>1
    <3>9. CASE v.perYear <= u.perYear
      <4>1. CountsBelow(u)'
        BY <3>2, <3>3, <3>6, <3>7, <3>9 DEF CountsBelow
      <4>. QED
        BY <4>1
    <3>. QED
      BY <3>3, <3>8, <3>9
  <2>. QED
    BY <2>7, <2>8, <2>9 DEF BoundInv
<1>. QED
  BY <1>4, <1>5, <1>6, <1>7, LoanSteps

-----------------------------------------------------------------------------
(* Every step keeps what is said of transitions *)

(* Appending to the diary of a request keeps what it had, at its place.       *)
LEMMA DiaryGrows ==
    ASSUME LoanTypeOK, NEW r \in LoanId, NEW action,
           action \in {"create", "activate", "settle", "cancel"},
           diary' = [diary EXCEPT ![r] = Append(diary[r], action)]
    PROVE  /\ \A x \in LoanId \ {r} : diary'[x] = diary[x]
           /\ \A x \in LoanId : \A a : Has(x, a) => Has(x, a)'
           /\ \E i \in DOMAIN diary'[r] : diary'[r][i] = action
           /\ \A a : Has(r, a)' => Has(r, a) \/ a = action
           /\ \A i \in DOMAIN diary'[r] :
                 \/ i \in DOMAIN diary[r] /\ diary'[r][i] = diary[r][i]
                 \/ i = Len(diary[r]) + 1 /\ diary'[r][i] = action
           /\ \A i \in DOMAIN diary[r] :
                 i \in 1..Len(diary[r]) /\ i \in DOMAIN diary'[r] /\ diary'[r][i] = diary[r][i]
           /\ Len(diary[r]) \in Nat
<1>1. diary[r] \in Seq({"create", "activate", "settle", "cancel"})
      /\ diary'[r] = Append(diary[r], action)
      /\ \A x \in LoanId \ {r} : diary'[x] = diary[x]
  BY DEF LoanTypeOK
<1>2. /\ Len(diary[r]) \in Nat /\ DOMAIN diary[r] = 1..Len(diary[r])
      /\ DOMAIN diary'[r] = 1..(Len(diary[r]) + 1)
      /\ \A i \in 1..Len(diary[r]) : diary'[r][i] = diary[r][i]
      /\ diary'[r][Len(diary[r]) + 1] = action
  BY <1>1
<1>3. \A i \in DOMAIN diary'[r] :
         \/ i \in DOMAIN diary[r] /\ diary'[r][i] = diary[r][i]
         \/ i = Len(diary[r]) + 1 /\ diary'[r][i] = action
  BY <1>2
<1>4. \A i \in DOMAIN diary[r] :
         i \in 1..Len(diary[r]) /\ i \in DOMAIN diary'[r] /\ diary'[r][i] = diary[r][i]
  BY <1>2
<1>5. /\ \E i \in DOMAIN diary'[r] : diary'[r][i] = action
      /\ \A a : Has(r, a)' => Has(r, a) \/ a = action
  BY <1>2, <1>3 DEF Has
<1>6. \A x \in LoanId : \A a : Has(x, a) => Has(x, a)'
  BY <1>1, <1>4 DEF Has
<1>. QED
  BY <1>1, <1>2, <1>3, <1>4, <1>5, <1>6

(* An entry written keeps the others, and the order of settlements.           *)
LEMMA DiaryOrdered ==
    ASSUME LoanTypeOK, NEW r \in LoanId, NEW action,
           action \in {"create", "activate", "settle", "cancel"},
           diary' = [diary EXCEPT ![r] = Append(diary[r], action)],
           action = "settle" => Has(r, "activate"),
           \A i \in DOMAIN diary[r] :
              diary[r][i] = "settle" => \E j \in 1..(i - 1) : diary[r][j] = "activate"
    PROVE  \A i \in DOMAIN diary'[r] :
              diary'[r][i] = "settle" => \E j \in 1..(i - 1) : diary'[r][j] = "activate"
<1>. SUFFICES ASSUME NEW i \in DOMAIN diary'[r], diary'[r][i] = "settle"
              PROVE  \E j \in 1..(i - 1) : diary'[r][j] = "activate"
  OBVIOUS
<1>1. DOMAIN diary[r] = 1..Len(diary[r]) /\ Len(diary[r]) \in Nat
  BY DEF LoanTypeOK
<1>2. CASE i \in DOMAIN diary[r] /\ diary'[r][i] = diary[r][i]
  <2>1. PICK j \in 1..(i - 1) : diary[r][j] = "activate"
    BY <1>2
  <2>2. j \in DOMAIN diary[r]
    BY <1>1, <1>2
  <2>. QED
    BY <2>1, <2>2, DiaryGrows
<1>3. CASE i = Len(diary[r]) + 1 /\ action = "settle"
  <2>1. PICK j \in DOMAIN diary[r] : diary[r][j] = "activate"
    BY <1>3 DEF Has
  <2>2. j \in 1..(i - 1) /\ diary'[r][j] = "activate"
    BY <1>1, <1>3, <2>1, DiaryGrows
  <2>. QED
    BY <2>2
<1>. QED
  BY <1>2, <1>3, DiaryGrows

(* What a transition has read stays so, whatever others write.                *)
LEMMA TurnKept ==
    ASSUME NEW t \in Turn, TurnSound(t), \A r \in LoanId : loan[r] # None => loan'[r] # None,
           \A r \in LoanId : \A a : Has(r, a) => Has(r, a)'
    PROVE  TurnSound(t)'
<1>1. t.r \in LoanId
  BY DEF Turn
<1>. QED
  BY <1>1 DEF TurnSound

LEMMA TurnNext == LoanInv /\ LoanNext => TurnInv'
<1>. SUFFICES ASSUME LoanInv, LoanNext PROVE TurnInv'
  OBVIOUS
<1>1. LoanTypeOK /\ PolicyInv /\ BoundInv /\ TurnInv
  BY DEF LoanInv
<1>2. ASSUME loan' = loan, diary' = diary,
             \A s \in Session : turn'[s] \in {None, turn[s]} \/
                                   \E t \in Turn : turn'[s] = t /\ TurnSound(t)
      PROVE  TurnInv'
  <2>1. (\A r \in Loan : LoanTells(r))' /\ (\A r \in LoanId \ Loan : diary[r] = <<>>)'
    BY <1>1, <1>2 DEF TurnInv, LoanTells, Loan, Has
  <2>2. ASSUME NEW s \in Session, NEW t \in Turn, turn'[s] = t PROVE TurnSound(t)'
    <3>1. TurnSound(t)
      BY <1>1, <1>2, <2>2, NoneIsNoLoanRow DEF TurnInv
    <3>. QED
      BY <1>2, <3>1 DEF TurnSound, Has
  <2>. QED
    BY <2>1, <2>2 DEF TurnInv
<1>3. CASE NewYear \/ StaffStep
  BY <1>2, <1>3 DEF NewYear, StaffStep
<1>4. ASSUME NEW s \in Session, PolicyBegins(s) \/ CommitPolicy(s) \/ AskGoesOn(s)
      PROVE  TurnInv'
  <2>1. loan' = loan /\ diary' = diary /\ turn' = turn
    BY <1>1, <1>4, PolicyBeginsType, AskGoesOnType DEF CommitPolicy
  <2>. QED
    BY <1>2, <2>1
<1>5. ASSUME NEW s \in Session, CommitAsk(s) PROVE TurnInv'
  <2>1. PICK r \in LoanId, q \in Ask, row \in LoanRow :
          /\ loan[r] = None /\ loan' = [loan EXCEPT ![r] = row]
          /\ row.status = "pending" /\ ~row.stamped /\ row.version = 1
          /\ diary' = [diary EXCEPT ![r] = Append(diary[r], "create")]
          /\ turn' = turn
    BY <1>1, <1>5, CommitAskType
  <2>2. /\ Loan' = Loan \cup {r} /\ r \notin Loan
        /\ \A x \in Loan : loan'[x] = loan[x]
        /\ loan'[r] = row
    BY <1>1, <2>1, MadeMore DEF LoanTypeOK
  <2>3. diary[r] = <<>> /\ Loan \subseteq LoanId
    BY <1>1, <2>2 DEF TurnInv, Loan
  <2>4. diary'[r] = Append(<<>>, "create")
    BY <1>1, <2>1, <2>3 DEF LoanTypeOK
  <2>5. \A i \in DOMAIN diary'[r] : diary'[r][i] = "create"
    BY <2>4
  <2>6. LoanTells(r)'
    BY <2>1, <2>2, <2>5 DEF LoanTells, Has
  <2>7. \A x \in LoanId \ {r} : diary'[x] = diary[x]
    BY <1>1, <2>1 DEF LoanTypeOK
  <2>8. ASSUME NEW x \in Loan PROVE LoanTells(x)'
    <3>1. LoanTells(x) /\ loan'[x] = loan[x] /\ diary'[x] = diary[x]
      BY <1>1, <2>2, <2>3, <2>7 DEF TurnInv
    <3>. QED
      BY <3>1 DEF LoanTells, Has
  <2>9. ASSUME NEW x \in Session, NEW t \in Turn, turn'[x] = t PROVE TurnSound(t)'
    <3>1. TurnSound(t)
      BY <1>1, <2>1, <2>9 DEF TurnInv
    <3>2. \A y \in LoanId : loan[y] # None => loan'[y] # None
      BY <2>2, <2>3 DEF Loan
    <3>3. \A y \in LoanId : \A a : Has(y, a) => Has(y, a)'
      BY <1>1, <2>1, DiaryGrows
    <3>. QED
      BY <3>1, <3>2, <3>3, TurnKept
  <2>10. (\A x \in LoanId \ Loan : diary[x] = <<>>)'
    BY <1>1, <2>2, <2>7 DEF TurnInv
  <2>. QED
    BY <2>2, <2>6, <2>8, <2>9, <2>10 DEF TurnInv
<1>6. ASSUME NEW s \in Session, TurnGoesOn(s) PROVE TurnInv'
  BY <1>1, <1>2, <1>6, TurnGoesOnType DEF LoanTypeOK
<1>7. ASSUME NEW s \in Session, CommitTurn(s) PROVE TurnInv'
  <2>1. PICK r \in LoanId, t \in Turn, row \in LoanRow :
          /\ t = turn[s] /\ r = t.r /\ loan[r] # None /\ TurnSound(t)
          /\ loan' = [loan EXCEPT ![r] = row]
          /\ row.who = loan[r].who /\ row.place = loan[r].place
          /\ row.kind = loan[r].kind /\ row.amount = loan[r].amount
          /\ row.year = loan[r].year
          /\ row.status = To(t.op) /\ row.version = t.version + 1
          /\ row.stamped = (loan[r].stamped \/ t.op = "settle")
          /\ diary' = [diary EXCEPT ![r] = Append(diary[r], t.op)]
          /\ turn' = [turn EXCEPT ![s] = None]
    BY <1>1, <1>7, CommitTurnType
  <2>2. Loan' = Loan /\ r \in Loan /\ Loan \subseteq LoanId
    BY <1>1, <2>1, MadeSame DEF Loan
  <2>3. loan'[r] = row /\ \A x \in LoanId \ {r} : loan'[x] = loan[x]
    BY <1>1, <2>1 DEF LoanTypeOK
  <2>4. t.op \in {"activate", "settle", "cancel"} /\ t.version \in Nat
    BY DEF Turn
  <2>5. LoanTells(r)
    BY <1>1, <2>2 DEF TurnInv
  <2>6. /\ \A x \in LoanId \ {r} : diary'[x] = diary[x]
        /\ \A x \in LoanId : \A a : Has(x, a) => Has(x, a)'
        /\ Has(r, t.op)' /\ \A a : Has(r, a)' => Has(r, a) \/ a = t.op
    <3>1. PICK action : action = t.op
      OBVIOUS
    <3>2. /\ action \in {"create", "activate", "settle", "cancel"}
          /\ diary' = [diary EXCEPT ![r] = Append(diary[r], action)]
      BY <2>1, <2>4, <3>1
    <3>3. /\ \A x \in LoanId \ {r} : diary'[x] = diary[x]
          /\ \A x \in LoanId : \A a : Has(x, a) => Has(x, a)'
      BY <1>1, <3>2, DiaryGrows
    <3>6. \A a : Has(r, a)' => Has(r, a) \/ a = action
      BY <1>1, <3>2, DiaryGrows
    <3>7. \E i \in DOMAIN diary'[r] : diary'[r][i] = action
      <4>1. /\ diary[r] \in Seq({"create", "activate", "settle", "cancel"})
            /\ diary'[r] = Append(diary[r], action)
        BY <1>1, <3>2 DEF LoanTypeOK
      <4>. QED
        BY <3>2, <4>1
    <3>4. \E i \in DOMAIN diary'[r] : diary'[r][i] = t.op
      BY <3>1, <3>7
    <3>5. Has(r, t.op)'
      BY <3>4 DEF Has
    <3>. QED
      BY <3>1, <3>3, <3>5, <3>6
  <2>7. LoanTells(r)'
    <3>1. (CASE row.version = 1 -> row.status = "pending"
             [] row.version = 2 -> row.status \in {"active", "cancelled"}
             [] row.version = 3 -> row.status \in {"settled", "cancelled"}
             [] OTHER -> FALSE)
      <4>1. CASE t.op = "activate"
        BY <2>1, <4>1 DEF TurnSound, To
      <4>2. CASE t.op = "settle"
        BY <2>1, <4>2 DEF TurnSound, To
      <4>3. CASE t.op = "cancel"
        <5>1. t.version \in {1, 2} /\ To(t.op) = "cancelled"
          BY <2>1, <4>3 DEF TurnSound, To
        <5>2. row.status = "cancelled" /\ row.version \in {2, 3}
          BY <2>1, <5>1
        <5>. QED
          BY <5>2
      <4>. QED
        BY <2>4, <4>1, <4>2, <4>3
    <3>2. row.stamped <=> Has(r, "settle")'
      BY <2>1, <2>5, <2>6 DEF LoanTells
    <3>3. row.status = "settled" => row.stamped
      BY <2>1, <2>4 DEF To
    <3>4. row.status = "active" => Has(r, "activate")'
      BY <2>1, <2>4, <2>6 DEF To
    <3>5. \A i \in DOMAIN diary'[r] :
             diary'[r][i] = "settle" => \E j \in 1..(i - 1) : diary'[r][j] = "activate"
      BY <1>1, <2>1, <2>4, <2>5, DiaryOrdered DEF LoanTells, TurnSound
    <3>. QED
      BY <2>3, <3>1, <3>2, <3>3, <3>4, <3>5 DEF LoanTells
  <2>8. ASSUME NEW x \in Loan, x # r PROVE LoanTells(x)'
    <3>1. LoanTells(x) /\ loan'[x] = loan[x] /\ diary'[x] = diary[x]
      BY <1>1, <2>2, <2>3, <2>6, <2>8 DEF TurnInv
    <3>. QED
      BY <3>1 DEF LoanTells, Has
  <2>9. ASSUME NEW x \in Session, NEW u \in Turn, turn'[x] = u PROVE TurnSound(u)'
    <3>1. TurnSound(u)
      BY <1>1, <2>1, <2>9, NoneIsNoLoanRow DEF TurnInv, LoanTypeOK
    <3>2. \A y \in LoanId : loan[y] # None => loan'[y] # None
      BY <2>2 DEF Loan
    <3>. QED
      BY <2>6, <3>1, <3>2, TurnKept
  <2>10. (\A x \in LoanId \ Loan : diary[x] = <<>>)'
    BY <1>1, <2>2, <2>6 DEF TurnInv
  <2>. QED
    BY <2>2, <2>7, <2>8, <2>9, <2>10 DEF TurnInv
<1>8. ASSUME NEW s \in Session, RollBack(s) PROVE TurnInv'
  BY <1>1, <1>2, <1>8 DEF RollBack, LoanTypeOK
<1>. QED
  BY <1>3, <1>4, <1>5, <1>6, <1>7, <1>8, LoanSteps

-----------------------------------------------------------------------------
(* The inductive invariant *)

LEMMA LoanStart == LoanInit => LoanInv
<1>. SUFFICES ASSUME LoanInit PROVE LoanInv
  OBVIOUS
<1>1. LoanTypeOK
  BY LoanConstants DEF LoanInit, LoanTypeOK, StaffInit, StaffTypeOK
<1>2. Loan = {}
  BY DEF LoanInit, Loan
<1>3. PolicyInv
  BY NoneIsNoLoanRow DEF LoanInit, PolicyInv, PoliciesApart, InForce
<1>4. AskInv
  BY NoneIsNoLoanRow DEF LoanInit, AskInv
<1>5. LoansInOrder
  <2>1. 1..0 = {} /\ 0 \in 0..MaxLoans
    BY LoanConstants
  <2>. QED
    BY <1>2, <2>1 DEF LoansInOrder
<1>6. PICK t \in Terms : TRUE
  BY LoanConstants
<1>7. CountsBelow(t)
  <2>1. \A e, w, y : MadeAt(e, w, y) = {}
    BY <1>2 DEF MadeAt, MadeInYear, MadeBy
  <2>2. Cardinality({}) = 0 /\ t.perYear \in Nat
    BY FS_EmptySet, LoanConstants DEF Term
  <2>. QED
    BY <2>1, <2>2 DEF CountsBelow
<1>8. BoundInv
  BY <1>2, <1>5, <1>7 DEF BoundInv, AmountsBelow
<1>9. TurnInv
  BY <1>2, NoneIsNoLoanRow DEF LoanInit, TurnInv
<1>. QED
  BY <1>1, <1>3, <1>4, <1>8, <1>9 DEF LoanInv

LEMMA LoanStutter == LoanInv /\ UNCHANGED loanVars => LoanInv'
<1>. SUFFICES ASSUME LoanInv, UNCHANGED loanVars PROVE LoanInv'
  OBVIOUS
<1>. USE DEF LoanInv, loanVars, staffVars
<1>1. LoanTypeOK'
  BY DEF LoanTypeOK, StaffTypeOK
<1>2. PolicyInv'
  BY DEF PolicyInv, PoliciesApart, InForce, EditSound
<1>3. \A e, w, y : MadeAt(e, w, y)' = MadeAt(e, w, y)
  BY DEF MadeAt, MadeInYear, MadeBy, Loan
<1>4. AskInv'
  BY <1>3, AskKept DEF AskInv
<1>5. Loan' = Loan
  BY DEF Loan
<1>6. BoundInv'
  BY <1>3, <1>5 DEF BoundInv, LoansInOrder, AmountsBelow, CountsBelow
<1>7. TurnInv'
  <2>1. \A r \in Loan : LoanTells(r)'
    BY DEF TurnInv, LoanTells, Has
  <2>2. \A s \in Session, t \in Turn : turn[s] = t => TurnSound(t)'
    BY DEF TurnInv, TurnSound, Has
  <2>3. \A r \in LoanId \ Loan : diary'[r] = <<>>
    BY DEF TurnInv
  <2>. QED
    BY <1>5, <2>1, <2>2, <2>3 DEF TurnInv
<1>. QED
  BY <1>1, <1>2, <1>4, <1>6, <1>7

LEMMA LoanStep == LoanInv /\ [LoanNext]_loanVars => LoanInv'
BY LoanStutter, LoanTypeNext, PolicyNext, AskNext, BoundNext, TurnNext DEF LoanInv

(* What LoanInv says holds of every state: policies apart, submissions whose  *)
(* lock keeps what they have read true, requests below limits an officer may  *)
(* write, and transitions whose outcome the version tells.                    *)
THEOREM LoansStaySound == LoanSpec => []LoanInv
BY LoanStart, LoanStep, PTL DEF LoanSpec

-----------------------------------------------------------------------------
(* What follows *)

(* Every row and everything a session has in hand keeps its type.             *)
THEOREM LoanTypeCorrect == LoanSpec => []LoanTypeOK
<1>1. LoanInv => LoanTypeOK
  BY DEF LoanInv
<1>. QED
  BY <1>1, LoansStaySound, PTL

(* Two officers who create or change policies at once never leave two in      *)
(* force for a workplace and year: the unique index lets one commit.          *)
THEOREM PoliciesStayApart == LoanSpec => []OnePolicyInForce
<1>1. ASSUME LoanInv PROVE OnePolicyInForce
  <2>. SUFFICES ASSUME NEW w \in Workplace, NEW y \in Year
                PROVE  Cardinality(InForce(w, y)) <= 1
    BY DEF OnePolicyInForce
  <2>1. \A p \in InForce(w, y), x \in InForce(w, y) : p = x
    BY <1>1 DEF LoanInv, PolicyInv, PoliciesApart
  <2>2. CASE InForce(w, y) = {}
    BY <2>2, FS_EmptySet
  <2>3. CASE InForce(w, y) # {}
    <3>1. PICK p : InForce(w, y) = {p}
      BY <2>1, <2>3
    <3>2. Cardinality({p}) = 1
      BY FS_Singleton
    <3>. QED
      BY <3>1, <3>2
  <2>. QED
    BY <2>2, <2>3
<1>. QED
  BY <1>1, LoansStaySound, PTL

(* Transitions that overwrite one another leave a version that still tells    *)
(* what the status may be.                                                    *)
THEOREM VersionTells == LoanSpec => []VersionTellsLoanStatus
<1>1. LoanInv => VersionTellsLoanStatus
  BY DEF LoanInv, TurnInv, LoanTells, VersionTellsLoanStatus
<1>. QED
  BY <1>1, LoansStaySound, PTL

(* A settlement once committed is remembered by stamp and audit entry, and    *)
(* none is committed of a request that was never activated.                   *)
THEOREM SettlementsAreRemembered == LoanSpec => []SettlementIsRemembered
<1>1. LoanInv => SettlementIsRemembered
  BY DEF LoanInv, TurnInv, LoanTells, Has, SettlementIsRemembered
<1>. QED
  BY <1>1, LoansStaySound, PTL

(* What an employee owes at a workplace for a year stays below the widest cap *)
(* times the widest yearly count, though activation looks at neither.         *)
THEOREM ExposureStaysBounded == LoanSpec => []ExposureBounded
<1>1. ASSUME LoanInv PROVE ExposureBounded
  <2>. SUFFICES ASSUME NEW e \in Employee, NEW w \in Workplace, NEW y \in Year, NEW k \in Kind
                PROVE  \E cap \in Terms, count \in Terms :
                          Cardinality(Units({r \in Active(e, y, k) : loan[r].place = w}))
                             <= cap[k] * count.perYear
    BY DEF ExposureBounded
  <2>. DEFINE requests == {r \in Active(e, y, k) : loan[r].place = w}
  <2>1. PICK cap \in Terms : AmountsBelow(k, cap)
    BY <1>1 DEF LoanInv, BoundInv
  <2>2. PICK count \in Terms : CountsBelow(count)
    BY <1>1 DEF LoanInv, BoundInv
  <2>3. cap[k] \in Nat /\ count.perYear \in Nat
    BY LoanConstants DEF Term, Kind
  <2>4. requests \subseteq MadeAt(e, w, y) /\ \A r \in requests : r \in Loan /\ loan[r].kind = k
    BY DEF MadeAt, Active, MadeInYear, MadeBy
  <2>5. /\ IsFiniteSet(requests) /\ Cardinality(requests) \in Nat
        /\ Cardinality(requests) <= Cardinality(MadeAt(e, w, y))
    BY <2>4, MadeFinite, FS_Subset, FS_CardinalityType
  <2>6. Cardinality(requests) <= count.perYear
    <3>1. Cardinality(MadeAt(e, w, y)) <= count.perYear /\ Cardinality(MadeAt(e, w, y)) \in Nat
      BY <2>2, MadeFinite DEF CountsBelow
    <3>. QED
      BY <2>3, <2>5, <3>1
  <2>7. \A r \in requests : loan[r].amount \in Nat /\ loan[r].amount <= cap[k]
    BY <1>1, <2>1, <2>4, RowTypes DEF LoanInv, AmountsBelow, Loan, LoanRow
  <2>8. /\ Cardinality(Units(requests)) \in Nat
        /\ Cardinality(Units(requests)) <= Cardinality(requests) * cap[k]
    BY <2>3, <2>5, <2>7, UnitsBounded
  <2>9. \A n \in Nat, m \in Nat, c \in Nat : n <= m => n * c <= c * m
    OBVIOUS
  <2>10. Cardinality(requests) * cap[k] <= cap[k] * count.perYear
    BY <2>3, <2>5, <2>6, <2>9
  <2>11. Cardinality(requests) * cap[k] \in Nat /\ cap[k] * count.perYear \in Nat
    BY <2>3, <2>5
  <2>12. Cardinality(Units(requests)) <= cap[k] * count.perYear
    BY <2>8, <2>10, <2>11
  <2>. QED
    BY <2>12
<1>. QED
  BY <1>1, LoansStaySound, PTL

(* Every request that is committed is within the limits of a policy in force  *)
(* and active at that moment, whatever others submit, edit or transfer: the   *)
(* lock on the policy keeps what the submission counted.                      *)
THEOREM SubmissionsStayWithinLimits == LoanSpec => SubmissionWithinLimits
<1>. DEFINE Q(r) == loan'[r]
            Made(q) == {m \in LoanId : /\ loan'[m] # None
                                       /\ loan'[m].who = q.who
                                       /\ loan'[m].place = q.place
                                       /\ loan'[m].year = q.year}
            Within(q) == \E p \in InForce(q.place, q.year) :
                           /\ policy[p].terms.active
                           /\ q.amount <= policy[p].terms[q.kind]
                           /\ Cardinality(Made(q)) <= policy[p].terms.perYear
                           /\ Cardinality(Made(q)) <= policy[p].terms.lifetime
<1>1. ASSUME LoanInv, [LoanNext]_loanVars, NEW r \in LoanId, loan[r] = None, loan'[r] # None
      PROVE  Within(loan'[r])
  <2>1. LoanTypeOK /\ BoundInv /\ TurnInv
    BY <1>1 DEF LoanInv
  <2>2. PICK s \in Session : CommitAsk(s)
    <3>1. LoanNext
      BY <1>1 DEF loanVars
    <3>2. ~(NewYear \/ StaffStep)
      BY <1>1 DEF NewYear, StaffStep
    <3>3. ASSUME NEW s \in Session, \/ PolicyBegins(s) \/ CommitPolicy(s) \/ AskGoesOn(s)
                                    \/ TurnGoesOn(s) \/ RollBack(s)
          PROVE  FALSE
      <4>1. loan' = loan
        BY <2>1, <3>3, PolicyBeginsType, AskGoesOnType, TurnGoesOnType
           DEF CommitPolicy, RollBack
      <4>. QED
        BY <1>1, <4>1
    <3>4. ASSUME NEW s \in Session, CommitTurn(s) PROVE FALSE
      <4>1. PICK x \in LoanId, row \in LoanRow :
              loan[x] # None /\ loan' = [loan EXCEPT ![x] = row]
        BY <2>1, <3>4, CommitTurnType
      <4>. QED
        BY <1>1, <2>1, <4>1 DEF LoanTypeOK
    <3>. QED
      BY <3>1, <3>2, <3>3, <3>4, LoanSteps
  <2>3. PICK x \in LoanId, q \in Ask, row \in LoanRow :
          /\ q = ask[s] /\ loan[x] = None
          /\ loan' = [loan EXCEPT ![x] = row]
          /\ row.who = q.who /\ row.place = q.place /\ row.kind = q.kind
          /\ row.amount = q.amount /\ row.year = q.year
    BY <2>1, <2>2, CommitAskType
  <2>4. x = r /\ loan'[r] = row
    BY <1>1, <2>1, <2>3 DEF LoanTypeOK
  <2>5. /\ q.policy \in InForce(q.place, q.year)
        /\ policy[q.policy].terms.active
        /\ q.amount <= policy[q.policy].terms[q.kind]
        /\ Cardinality(MadeAt(q.who, q.place, q.year)) + 1 <= policy[q.policy].terms.perYear
        /\ Cardinality(MadeAt(q.who, q.place, q.year)) + 1 <= policy[q.policy].terms.lifetime
    BY <1>1, <2>2, <2>3, AskWithin
  <2>6. /\ MadeAt(q.who, q.place, q.year)' = MadeAt(q.who, q.place, q.year) \cup {r}
        /\ r \notin MadeAt(q.who, q.place, q.year)
    <3>1. r \notin Loan
      BY <1>1 DEF Loan
    <3>2. \A e, w, y : MadeAt(e, w, y)' = IF row.who = e /\ row.place = w /\ row.year = y
                                          THEN MadeAt(e, w, y) \cup {r} ELSE MadeAt(e, w, y)
      BY <2>1, <2>3, <2>4, MadeMore
    <3>3. MadeAt(q.who, q.place, q.year)' = MadeAt(q.who, q.place, q.year) \cup {r}
      BY <2>3, <3>2
    <3>4. r \notin MadeAt(q.who, q.place, q.year)
      BY <3>1 DEF MadeAt, MadeInYear, MadeBy
    <3>. QED
      BY <3>3, <3>4
  <2>7. Made(row) = MadeAt(q.who, q.place, q.year)'
    BY <2>3 DEF MadeAt, MadeInYear, MadeBy, Loan
  <2>8. Cardinality(Made(row)) = Cardinality(MadeAt(q.who, q.place, q.year)) + 1
    BY <2>6, <2>7, MadeFinite, FS_AddElement
  <2>9. Within(row)
    BY <2>3, <2>5, <2>8
  <2>. QED
    BY <2>4, <2>9
<1>2. LoanInv /\ [LoanNext]_loanVars =>
         \A r \in LoanId : loan[r] = None /\ loan'[r] # None => Within(loan'[r])
  BY <1>1
<1>. QED
  BY <1>2, LoansStaySound, PTL DEF LoanSpec, SubmissionWithinLimits
=============================================================================
