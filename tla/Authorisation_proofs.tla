-------------------------- MODULE Authorisation_proofs --------------------------
(***************************************************************************)
(* Who may do what.  First Grants: the places that decide it agree, for    *)
(* every set of grants.  Then Administration: what the audit says of roles *)
(* and grants, and what a seed leaves behind, for any rows, clerks and     *)
(* seeds.                                                                  *)
(***************************************************************************)
EXTENDS Grants, Administration, FiniteSetTheorems, TLAPS

(* Roles are roles and every assignment is one that assign_scope lets         *)
(* through.                                                                   *)
GrantTypeOK ==
    /\ roles \in [Employee -> SUBSET Role]
    /\ scope \in [ScopeId -> Assignment \cup {None}]

LEMMA GrantsTyped == GrantSpec => []GrantTypeOK
<1>1. StaffInit /\ GrantInit => GrantTypeOK
  BY DEF GrantInit, GrantTypeOK
<1>2. ASSUME GrantTypeOK, [\/ GrantStep /\ UNCHANGED staffVars
                           \/ StaffNext /\ UNCHANGED grantVars]_<<staffVars, grantVars>>
      PROVE  GrantTypeOK'
  <2>1. CASE UNCHANGED grantVars
    BY <1>2, <2>1 DEF GrantTypeOK, grantVars
  <2>2. CASE GrantStep
    <3>1. ASSUME NEW e \in Employee, NEW r \in Role, AssignRole(e, r) \/ RevokeRole(e, r)
          PROVE  GrantTypeOK'
      BY <1>2, <3>1 DEF GrantTypeOK, AssignRole, RevokeRole
    <3>2. ASSUME NEW i \in ScopeId, NEW a \in Assignment, AssignScope(i, a)
          PROVE  GrantTypeOK'
      BY <1>2, <3>2 DEF GrantTypeOK, AssignScope
    <3>3. ASSUME NEW i \in ScopeId, RevokeScope(i)
          PROVE  GrantTypeOK'
      BY <1>2, <3>3 DEF GrantTypeOK, RevokeScope
    <3>. QED  BY <2>2, <3>1, <3>2, <3>3 DEF GrantStep
  <2>. QED  BY <1>2, <2>1, <2>2 DEF grantVars
<1>. QED  BY <1>1, <1>2, PTL DEF GrantSpec

(* What a user's assignments say: every one of them is a well-formed grant of *)
(* that user and operation.                                                   *)
LEMMA ScopesAreAssignments ==
    ASSUME GrantTypeOK, NEW e \in Employee, NEW op \in Operation,
           NEW i \in ScopesFor(e, op)
    PROVE  scope[i] \in Assignment
BY DEF GrantTypeOK, ScopesFor

(* The filter of the lists and the check of one target are the same, whatever *)
(* the target's complex and workplace, present or absent.                     *)
LEMMA ListedIffCan ==
    ASSUME GrantTypeOK, NEW e \in Employee, NEW op \in Operation,
           NEW c \in Complex \cup {None}, NEW w \in Workplace \cup {None}
    PROVE  Can(e, op, c, w) <=> Listed(e, op, c, w)
<1>. DEFINE mine == {scope[i] : i \in IF Holds(e, op) THEN ScopesFor(e, op) ELSE {}}
<1>1. \A a \in mine : a \in Assignment
  BY ScopesAreAssignments
<1>2. Listed(e, op, c, w) <=>
         \E a \in mine : \/ a.level = "global"
                         \/ a.level = "complex" /\ a.complex = c
                         \/ a.level = "workplace" /\ a.workplace = w
  BY DEF Listed, AllowedUnits
<1>3. \A a \in mine : Covers(a, c, w) <=>
                         \/ a.level = "global"
                         \/ a.level = "complex" /\ a.complex = c
                         \/ a.level = "workplace" /\ a.workplace = w
  BY <1>1 DEF Covers, Assignment
<1>4. Can(e, op, c, w) <=> \E a \in mine : Covers(a, c, w)
  BY DEF Can
<1>. QED  BY <1>2, <1>3, <1>4

(* The events of a unit go to those who may act on it.                        *)
LEMMA ToldIffCan ==
    ASSUME GrantTypeOK, NEW e \in Employee, NEW op \in Operation,
           NEW w \in Workplace
    PROVE  Can(e, op, ComplexOf[w], w) <=> e \in Recipients(op, w)
<1>1. Holds(e, op) <=> working[e] /\ \E r \in roles[e] : op \in Permits[r]
  BY DEF Holds, Codes
<1>2. ComplexOf[w] \in Complex /\ ComplexOf[w] # None /\ w # None
  BY GrantConstants, StaffConstants
<1>3. \A i \in ScopesFor(e, op) : scope[i] \in Assignment
  BY ScopesAreAssignments
<1>4. \A i \in ScopesFor(e, op) : Covers(scope[i], ComplexOf[w], w) <=>
         \/ scope[i].level = "global"
         \/ scope[i].level = "complex" /\ scope[i].complex = ComplexOf[w]
         \/ scope[i].level = "workplace" /\ scope[i].workplace = w
  BY <1>2, <1>3 DEF Covers, Assignment
<1>. QED  BY <1>1, <1>2, <1>4 DEF Can, Recipients

(* Each assignment gives what allowed_units says of its level.                *)
LEMMA UnitsAreCovered ==
    ASSUME GrantTypeOK, NEW e \in Employee, NEW op \in Operation
    PROVE  LET u == AllowedUnits(e, op)
           IN  /\ u.everywhere => \A c \in Complex \cup {None}, w \in Workplace \cup {None} :
                                      Can(e, op, c, w)
               /\ \A c \in u.complexes : c \in Complex /\ Can(e, op, c, None)
               /\ \A w \in u.workplaces : /\ w \in Workplace
                                          /\ \A c \in Complex \cup {None} : Can(e, op, c, w)
<1>1. AllowedUnits(e, op).complexes \subseteq Complex
      /\ AllowedUnits(e, op).workplaces \subseteq Workplace
  BY ScopesAreAssignments DEF AllowedUnits, Assignment
<1>2. \A c \in Complex \cup {None}, w \in Workplace \cup {None} :
         Listed(e, op, c, w) => Can(e, op, c, w)
  BY ListedIffCan
<1>. QED  BY <1>1, <1>2 DEF Listed

(* can, the lists, the recipients of events and the checks of complexes,      *)
(* policies and employees agree for every set of roles and scopes.            *)
THEOREM ChecksAgree == GrantSpec => []ScopeRulesAgree
<1>1. ASSUME GrantTypeOK PROVE ScopeRulesAgree
  <2>. SUFFICES ASSUME NEW e \in Employee, NEW op \in Operation
       PROVE
        /\ \A w \in Workplace :
              /\ Can(e, op, ComplexOf[w], w) <=> Listed(e, op, ComplexOf[w], w)
              /\ Can(e, op, ComplexOf[w], w) <=> e \in Recipients(op, w)
              /\ MayUsePolicy(e, op, w) => Listed(e, op, ComplexOf[w], w)
              /\ OpensEmployee(e, op) => Can(e, op, ComplexOf[w], w)
              /\ Listed(e, op, ComplexOf[w], w) => ListsComplex(e, op, ComplexOf[w])
        /\ Can(e, op, None, None) <=> Listed(e, op, None, None)
        /\ Can(e, op, None, None) <=> e \in Recipients(op, None)
        /\ \A c \in Complex : ListsComplex(e, op, c) =>
              \/ Can(e, op, c, None)
              \/ \E w \in Workplace : ComplexOf[w] = c /\ Can(e, op, c, w)
    BY DEF ScopeRulesAgree
  <2>. DEFINE u == AllowedUnits(e, op)
  <2>1. \A w \in Workplace : ComplexOf[w] \in Complex
    BY GrantConstants
  <2>2. ASSUME NEW w \in Workplace
        PROVE  /\ Can(e, op, ComplexOf[w], w) <=> Listed(e, op, ComplexOf[w], w)
               /\ Can(e, op, ComplexOf[w], w) <=> e \in Recipients(op, w)
    BY <2>1, <1>1, ListedIffCan, ToldIffCan
  <2>3. ASSUME NEW w \in Workplace, MayUsePolicy(e, op, w)
        PROVE  Listed(e, op, ComplexOf[w], w)
    <3>1. Listed(e, op, None, w)
      BY <1>1, <2>3, ListedIffCan DEF MayUsePolicy
    <3>2. None \notin u.complexes
      BY <1>1, UnitsAreCovered, GrantConstants
    <3>. QED  BY <3>1, <3>2 DEF Listed
  <2>4. ASSUME NEW w \in Workplace, OpensEmployee(e, op)
        PROVE  Can(e, op, ComplexOf[w], w)
    BY <1>1, <2>1, <2>4, UnitsAreCovered DEF OpensEmployee
  <2>5. ASSUME NEW w \in Workplace, Listed(e, op, ComplexOf[w], w)
        PROVE  ListsComplex(e, op, ComplexOf[w])
    BY <2>5 DEF Listed, ListsComplex
  <2>6. Can(e, op, None, None) <=> Listed(e, op, None, None)
    BY <1>1, ListedIffCan
  <2>7. Can(e, op, None, None) <=> e \in Recipients(op, None)
    <3>1. Holds(e, op) <=> working[e] /\ \E r \in roles[e] : op \in Permits[r]
      BY DEF Holds, Codes
    <3>2. \A i \in ScopesFor(e, op) :
             Covers(scope[i], None, None) <=> scope[i].level = "global"
      BY <1>1, ScopesAreAssignments DEF Covers, Assignment
    <3>. QED  BY <3>1, <3>2 DEF Can, Recipients
  <2>8. ASSUME NEW c \in Complex, ListsComplex(e, op, c)
        PROVE  \/ Can(e, op, c, None)
               \/ \E w \in Workplace : ComplexOf[w] = c /\ Can(e, op, c, w)
    BY <1>1, <2>8, UnitsAreCovered DEF ListsComplex
  <2>. QED  BY <2>2, <2>3, <2>4, <2>5, <2>6, <2>7, <2>8
<1>. QED  BY <1>1, GrantsTyped, PTL
-----------------------------------------------------------------------------
(* Administration *)

(* The rows a transaction inserts or is about to.                             *)
Own(j) == IF j.op = "removed" THEN {} ELSE j.mine \cup ({j.row} \ {Nothing})

(* The rows that are inserted and not committed.                              *)
Inserted == {k \in Row : \E s \in Clerk : /\ Busy(s)
                                          /\ desk[s].op # "removed"
                                          /\ k \in desk[s].mine}

(* A transaction of the router has its one row in hand from its flush on, and *)
(* its entry on record before it commits.                                     *)
RouterSound(j) ==
    /\ j.row \in Row
    /\ j.pc \in {"write", "record", "commit"}
    /\ j.mine = IF j.pc = "write" THEN {} ELSE {j.row}
    /\ Says[j.row] \in Grant \cup (IF j.op = "removed" THEN {} ELSE RoleName)
    /\ j.pc = "commit" /\ lost = 0 => [action |-> j.op, row |-> j.row] \in diary

(* A seed has seen to every base row before the one it is at.                 *)
SeenTo(j, i) == \/ SeedOrder[i] \in Said(there \cup j.mine)
                \/ ~j.calm /\ SeedOrder[i] \in Grant

SeedSound(j) ==
    /\ j.row = Nothing
    /\ j.pc \in {"look", "insert", "commit"}
    /\ IF j.pc = "commit" THEN j.at = Len(SeedOrder) + 1 ELSE j.at \in 1..Len(SeedOrder)
    /\ IsFiniteSet(j.mine) /\ Said(j.mine) \subseteq Base
    /\ \A i \in 1..(j.at - 1) : SeenTo(j, i)
    /\ j.whole /\ j.calm => Base \subseteq Said(there) /\ j.mine = {} /\ j.pc # "insert"
    /\ j.pc = "insert" => SeedOrder[j.at] \notin Said(j.mine)

JobSound(j) == IF j.op = "seed" THEN SeedSound(j) ELSE RouterSound(j)

JobsInv == \A s \in Clerk, j \in Job : desk[s] = j => JobSound(j)

(* Nobody else has the rows that a transaction inserts, and no row is deleted *)
(* by two.                                                                    *)
ApartFrom(j, i) == Own(j) \cap (i.mine \cup {i.row}) = {}

IdsInv ==
    /\ \A s \in Clerk, j \in Job : desk[s] = j => Own(j) \cap there = {}
    /\ \A s \in Clerk, o \in Clerk, j \in Job, i \in Job :
          s # o /\ desk[s] = j /\ desk[o] = i => ApartFrom(j, i) /\ j.mine \cap i.mine = {}

(* No two rows say the same, those counted that are not yet committed.        *)
Distinct(rows) == \A k \in rows, l \in rows : Says[k] = Says[l] => k = l \/ Says[k] \in ScopeGrant

RowsInv ==
    /\ Distinct(there \cup Inserted)
    /\ IsFiniteSet(there)
    /\ units = UnitsIn(there)

Shapes ==
    /\ there \subseteq Row
    /\ diary \subseteq DiaryEntry
    /\ lost \in 0..MaxLost
    /\ units \in Nat
    /\ desk \in [Clerk -> Job \cup {Nothing}]

AdministrationInv == Shapes /\ JobsInv /\ IdsInv /\ RowsInv
-----------------------------------------------------------------------------
(* Steps *)

LEMMA DeskTypes ==
    ASSUME Shapes
    PROVE  \A s \in Clerk : Busy(s) => desk[s] \in Job /\ desk[s] # Nothing
BY NothingIsNoJob DEF Shapes, Busy

LEMMA SeedOrderTypes ==
    /\ Len(SeedOrder) \in Nat \ {0}
    /\ \A i \in 1..Len(SeedOrder) : SeedOrder[i] \in Base
    /\ \A c \in Base : \E i \in 1..Len(SeedOrder) : SeedOrder[i] = c
BY AdministrationConstants DEF Base, Range

(* A new transaction: nothing in hand.                                        *)
NewJob(s) ==
    \E j \in Job : /\ ~Busy(s) /\ desk' = [desk EXCEPT ![s] = j]
                   /\ JobSound(j) /\ j.mine = {} /\ Own(j) \cap Used = {}
                   /\ j.op = "removed" => j.row \in there
                   /\ UNCHANGED <<there, diary, lost, units>>

LEMMA Begins ==
    ASSUME Shapes, NEW s \in Clerk,
           (\E k \in Row : BeginAdd(s, k) \/ BeginRemove(s, k)) \/ BeginSeed(s)
    PROVE  NewJob(s)
<1>1. ASSUME NEW k \in Row, BeginAdd(s, k) PROVE NewJob(s)
  <2>1. PICK j : j = [op |-> "added", row |-> k, pc |-> "write", at |-> 1,
                      mine |-> {}, whole |-> FALSE, calm |-> TRUE]
    OBVIOUS
  <2>2. j \in Job
    BY <2>1, SeedOrderTypes DEF Job
  <2>3. k # Nothing /\ k \notin Used /\ Says[k] \in RoleName \cup Grant
    BY <1>1, NothingIsNoJob DEF BeginAdd, NewRow
  <2>4. JobSound(j) /\ Own(j) = {k}
    BY <2>1, <2>3 DEF JobSound, RouterSound, Own
  <2>. QED
    BY <1>1, <2>1, <2>2, <2>3, <2>4 DEF BeginAdd, Begin, NewJob
<1>2. ASSUME NEW k \in Row, BeginRemove(s, k) PROVE NewJob(s)
  <2>1. PICK j : j = [op |-> "removed", row |-> k, pc |-> "write", at |-> 1,
                      mine |-> {}, whole |-> FALSE, calm |-> TRUE]
    OBVIOUS
  <2>2. j \in Job
    BY <2>1, SeedOrderTypes DEF Job
  <2>3. JobSound(j) /\ Own(j) = {} /\ k \in there
    BY <1>2, <2>1 DEF JobSound, RouterSound, Own, BeginRemove
  <2>. QED
    BY <1>2, <2>1, <2>2, <2>3 DEF BeginRemove, Begin, NewJob
<1>3. ASSUME BeginSeed(s) PROVE NewJob(s)
  <2>1. PICK whole \in BOOLEAN : whole = (Base \subseteq Said(there))
    OBVIOUS
  <2>2. PICK j : j = [op |-> "seed", row |-> Nothing, pc |-> "look", at |-> 1,
                      mine |-> {}, whole |-> whole, calm |-> TRUE]
    OBVIOUS
  <2>3. j \in Job
    BY <2>2, SeedOrderTypes DEF Job
  <2>4. SeedSound(j) /\ Own(j) = {}
    <3>1. 1..(j.at - 1) = {} /\ j.at \in 1..Len(SeedOrder)
      BY <2>2, SeedOrderTypes
    <3>2. IsFiniteSet(j.mine) /\ Said(j.mine) = {}
      BY <2>2, FS_EmptySet DEF Said
    <3>. QED
      BY <2>1, <2>2, <3>1, <3>2 DEF SeedSound, Own
  <2>5. desk' = [desk EXCEPT ![s] = j] /\ ~Busy(s)
    BY <1>3, <2>1, <2>2 DEF BeginSeed, Begin
  <2>. QED
    BY <1>3, <2>2, <2>3, <2>4, <2>5 DEF BeginSeed, Begin, NewJob, JobSound
<1>. QED
  BY <1>1, <1>2, <1>3

(* A step within a transaction that changes neither its rows nor the tables.  *)
GoesOn(s) ==
    /\ \E j \in Job, i \in Job :
          /\ desk[s] = j /\ desk' = [desk EXCEPT ![s] = i] /\ JobSound(i)'
          /\ i.op = j.op /\ i.row = j.row /\ i.mine = j.mine
    /\ there' = there /\ units' = units
    /\ diary \subseteq diary' /\ diary' \subseteq DiaryEntry
    /\ lost' \in 0..MaxLost /\ (lost' = 0 => lost = 0)

LEMMA RecordGoesOn ==
    ASSUME Shapes, JobsInv, NEW s \in Clerk, Record(s)
    PROVE  GoesOn(s)
<1>1. PICK j \in Job : desk[s] = j
  BY DeskTypes DEF Record, At
<1>2. JobSound(j) /\ j.pc = "record"
  BY <1>1 DEF JobsInv, Record, At
<1>3. RouterSound(j) /\ j.op # "seed"
  BY <1>2 DEF JobSound, SeedSound
<1>4. PICK i : i = [j EXCEPT !.pc = "commit"]
  OBVIOUS
<1>5. /\ i \in Job /\ i.op = j.op /\ i.row = j.row /\ i.mine = j.mine /\ i.pc = "commit"
      /\ desk' = [desk EXCEPT ![s] = i]
  BY <1>1, <1>4 DEF Job, Record
<1>6. j.op \in {"added", "removed"} /\ j.row \in Row
  BY <1>3 DEF Job, RouterSound
<1>7. PICK e : e = [action |-> j.op, row |-> j.row]
  OBVIOUS
<1>8. e \in DiaryEntry
  BY <1>6, <1>7 DEF DiaryEntry
<1>9. \/ diary' = diary \cup {e} /\ lost' = lost
      \/ lost < MaxLost /\ lost' = lost + 1 /\ diary' = diary
  BY <1>1, <1>7 DEF Record
<1>10. lost \in Nat /\ MaxLost \in Nat /\ lost <= MaxLost
  BY AdministrationConstants DEF Shapes
<1>11. /\ diary \subseteq diary' /\ diary' \subseteq DiaryEntry
       /\ lost' \in 0..MaxLost /\ (lost' = 0 => lost = 0 /\ e \in diary')
  BY <1>8, <1>9, <1>10 DEF Shapes
<1>12. RouterSound(i)'
  BY <1>2, <1>3, <1>5, <1>7, <1>11 DEF RouterSound
<1>. QED
  BY <1>1, <1>3, <1>5, <1>11, <1>12 DEF GoesOn, JobSound, Record

(* The next base row, when this one is seen to.                               *)
LEMMA OnwardIsSound ==
    ASSUME NEW s \in Clerk, NEW j \in Job, desk[s] = j, j.at \in 1..Len(SeedOrder)
    PROVE  /\ Onward(s) \in Job /\ Onward(s).at = j.at + 1
           /\ Onward(s).pc = IF j.at < Len(SeedOrder) THEN "look" ELSE "commit"
           /\ Onward(s).op = j.op /\ Onward(s).row = j.row /\ Onward(s).mine = j.mine
           /\ Onward(s).whole = j.whole /\ Onward(s).calm = j.calm
           /\ 1..(Onward(s).at - 1) = 1..(j.at - 1) \cup {j.at}
           /\ IF Onward(s).pc = "commit" THEN Onward(s).at = Len(SeedOrder) + 1
                                         ELSE Onward(s).at \in 1..Len(SeedOrder)
<1>1. PICK pc \in {"look", "commit"} : pc = IF j.at < Len(SeedOrder) THEN "look" ELSE "commit"
  OBVIOUS
<1>2. Onward(s) = [j EXCEPT !.at = @ + 1, !.pc = pc]
  BY <1>1 DEF Onward
<1>3. j.at + 1 \in 1..(Len(SeedOrder) + 1)
  BY SeedOrderTypes
<1>4. /\ Onward(s) \in Job /\ Onward(s).at = j.at + 1 /\ Onward(s).pc = pc
      /\ Onward(s).op = j.op /\ Onward(s).row = j.row /\ Onward(s).mine = j.mine
      /\ Onward(s).whole = j.whole /\ Onward(s).calm = j.calm
  BY <1>2, <1>3 DEF Job
<1>5. 1..(j.at + 1 - 1) = 1..(j.at - 1) \cup {j.at}
  BY SeedOrderTypes
<1>6. IF pc = "commit" THEN j.at + 1 = Len(SeedOrder) + 1 ELSE j.at + 1 \in 1..Len(SeedOrder)
  BY <1>1, SeedOrderTypes
<1>. QED
  BY <1>1, <1>4, <1>5, <1>6

LEMMA LookGoesOn ==
    ASSUME Shapes, JobsInv, NEW s \in Clerk, Look(s)
    PROVE  GoesOn(s)
<1>1. PICK j \in Job : desk[s] = j /\ j.op = "seed" /\ j.pc = "look"
  BY DeskTypes DEF Look, Seeding, At
<1>2. SeedSound(j)
  BY <1>1 DEF JobsInv, JobSound
<1>3. PICK c \in Base : c = SeedOrder[j.at] /\ c = Wanted(s)
  BY <1>1, <1>2, SeedOrderTypes DEF SeedSound, Wanted
<1>4. j.at \in 1..Len(SeedOrder)
  BY <1>1, <1>2 DEF SeedSound
<1>5. UNCHANGED <<there, diary, lost, units>>
  BY DEF Look
<1>6. CASE c \in Said(there \cup j.mine)
  <2>1. PICK i : i = Onward(s)
    OBVIOUS
  <2>2. desk' = [desk EXCEPT ![s] = i]
    BY <1>1, <1>3, <1>6, <2>1 DEF Look, Shapes
  <2>3. /\ i \in Job /\ i.op = j.op /\ i.row = j.row /\ i.mine = j.mine
        /\ i.whole = j.whole /\ i.calm = j.calm /\ i.pc \in {"look", "commit"}
        /\ 1..(i.at - 1) = 1..(j.at - 1) \cup {j.at}
        /\ IF i.pc = "commit" THEN i.at = Len(SeedOrder) + 1 ELSE i.at \in 1..Len(SeedOrder)
    BY <1>1, <1>4, <2>1, OnwardIsSound
  <2>4. \A x \in 1..(i.at - 1) : SeenTo(i, x)'
    BY <1>2, <1>3, <1>5, <1>6, <2>3 DEF SeedSound, SeenTo, Said
  <2>5. SeedSound(i)'
    BY <1>2, <1>5, <2>3, <2>4 DEF SeedSound, Said
  <2>. QED
    BY <1>1, <1>5, <2>2, <2>3, <2>5 DEF GoesOn, JobSound, Shapes
<1>7. CASE c \notin Said(there \cup j.mine)
  <2>1. PICK i : i = [j EXCEPT !.pc = "insert"]
    OBVIOUS
  <2>2. desk' = [desk EXCEPT ![s] = i]
    BY <1>1, <1>3, <1>7, <2>1 DEF Look, Shapes
  <2>3. /\ i \in Job /\ i.op = j.op /\ i.row = j.row /\ i.mine = j.mine
        /\ i.whole = j.whole /\ i.calm = j.calm /\ i.pc = "insert" /\ i.at = j.at
    BY <2>1 DEF Job
  <2>4. ~(j.whole /\ j.calm)
    BY <1>2, <1>7 DEF SeedSound, Said
  <2>5. c \notin Said(i.mine)
    BY <1>7, <2>3 DEF Said
  <2>6. SeedSound(i)'
    BY <1>2, <1>3, <1>4, <1>5, <2>3, <2>4, <2>5 DEF SeedSound, SeenTo, Said
  <2>. QED
    BY <1>1, <1>5, <2>2, <2>3, <2>6 DEF GoesOn, JobSound, Shapes
<1>. QED
  BY <1>6, <1>7

(* The flush: a row is in hand that nobody else has in hand.                  *)
FlushesOne(s) ==
    \E j \in Job, i \in Job :
        /\ desk[s] = j /\ desk' = [desk EXCEPT ![s] = i] /\ JobSound(i)'
        /\ i.op = j.op /\ i.row = j.row /\ j.op # "seed"
        /\ j.row \in Row /\ j.mine = {} /\ i.mine = {j.row}
        /\ IF j.op = "removed" THEN j.row \notin Pending(s)
           ELSE ~Taken(Says[j.row]) /\ ~Contended(s, Says[j.row])
        /\ UNCHANGED <<there, diary, lost, units>>

LEMMA FlushWriteIs ==
    ASSUME Shapes, JobsInv, NEW s \in Clerk, FlushWrite(s)
    PROVE  FlushesOne(s)
<1>1. PICK j \in Job : desk[s] = j /\ j.pc = "write"
  BY DeskTypes DEF FlushWrite, At
<1>2. RouterSound(j) /\ j.op # "seed"
  BY <1>1 DEF JobsInv, JobSound, SeedSound
<1>3. j.row \in Row /\ j.mine = {} /\ j.row # Nothing
  BY <1>1, <1>2, NothingIsNoJob DEF RouterSound
<1>4. PICK a : a = [j EXCEPT !.pc = "record"]
  OBVIOUS
<1>5. PICK i : i = [a EXCEPT !.mine = {j.row}]
  OBVIOUS
<1>6. a \in Job /\ a.op = j.op /\ a.row = j.row /\ a.pc = "record"
  BY <1>4 DEF Job
<1>7. i \in Job /\ i.op = j.op /\ i.row = j.row /\ i.pc = "record" /\ i.mine = {j.row}
  BY <1>3, <1>5, <1>6 DEF Job
<1>8. desk' = [desk EXCEPT ![s] = i]
  BY <1>1, <1>4, <1>5 DEF FlushWrite, Shapes
<1>9. JobSound(i)'
  BY <1>1, <1>2, <1>7 DEF RouterSound, JobSound
<1>. QED
  BY <1>1, <1>2, <1>3, <1>7, <1>8, <1>9 DEF FlushWrite, FlushesOne

(* An insert of the seed.                                                     *)
InsertsOne(s) ==
    \E j \in Job, i \in Job, k \in Row :
        /\ desk[s] = j /\ desk' = [desk EXCEPT ![s] = i] /\ JobSound(i)'
        /\ i.op = j.op /\ i.row = j.row /\ j.op = "seed" /\ j.row = Nothing
        /\ i.mine = j.mine \cup {k} /\ k \notin Used
        /\ ~Taken(Says[k]) /\ ~Contended(s, Says[k]) /\ Says[k] \notin Said(j.mine)
        /\ UNCHANGED <<there, diary, lost, units>>

LEMMA InsertIs ==
    ASSUME Shapes, JobsInv, NEW s \in Clerk, Insert(s)
    PROVE  InsertsOne(s)
<1>1. PICK j \in Job : desk[s] = j /\ j.op = "seed" /\ j.pc = "insert"
  BY DeskTypes DEF Insert, Seeding, At
<1>2. SeedSound(j)
  BY <1>1 DEF JobsInv, JobSound
<1>3. PICK c \in Base : c = SeedOrder[j.at] /\ c = Wanted(s)
  BY <1>1, <1>2, SeedOrderTypes DEF SeedSound, Wanted
<1>4. j.at \in 1..Len(SeedOrder)
  BY <1>1, <1>2 DEF SeedSound
<1>5. PICK k \in Row : /\ NewRow(k) /\ Says[k] = c
                       /\ desk' = [desk EXCEPT ![s] = [Onward(s) EXCEPT !.mine = @ \cup {k}]]
  BY <1>3 DEF Insert
<1>6. PICK a : a = Onward(s)
  OBVIOUS
<1>7. /\ a \in Job /\ a.op = j.op /\ a.row = j.row /\ a.mine = j.mine
      /\ a.whole = j.whole /\ a.calm = j.calm /\ a.pc \in {"look", "commit"}
      /\ 1..(a.at - 1) = 1..(j.at - 1) \cup {j.at}
      /\ IF a.pc = "commit" THEN a.at = Len(SeedOrder) + 1 ELSE a.at \in 1..Len(SeedOrder)
  BY <1>1, <1>4, <1>6, OnwardIsSound
<1>8. PICK i : i = [a EXCEPT !.mine = a.mine \cup {k}]
  OBVIOUS
<1>9. /\ i \in Job /\ i.op = j.op /\ i.row = j.row /\ i.mine = j.mine \cup {k}
      /\ i.whole = j.whole /\ i.calm = j.calm /\ i.pc = a.pc /\ i.at = a.at
  BY <1>7, <1>8 DEF Job
<1>10. desk' = [desk EXCEPT ![s] = i]
  BY <1>5, <1>6, <1>8
<1>11. UNCHANGED <<there, diary, lost, units>>
  BY DEF Insert
<1>12. \A x \in 1..(i.at - 1) : SeenTo(i, x)'
  BY <1>2, <1>3, <1>5, <1>7, <1>9, <1>11 DEF SeedSound, SeenTo, Said
<1>13. IsFiniteSet(i.mine) /\ Said(i.mine) \subseteq Base
  <2>1. IsFiniteSet(j.mine \cup {k})
    BY <1>2, FS_AddElement DEF SeedSound
  <2>2. Said(i.mine) \subseteq Base
    BY <1>2, <1>3, <1>5, <1>9 DEF SeedSound, Said
  <2>. QED
    BY <1>9, <2>1, <2>2
<1>14. ~(i.whole /\ i.calm)
  BY <1>1, <1>2, <1>9 DEF SeedSound
<1>15. i.row = Nothing /\ j.row = Nothing
  BY <1>2, <1>9 DEF SeedSound
<1>16. SeedSound(i)'
  BY <1>7, <1>9, <1>12, <1>13, <1>14, <1>15 DEF SeedSound, Said
<1>17. ~Taken(c) /\ ~Contended(s, c) /\ c \notin Said(j.mine)
  BY <1>1, <1>2, <1>3 DEF Insert, SeedSound
<1>18. k \notin Used
  BY <1>5 DEF NewRow
<1>19. i.op = "seed" /\ JobSound(i)'
  BY <1>1, <1>9, <1>16 DEF JobSound
<1>. QED
  BY <1>1, <1>5, <1>9, <1>10, <1>11, <1>15, <1>17, <1>18, <1>19 DEF InsertsOne

(* The commits.                                                               *)
CommitsNew(s) ==
    \E j \in Job :
        /\ desk[s] = j /\ desk' = [desk EXCEPT ![s] = Nothing] /\ j.op # "removed"
        /\ JobSound(j) /\ j.pc = "commit" /\ IsFiniteSet(j.mine)
        /\ there' = there \cup j.mine
        /\ units' = units + IF j.op = "seed" THEN UnitsIn(j.mine) ELSE 0
        /\ j.op = "added" => \A k \in j.mine : Says[k] \notin Unit
        /\ UNCHANGED <<diary, lost>>

CommitsRemoval(s) ==
    \E j \in Job, k \in Row :
        /\ desk[s] = j /\ desk'[s] = Nothing /\ j.op = "removed"
        /\ JobSound(j) /\ j.pc = "commit" /\ j.row = k
        /\ desk' \in [Clerk -> Job \cup {Nothing}]
        /\ \A x \in Clerk \ {s} : desk'[x] = Disturbed[x]
        /\ there' = there \ {k} /\ Says[k] \in Grant
        /\ UNCHANGED <<diary, lost, units>>

LEMMA DisturbedIs ==
    ASSUME Shapes, NEW s \in Clerk
    PROVE  /\ Disturbed[s] \in Job \cup {Nothing}
           /\ desk[s] = Nothing => Disturbed[s] = Nothing
           /\ \A j \in Job : desk[s] = j =>
                 /\ Disturbed[s].op = j.op /\ Disturbed[s].row = j.row
                 /\ Disturbed[s].mine = j.mine /\ Disturbed[s].pc = j.pc
                 /\ Disturbed[s].at = j.at /\ Disturbed[s].whole = j.whole
                 /\ j.op = "seed" => ~Disturbed[s].calm
BY NothingIsNoJob DEF Disturbed, Busy, Shapes, Job

LEMMA CommitWriteIs ==
    ASSUME Shapes, JobsInv, NEW s \in Clerk, CommitWrite(s)
    PROVE  CommitsNew(s) \/ CommitsRemoval(s)
<1>1. PICK j \in Job : desk[s] = j /\ j.op # "seed" /\ j.pc = "commit"
  BY DeskTypes DEF CommitWrite, At
<1>2. JobSound(j) /\ RouterSound(j)
  BY <1>1 DEF JobsInv, JobSound
<1>3. j.mine = {j.row} /\ j.row \in Row
  BY <1>1, <1>2 DEF RouterSound
<1>4. UNCHANGED <<diary, lost, units>>
  BY DEF CommitWrite
<1>5. CASE j.op = "added"
  <2>1. there' = there \cup j.mine /\ desk' = [desk EXCEPT ![s] = Nothing]
    BY <1>1, <1>5 DEF CommitWrite
  <2>2. Says[j.row] \notin Unit
    BY <1>2, <1>5, AdministrationConstants DEF RouterSound
  <2>3. IsFiniteSet(j.mine)
    BY <1>3, FS_Singleton
  <2>4. units' = units + 0
    BY <1>4 DEF Shapes
  <2>. QED
    BY <1>1, <1>2, <1>3, <1>4, <1>5, <2>1, <2>2, <2>3, <2>4 DEF CommitsNew
<1>6. CASE j.op = "removed"
  <2>1. there' = there \ j.mine /\ desk' = [Disturbed EXCEPT ![s] = Nothing]
    BY <1>1, <1>6 DEF CommitWrite
  <2>2. /\ desk'[s] = Nothing /\ \A x \in Clerk \ {s} : desk'[x] = Disturbed[x]
        /\ desk' \in [Clerk -> Job \cup {Nothing}]
    <3>1. DOMAIN Disturbed = Clerk /\ \A x \in Clerk : Disturbed[x] \in Job \cup {Nothing}
      BY DisturbedIs DEF Disturbed
    <3>2. Disturbed \in [Clerk -> Job \cup {Nothing}]
      BY <3>1 DEF Disturbed
    <3>. QED
      BY <2>1, <3>2
  <2>3. Says[j.row] \in Grant
    BY <1>2, <1>6 DEF RouterSound
  <2>. QED
    BY <1>1, <1>2, <1>3, <1>4, <1>6, <2>1, <2>2, <2>3 DEF CommitsRemoval
<1>. QED
  BY <1>1, <1>5, <1>6 DEF Job

LEMMA CommitSeedIs ==
    ASSUME Shapes, JobsInv, NEW s \in Clerk, CommitSeed(s)
    PROVE  CommitsNew(s)
<1>1. PICK j \in Job : desk[s] = j /\ j.op = "seed" /\ j.pc = "commit"
  BY DeskTypes DEF CommitSeed, Seeding, At
<1>2. JobSound(j) /\ SeedSound(j)
  BY <1>1 DEF JobsInv, JobSound
<1>. QED
  BY <1>1, <1>2 DEF CommitSeed, CommitsNew, SeedSound, Leave

(* The end of a transaction without effect.                                   *)
Leaves(s) == /\ desk' = [desk EXCEPT ![s] = Nothing]
             /\ UNCHANGED <<there, diary, lost, units>>

LEMMA AdministrationSteps ==
    ASSUME Shapes, JobsInv, AdministrationNext
    PROVE  \E s \in Clerk : \/ NewJob(s) \/ GoesOn(s) \/ FlushesOne(s) \/ InsertsOne(s)
                            \/ CommitsNew(s) \/ CommitsRemoval(s) \/ Leaves(s)
<1>1. PICK s \in Clerk : \/ \E k \in Row : BeginAdd(s, k) \/ BeginRemove(s, k)
                         \/ BeginSeed(s) \/ DeskWork(s) \/ Die(s)
  BY DEF AdministrationNext
<1>2. CASE (\E k \in Row : BeginAdd(s, k) \/ BeginRemove(s, k)) \/ BeginSeed(s)
  BY <1>2, Begins
<1>3. CASE Refuse(s) \/ Die(s)
  BY <1>3 DEF Refuse, Die, Leave, Leaves
<1>4. CASE Record(s) \/ Look(s)
  BY <1>4, RecordGoesOn, LookGoesOn
<1>5. CASE FlushWrite(s) \/ Insert(s)
  BY <1>5, FlushWriteIs, InsertIs
<1>6. CASE CommitWrite(s) \/ CommitSeed(s)
  BY <1>6, CommitWriteIs, CommitSeedIs
<1>. QED
  BY <1>1, <1>2, <1>3, <1>4, <1>5, <1>6 DEF DeskWork
-----------------------------------------------------------------------------
(* Every step keeps the shapes and what is said of the transactions *)

LEMMA ShapesNext == Shapes /\ JobsInv /\ RowsInv /\ AdministrationNext => Shapes'
<1>. SUFFICES ASSUME Shapes, JobsInv, RowsInv, AdministrationNext PROVE Shapes'
  OBVIOUS
<1>1. PICK s \in Clerk : \/ NewJob(s) \/ GoesOn(s) \/ FlushesOne(s) \/ InsertsOne(s)
                         \/ CommitsNew(s) \/ CommitsRemoval(s) \/ Leaves(s)
  BY AdministrationSteps
<1>2. CASE NewJob(s)
  BY <1>2 DEF NewJob, Shapes
<1>3. CASE GoesOn(s)
  BY <1>3 DEF GoesOn, Shapes
<1>4. CASE FlushesOne(s)
  BY <1>4 DEF FlushesOne, Shapes
<1>5. CASE InsertsOne(s)
  BY <1>5 DEF InsertsOne, Shapes
<1>6. CASE CommitsNew(s)
  <2>1. PICK j \in Job : /\ desk' = [desk EXCEPT ![s] = Nothing]
                         /\ there' = there \cup j.mine /\ IsFiniteSet(j.mine)
                         /\ units' = units + IF j.op = "seed" THEN UnitsIn(j.mine) ELSE 0
                         /\ UNCHANGED <<diary, lost>>
    BY <1>6 DEF CommitsNew
  <2>2. UnitsIn(j.mine) \in Nat
    <3>1. {k \in j.mine : Says[k] \in Unit} \subseteq j.mine
      OBVIOUS
    <3>. QED
      BY <2>1, <3>1, FS_Subset, FS_CardinalityType DEF UnitsIn
  <2>3. j.mine \subseteq Row
    BY DEF Job
  <2>. QED
    BY <2>1, <2>2, <2>3 DEF Shapes
<1>7. CASE CommitsRemoval(s)
  BY <1>7 DEF CommitsRemoval, Shapes
<1>8. CASE Leaves(s)
  BY <1>8 DEF Leaves, Shapes
<1>. QED
  BY <1>1, <1>2, <1>3, <1>4, <1>5, <1>6, <1>7, <1>8

(* What others add keeps a transaction sound; and so does what they remove,   *)
(* once it is no longer calm.                                                 *)
LEMMA JobKept ==
    ASSUME NEW j \in Job, JobSound(j), there \subseteq there', diary \subseteq diary',
           lost' = 0 => lost = 0
    PROVE  JobSound(j)'
<1>1. CASE j.op = "seed"
  BY <1>1 DEF JobSound, SeedSound, SeenTo, Said
<1>2. CASE j.op # "seed"
  BY <1>2 DEF JobSound, RouterSound
<1>. QED
  BY <1>1, <1>2

LEMMA JobDisturbed ==
    ASSUME NEW j \in Job, NEW i \in Job, NEW k \in Row, JobSound(j),
           there' = there \ {k}, Says[k] \in Grant, UNCHANGED <<diary, lost>>,
           i.op = j.op, i.row = j.row, i.mine = j.mine, i.pc = j.pc, i.at = j.at,
           i.whole = j.whole, j.op = "seed" => ~i.calm
    PROVE  JobSound(i)'
<1>1. CASE j.op = "seed"
  <2>1. SeedSound(j)
    BY <1>1 DEF JobSound
  <2>2. ASSUME NEW x \in 1..(i.at - 1) PROVE SeenTo(i, x)'
    <3>1. SeenTo(j, x)
      BY <2>1 DEF SeedSound
    <3>2. CASE SeedOrder[x] \in Grant
      BY <1>1, <3>2 DEF SeenTo
    <3>3. CASE SeedOrder[x] \in Said(there \cup j.mine)
      <4>1. PICK l \in there \cup j.mine : Says[l] = SeedOrder[x]
        BY <3>3 DEF Said
      <4>2. CASE l = k
        BY <3>2, <4>1, <4>2
      <4>3. CASE l # k
        BY <4>1, <4>3 DEF SeenTo, Said
      <4>. QED
        BY <4>2, <4>3
    <3>. QED
      BY <3>1, <3>2, <3>3 DEF SeenTo
  <2>3. SeedSound(i)'
    BY <1>1, <2>1, <2>2 DEF SeedSound, Said
  <2>. QED
    BY <1>1, <2>3 DEF JobSound
<1>2. CASE j.op # "seed"
  BY <1>2 DEF JobSound, RouterSound
<1>. QED
  BY <1>1, <1>2

LEMMA JobsNext == Shapes /\ JobsInv /\ AdministrationNext => JobsInv'
<1>. SUFFICES ASSUME Shapes, JobsInv, AdministrationNext,
                     NEW x \in Clerk, NEW i \in Job, desk'[x] = i
              PROVE  JobSound(i)'
  BY DEF JobsInv
<1>1. PICK s \in Clerk : \/ NewJob(s) \/ GoesOn(s) \/ FlushesOne(s) \/ InsertsOne(s)
                         \/ CommitsNew(s) \/ CommitsRemoval(s) \/ Leaves(s)
  BY AdministrationSteps
<1>2. CASE NewJob(s)
  <2>1. PICK j \in Job : /\ desk' = [desk EXCEPT ![s] = j] /\ JobSound(j)
                         /\ UNCHANGED <<there, diary, lost, units>>
    BY <1>2 DEF NewJob
  <2>2. JobSound(i)
    BY <2>1 DEF JobsInv, Shapes
  <2>. QED
    BY <2>1, <2>2, JobKept
<1>3. ASSUME NEW j, desk' = [desk EXCEPT ![s] = j], JobSound(j)' \/ j = Nothing,
             there \subseteq there', diary \subseteq diary', lost' = 0 => lost = 0
      PROVE  JobSound(i)'
  <2>1. CASE x = s
    BY <1>3, <2>1, NothingIsNoJob DEF Shapes
  <2>2. CASE x # s
    <3>1. JobSound(i)
      BY <1>3, <2>2 DEF Shapes, JobsInv
    <3>. QED
      BY <1>3, <3>1, JobKept
  <2>. QED
    BY <2>1, <2>2
<1>4. CASE GoesOn(s)
  <2>1. PICK j \in Job : desk' = [desk EXCEPT ![s] = j] /\ JobSound(j)'
    BY <1>4 DEF GoesOn
  <2>. QED
    BY <1>3, <1>4, <2>1 DEF GoesOn
<1>5. CASE FlushesOne(s)
  <2>1. PICK j \in Job : desk' = [desk EXCEPT ![s] = j] /\ JobSound(j)'
    BY <1>5 DEF FlushesOne
  <2>. QED
    BY <1>3, <1>5, <2>1 DEF FlushesOne
<1>6. CASE InsertsOne(s)
  <2>1. PICK j \in Job : desk' = [desk EXCEPT ![s] = j] /\ JobSound(j)'
    BY <1>6 DEF InsertsOne
  <2>. QED
    BY <1>3, <1>6, <2>1 DEF InsertsOne
<1>7. CASE CommitsNew(s)
  BY <1>3, <1>7 DEF CommitsNew
<1>8. CASE CommitsRemoval(s)
  <2>1. PICK k \in Row : /\ desk'[s] = Nothing /\ \A y \in Clerk \ {s} : desk'[y] = Disturbed[y]
                         /\ there' = there \ {k} /\ Says[k] \in Grant
                         /\ UNCHANGED <<diary, lost>>
    BY <1>8 DEF CommitsRemoval
  <2>2. i = Disturbed[x] /\ i # Nothing
    BY <2>1, NothingIsNoJob
  <2>3. PICK j \in Job : desk[x] = j
    BY <2>2, DisturbedIs DEF Shapes
  <2>4. JobSound(j)
    BY <2>3 DEF JobsInv
  <2>5. /\ i.op = j.op /\ i.row = j.row /\ i.mine = j.mine /\ i.pc = j.pc
        /\ i.at = j.at /\ i.whole = j.whole /\ (j.op = "seed" => ~i.calm)
    BY <2>2, <2>3, DisturbedIs
  <2>. QED
    BY <2>1, <2>4, <2>5, JobDisturbed
<1>9. CASE Leaves(s)
  BY <1>3, <1>9 DEF Leaves
<1>. QED
  BY <1>1, <1>2, <1>4, <1>5, <1>6, <1>7, <1>8, <1>9
-----------------------------------------------------------------------------
(* Every step keeps the rows of transactions apart *)

LEMMA OwnRows ==
    ASSUME NEW j \in Job
    PROVE  /\ Own(j) \subseteq j.mine \cup {j.row} /\ Own(j) \subseteq Row
           /\ Nothing \notin Own(j) /\ j.mine \subseteq Row
BY NothingIsNoJob DEF Own, Job

LEMMA OwnUsed ==
    ASSUME Shapes, NEW s \in Clerk, NEW j \in Job, desk[s] = j
    PROVE  j.mine \cup {j.row} \subseteq Used /\ there \subseteq Used
BY NothingIsNoJob DEF Used, Busy

(* One transaction changes what it has.                                       *)
LEMMA IdsOne ==
    ASSUME Shapes, IdsInv, NEW s \in Clerk, NEW j \in Job, desk' = [desk EXCEPT ![s] = j],
           there' = there, Own(j) \cap there = {},
           \A o \in Clerk \ {s}, i \in Job : desk[o] = i =>
              ApartFrom(j, i) /\ ApartFrom(i, j) /\ j.mine \cap i.mine = {}
    PROVE  IdsInv'
<1>1. desk'[s] = j /\ \A o \in Clerk \ {s} : desk'[o] = desk[o]
  BY DEF Shapes
<1>2. ASSUME NEW x \in Clerk, NEW i \in Job, desk'[x] = i PROVE Own(i) \cap there' = {}
  BY <1>1, <1>2 DEF IdsInv
<1>3. ASSUME NEW x \in Clerk, NEW o \in Clerk, NEW a \in Job, NEW b \in Job,
             x # o, desk'[x] = a, desk'[o] = b
      PROVE  ApartFrom(a, b) /\ a.mine \cap b.mine = {}
  <2>1. CASE x = s
    BY <1>1, <1>3, <2>1
  <2>2. CASE o = s
    <3>1. ApartFrom(a, j) /\ j.mine \cap a.mine = {} /\ b = j
      BY <1>1, <1>3, <2>2
    <3>. QED
      BY <3>1
  <2>3. CASE x # s /\ o # s
    BY <1>1, <1>3, <2>3 DEF IdsInv
  <2>. QED
    BY <2>1, <2>2, <2>3
<1>. QED
  BY <1>2, <1>3 DEF IdsInv, Own, ApartFrom

(* Nobody changes what he has, but some may leave; what is committed shrinks, *)
(* or grows by what the one who leaves had in hand.                           *)
LEMMA IdsKept ==
    ASSUME IdsInv, NEW s \in Clerk, desk'[s] = Nothing \/ there' \subseteq there,
           there' \subseteq there \/ \E j \in Job : desk[s] = j /\ there' = there \cup j.mine,
           \A x \in Clerk, j \in Job : desk'[x] = j => \E i \in Job :
              desk[x] = i /\ i.op = j.op /\ i.row = j.row /\ i.mine = j.mine
    PROVE  IdsInv'
<1>1. ASSUME NEW x \in Clerk, NEW j \in Job, desk'[x] = j PROVE Own(j) \cap there' = {}
  <2>1. PICK i \in Job : desk[x] = i /\ i.op = j.op /\ i.row = j.row /\ i.mine = j.mine
    BY <1>1
  <2>2. Own(j) = Own(i) /\ Own(i) \cap there = {}
    BY <2>1 DEF Own, IdsInv
  <2>3. CASE there' \subseteq there
    BY <2>2, <2>3
  <2>4. CASE ~(there' \subseteq there)
    <3>1. PICK m \in Job : desk[s] = m /\ there' = there \cup m.mine
      BY <2>4
    <3>2. x # s
      BY <1>1, <2>4, NothingIsNoJob
    <3>3. ApartFrom(i, m)
      BY <2>1, <3>1, <3>2 DEF IdsInv
    <3>. QED
      BY <2>2, <3>1, <3>3 DEF ApartFrom
  <2>. QED
    BY <2>3, <2>4
<1>2. ASSUME NEW x \in Clerk, NEW o \in Clerk, NEW a \in Job, NEW b \in Job,
             x # o, desk'[x] = a, desk'[o] = b
      PROVE  ApartFrom(a, b) /\ a.mine \cap b.mine = {}
  <2>1. PICK i \in Job : desk[x] = i /\ i.op = a.op /\ i.row = a.row /\ i.mine = a.mine
    BY <1>2
  <2>2. PICK m \in Job : desk[o] = m /\ m.op = b.op /\ m.row = b.row /\ m.mine = b.mine
    BY <1>2
  <2>3. ApartFrom(i, m) /\ i.mine \cap m.mine = {}
    BY <1>2, <2>1, <2>2 DEF IdsInv
  <2>. QED
    BY <2>1, <2>2, <2>3 DEF ApartFrom, Own
<1>. QED
  BY <1>1, <1>2 DEF IdsInv, Own, ApartFrom

LEMMA IdsNext == Shapes /\ JobsInv /\ IdsInv /\ AdministrationNext => IdsInv'
<1>. SUFFICES ASSUME Shapes, JobsInv, IdsInv, AdministrationNext PROVE IdsInv'
  OBVIOUS
<1>1. PICK s \in Clerk : \/ NewJob(s) \/ GoesOn(s) \/ FlushesOne(s) \/ InsertsOne(s)
                         \/ CommitsNew(s) \/ CommitsRemoval(s) \/ Leaves(s)
  BY AdministrationSteps
<1>2. CASE NewJob(s)
  <2>1. PICK j \in Job : /\ desk' = [desk EXCEPT ![s] = j] /\ there' = there
                         /\ JobSound(j) /\ j.mine = {} /\ Own(j) \cap Used = {}
                         /\ j.op = "removed" => j.row \in there
    BY <1>2 DEF NewJob
  <2>2. Own(j) \cap there = {}
    BY <2>1 DEF Used
  <2>3. ASSUME NEW o \in Clerk \ {s}, NEW i \in Job, desk[o] = i
        PROVE  ApartFrom(j, i) /\ ApartFrom(i, j) /\ j.mine \cap i.mine = {}
    <3>1. i.mine \cup {i.row} \subseteq Used /\ Own(i) \subseteq i.mine \cup {i.row}
          /\ Own(i) \cap there = {} /\ Nothing \notin Own(i)
      BY <2>3, OwnUsed, OwnRows DEF IdsInv
    <3>2. CASE j.op = "removed"
      BY <2>1, <3>1, <3>2 DEF ApartFrom
    <3>3. CASE j.op # "removed" /\ j.row # Nothing
      <4>1. j.row \in Own(j)
        BY <3>3 DEF Own
      <4>. QED
        BY <2>1, <3>1, <4>1 DEF ApartFrom
    <3>4. CASE j.row = Nothing
      BY <2>1, <3>1, <3>4 DEF ApartFrom
    <3>. QED
      BY <3>2, <3>3, <3>4
  <2>. QED
    BY <2>1, <2>2, <2>3, IdsOne
<1>3. CASE GoesOn(s)
  <2>1. PICK j \in Job, i \in Job :
          /\ desk[s] = j /\ desk' = [desk EXCEPT ![s] = i] /\ there' = there
          /\ i.op = j.op /\ i.row = j.row /\ i.mine = j.mine
    BY <1>3 DEF GoesOn
  <2>2. \A x \in Clerk, m \in Job : desk'[x] = m => \E n \in Job :
           desk[x] = n /\ n.op = m.op /\ n.row = m.row /\ n.mine = m.mine
    BY <2>1 DEF Shapes
  <2>. QED
    BY <2>1, <2>2, IdsKept
<1>4. CASE FlushesOne(s)
  <2>1. PICK j \in Job, i \in Job :
          /\ desk[s] = j /\ desk' = [desk EXCEPT ![s] = i] /\ there' = there
          /\ i.op = j.op /\ i.row = j.row /\ j.row \in Row
          /\ j.mine = {} /\ i.mine = {j.row}
          /\ j.op = "removed" => j.row \notin Pending(s)
    BY <1>4 DEF FlushesOne
  <2>2. j.row # Nothing /\ Own(i) = Own(j) /\ i.mine \cup {i.row} = j.mine \cup {j.row}
    BY <2>1, NothingIsNoJob DEF Own
  <2>3. ASSUME NEW o \in Clerk \ {s}, NEW m \in Job, desk[o] = m
        PROVE  ApartFrom(i, m) /\ ApartFrom(m, i) /\ i.mine \cap m.mine = {}
    <3>1. ApartFrom(j, m) /\ ApartFrom(m, j)
      BY <2>1, <2>3 DEF IdsInv
    <3>2. ApartFrom(i, m) /\ ApartFrom(m, i)
      BY <2>2, <3>1 DEF ApartFrom
    <3>3. CASE j.op = "removed"
      <4>1. m.mine \subseteq Pending(s)
        BY <2>3, NothingIsNoJob DEF Pending, Busy
      <4>. QED
        BY <2>1, <3>2, <3>3, <4>1
    <3>4. CASE j.op # "removed"
      BY <2>1, <2>2, <3>1, <3>2, <3>4 DEF ApartFrom, Own
    <3>. QED
      BY <3>3, <3>4
  <2>4. Own(i) \cap there = {}
    BY <2>1, <2>2 DEF IdsInv
  <2>. QED
    BY <2>1, <2>3, <2>4, IdsOne
<1>5. CASE InsertsOne(s)
  <2>1. PICK j \in Job, i \in Job, k \in Row :
          /\ desk[s] = j /\ desk' = [desk EXCEPT ![s] = i] /\ there' = there
          /\ i.op = j.op /\ i.row = j.row /\ i.row = Nothing /\ j.op = "seed"
          /\ i.mine = j.mine \cup {k} /\ k \notin Used
    BY <1>5 DEF InsertsOne
  <2>2. Own(i) = i.mine /\ Own(j) = j.mine
    BY <2>1, OwnRows, NothingIsNoJob DEF Own
  <2>3. ASSUME NEW o \in Clerk \ {s}, NEW m \in Job, desk[o] = m
        PROVE  ApartFrom(i, m) /\ ApartFrom(m, i) /\ i.mine \cap m.mine = {}
    <3>1. ApartFrom(j, m) /\ ApartFrom(m, j)
      BY <2>1, <2>3 DEF IdsInv
    <3>2. k \notin m.mine \cup {m.row} /\ k \notin Own(m)
      BY <2>1, <2>3, OwnUsed, OwnRows
    <3>. QED
      BY <2>1, <2>2, <3>1, <3>2 DEF ApartFrom
  <2>4. Own(i) \cap there = {}
    BY <2>1, <2>2, OwnUsed DEF IdsInv
  <2>. QED
    BY <2>1, <2>3, <2>4, IdsOne
<1>6. CASE CommitsNew(s)
  <2>1. PICK j \in Job : desk[s] = j /\ desk' = [desk EXCEPT ![s] = Nothing]
                         /\ there' = there \cup j.mine
    BY <1>6 DEF CommitsNew
  <2>2. \A x \in Clerk, m \in Job : desk'[x] = m => \E n \in Job :
           desk[x] = n /\ n.op = m.op /\ n.row = m.row /\ n.mine = m.mine
    BY <2>1, NothingIsNoJob DEF Shapes
  <2>3. desk'[s] = Nothing
    BY <2>1 DEF Shapes
  <2>. QED
    BY <2>1, <2>2, <2>3, IdsKept
<1>7. CASE CommitsRemoval(s)
  <2>1. PICK k \in Row : /\ desk'[s] = Nothing /\ \A y \in Clerk \ {s} : desk'[y] = Disturbed[y]
                         /\ there' = there \ {k}
    BY <1>7 DEF CommitsRemoval
  <2>2. ASSUME NEW x \in Clerk, NEW m \in Job, desk'[x] = m
        PROVE  \E n \in Job : desk[x] = n /\ n.op = m.op /\ n.row = m.row /\ n.mine = m.mine
    <3>1. m = Disturbed[x] /\ m # Nothing
      BY <2>1, <2>2, NothingIsNoJob
    <3>2. PICK n \in Job : desk[x] = n
      BY <3>1, DisturbedIs DEF Shapes
    <3>. QED
      BY <3>1, <3>2, DisturbedIs
  <2>. QED
    BY <2>1, <2>2, IdsKept
<1>8. CASE Leaves(s)
  <2>1. \A x \in Clerk, m \in Job : desk'[x] = m => \E n \in Job :
           desk[x] = n /\ n.op = m.op /\ n.row = m.row /\ n.mine = m.mine
    BY <1>8, NothingIsNoJob DEF Leaves, Shapes
  <2>. QED
    BY <1>8, <2>1, IdsKept DEF Leaves
<1>. QED
  BY <1>1, <1>2, <1>3, <1>4, <1>5, <1>6, <1>7, <1>8
-----------------------------------------------------------------------------
(* Every step keeps what is said of the rows *)

LEMMA InsertedHas ==
    ASSUME Shapes, NEW s \in Clerk, NEW j \in Job, desk[s] = j, j.op # "removed"
    PROVE  j.mine \subseteq Inserted
BY OwnRows, NothingIsNoJob DEF Inserted, Busy

(* Whoever changed what he has inserted, it is no more than it was.           *)
LEMMA InsertedKept ==
    ASSUME Shapes, Shapes',
           \A x \in Clerk, j \in Job : desk'[x] = j => \E i \in Job :
              desk[x] = i /\ i.op = j.op /\ i.mine = j.mine
    PROVE  Inserted' \subseteq Inserted
<1>. SUFFICES ASSUME NEW k \in Row, NEW x \in Clerk, desk'[x] # Nothing,
                     desk'[x].op # "removed", k \in desk'[x].mine
              PROVE  k \in Inserted
  BY DEF Inserted, Busy
<1>1. PICK j \in Job : desk'[x] = j
  BY DEF Shapes
<1>2. PICK i \in Job : desk[x] = i /\ i.op = j.op /\ i.mine = j.mine
  BY <1>1
<1>. QED
  BY <1>1, <1>2, InsertedHas

(* An insert that is neither taken nor contended repeats nothing.             *)
LEMMA DistinctMore ==
    ASSUME Shapes, RowsInv, NEW s \in Clerk, NEW j \in Job, desk[s] = j, NEW k \in Row,
           ~Taken(Says[k]), ~Contended(s, Says[k]), Says[k] \notin Said(j.mine),
           NEW rows, rows \subseteq there \cup Inserted \cup {k}
    PROVE  Distinct(rows)
<1>1. ASSUME NEW l \in there \cup Inserted, Says[l] = Says[k] PROVE Says[k] \in ScopeGrant
  <2>1. CASE l \in there
    BY <1>1, <2>1 DEF Taken, Said
  <2>2. CASE l \in Inserted
    <3>1. PICK o \in Clerk : Busy(o) /\ l \in desk[o].mine
      BY <2>2 DEF Inserted
    <3>2. o # s
      BY <1>1, <3>1 DEF Said
    <3>3. l \in Pending(s)
      BY <3>1, <3>2 DEF Pending
    <3>. QED
      BY <1>1, <3>3 DEF Contended, Said
  <2>. QED
    BY <2>1, <2>2
<1>. QED
  BY <1>1 DEF RowsInv, Distinct

LEMMA UnitsInMore ==
    ASSUME NEW A, NEW B, IsFiniteSet(A), IsFiniteSet(B), A \cap B = {}
    PROVE  /\ UnitsIn(A \cup B) = UnitsIn(A) + UnitsIn(B)
           /\ UnitsIn(A) \in Nat /\ UnitsIn(B) \in Nat
           /\ (\A k \in B : Says[k] \notin Unit) => UnitsIn(B) = 0
<1>. DEFINE U(rows) == {k \in rows : Says[k] \in Unit}
<1>1. IsFiniteSet(U(A)) /\ IsFiniteSet(U(B))
  BY FS_Subset
<1>2. U(A \cup B) = U(A) \cup U(B) /\ U(A) \cap U(B) = {}
  OBVIOUS
<1>3. Cardinality(U(A)) \in Nat /\ Cardinality(U(B)) \in Nat /\ Cardinality({}) = 0
  BY <1>1, FS_CardinalityType, FS_EmptySet
<1>4. Cardinality(U(A) \cup U(B)) = Cardinality(U(A)) + Cardinality(U(B))
  <2>. PICK a, b : a = U(A) /\ b = U(B)
    OBVIOUS
  <2>1. Cardinality(a \cup b) = Cardinality(a) + Cardinality(b) - Cardinality(a \cap b)
    BY <1>1, FS_Union
  <2>2. Cardinality(a \cap b) = 0
    BY <1>2, <1>3
  <2>. QED
    BY <1>3, <2>1, <2>2
<1>5. (\A k \in B : Says[k] \notin Unit) => U(B) = {}
  OBVIOUS
<1>. QED
  BY <1>2, <1>3, <1>4, <1>5 DEF UnitsIn

LEMMA RowsNext ==
    Shapes /\ Shapes' /\ JobsInv /\ IdsInv /\ RowsInv /\ AdministrationNext => RowsInv'
<1>. SUFFICES ASSUME Shapes, Shapes', JobsInv, IdsInv, RowsInv, AdministrationNext
              PROVE  RowsInv'
  OBVIOUS
<1>1. PICK s \in Clerk : \/ NewJob(s) \/ GoesOn(s) \/ FlushesOne(s) \/ InsertsOne(s)
                         \/ CommitsNew(s) \/ CommitsRemoval(s) \/ Leaves(s)
  BY AdministrationSteps
<1>2. ASSUME there' \cup Inserted' \subseteq there \cup Inserted PROVE Distinct(there \cup Inserted)'
  BY <1>2 DEF RowsInv, Distinct
<1>3. ASSUME there' = there, units' = units, Distinct(there \cup Inserted)' PROVE RowsInv'
  BY <1>3 DEF RowsInv, UnitsIn
<1>4. ASSUME NEW j, desk' = [desk EXCEPT ![s] = j], NEW rows,
             j # Nothing => j \in Job /\ (j.op # "removed" => j.mine \subseteq rows)
      PROVE  Inserted' \subseteq Inserted \cup rows
  <2>. SUFFICES ASSUME NEW k \in Row, NEW x \in Clerk, desk'[x] # Nothing,
                       desk'[x].op # "removed", k \in desk'[x].mine
                PROVE  k \in Inserted \cup rows
    BY DEF Inserted, Busy
  <2>1. CASE x = s
    BY <1>4, <2>1 DEF Shapes
  <2>2. CASE x # s
    BY <1>4, <2>2 DEF Shapes, Inserted, Busy
  <2>. QED
    BY <2>1, <2>2
<1>5. CASE NewJob(s)
  <2>1. PICK j \in Job : desk' = [desk EXCEPT ![s] = j] /\ j.mine = {}
                         /\ there' = there /\ units' = units
    BY <1>5 DEF NewJob
  <2>2. Inserted' \subseteq Inserted \cup {}
    BY <1>4, <2>1
  <2>. QED
    BY <1>2, <1>3, <2>1, <2>2
<1>6. CASE GoesOn(s)
  <2>1. PICK j \in Job, i \in Job :
          /\ desk[s] = j /\ desk' = [desk EXCEPT ![s] = i]
          /\ i.op = j.op /\ i.mine = j.mine /\ there' = there /\ units' = units
    BY <1>6 DEF GoesOn
  <2>2. \A x \in Clerk, m \in Job : desk'[x] = m => \E n \in Job :
           desk[x] = n /\ n.op = m.op /\ n.mine = m.mine
    BY <2>1 DEF Shapes
  <2>3. Inserted' \subseteq Inserted
    BY <2>2, InsertedKept
  <2>. QED
    BY <1>2, <1>3, <2>1, <2>3
<1>7. CASE FlushesOne(s)
  <2>1. PICK j \in Job, i \in Job :
          /\ desk[s] = j /\ desk' = [desk EXCEPT ![s] = i]
          /\ i.op = j.op /\ j.row \in Row /\ j.mine = {} /\ i.mine = {j.row}
          /\ j.op # "removed" => ~Taken(Says[j.row]) /\ ~Contended(s, Says[j.row])
          /\ there' = there /\ units' = units
    BY <1>7 DEF FlushesOne
  <2>2. CASE j.op = "removed"
    <3>1. Inserted' \subseteq Inserted \cup {}
      BY <1>4, <2>1, <2>2
    <3>. QED
      BY <1>2, <1>3, <2>1, <3>1
  <2>3. CASE j.op # "removed"
    <3>1. Inserted' \subseteq Inserted \cup {j.row}
      BY <1>4, <2>1
    <3>2. Says[j.row] \notin Said(j.mine)
      BY <2>1 DEF Said
    <3>3. Distinct(there' \cup Inserted')
      BY <2>1, <2>3, <3>1, <3>2, DistinctMore
    <3>. QED
      BY <1>3, <2>1, <3>3
  <2>. QED
    BY <2>2, <2>3
<1>8. CASE InsertsOne(s)
  <2>1. PICK j \in Job, i \in Job, k \in Row :
          /\ desk[s] = j /\ desk' = [desk EXCEPT ![s] = i] /\ j.op = "seed"
          /\ i.mine = j.mine \cup {k}
          /\ ~Taken(Says[k]) /\ ~Contended(s, Says[k]) /\ Says[k] \notin Said(j.mine)
          /\ there' = there /\ units' = units
    BY <1>8 DEF InsertsOne
  <2>2. j.mine \subseteq Inserted
    BY <2>1, InsertedHas
  <2>3. Inserted' \subseteq Inserted \cup (j.mine \cup {k})
    BY <1>4, <2>1
  <2>4. Distinct(there' \cup Inserted')
    BY <2>1, <2>2, <2>3, DistinctMore
  <2>. QED
    BY <1>3, <2>1, <2>4
<1>9. CASE CommitsNew(s)
  <2>1. PICK j \in Job :
          /\ desk[s] = j /\ desk' = [desk EXCEPT ![s] = Nothing] /\ j.op # "removed"
          /\ IsFiniteSet(j.mine) /\ there' = there \cup j.mine
          /\ units' = units + IF j.op = "seed" THEN UnitsIn(j.mine) ELSE 0
          /\ j.op = "added" => \A k \in j.mine : Says[k] \notin Unit
    BY <1>9 DEF CommitsNew
  <2>2. Inserted' \subseteq Inserted \cup {}
    BY <1>4, <2>1
  <2>3. j.mine \subseteq Inserted
    BY <2>1, InsertedHas
  <2>4. Distinct(there \cup Inserted)'
    BY <1>2, <2>1, <2>2, <2>3
  <2>5. IsFiniteSet(there) /\ there \cap j.mine = {}
    BY <2>1 DEF RowsInv, IdsInv, Own
  <2>6. IsFiniteSet(there')
    BY <2>1, <2>5, FS_Union
  <2>7. /\ UnitsIn(there \cup j.mine) = UnitsIn(there) + UnitsIn(j.mine)
        /\ (\A k \in j.mine : Says[k] \notin Unit) => UnitsIn(j.mine) = 0
    BY <2>1, <2>5, UnitsInMore
  <2>8. j.op \in {"added", "seed"}
    BY <2>1 DEF Job
  <2>9. units' = UnitsIn(there')
    BY <2>1, <2>7, <2>8 DEF RowsInv
  <2>. QED
    BY <2>4, <2>6, <2>9 DEF RowsInv, UnitsIn
<1>10. CASE CommitsRemoval(s)
  <2>1. PICK k \in Row :
          /\ desk'[s] = Nothing /\ \A y \in Clerk \ {s} : desk'[y] = Disturbed[y]
          /\ there' = there \ {k} /\ Says[k] \in Grant /\ units' = units
    BY <1>10 DEF CommitsRemoval
  <2>2. ASSUME NEW x \in Clerk, NEW m \in Job, desk'[x] = m
        PROVE  \E n \in Job : desk[x] = n /\ n.op = m.op /\ n.mine = m.mine
    <3>1. m = Disturbed[x] /\ m # Nothing
      BY <2>1, <2>2, NothingIsNoJob
    <3>2. PICK n \in Job : desk[x] = n
      BY <3>1, DisturbedIs DEF Shapes
    <3>. QED
      BY <3>1, <3>2, DisturbedIs
  <2>3. Inserted' \subseteq Inserted
    BY <2>2, InsertedKept
  <2>4. Distinct(there \cup Inserted)'
    BY <1>2, <2>1, <2>3
  <2>5. IsFiniteSet(there')
    BY <2>1, FS_Subset DEF RowsInv
  <2>6. {l \in there' : Says[l] \in Unit} = {l \in there : Says[l] \in Unit}
    BY <2>1, AdministrationConstants
  <2>. QED
    BY <2>1, <2>4, <2>5, <2>6 DEF RowsInv, UnitsIn
<1>11. CASE Leaves(s)
  <2>1. desk' = [desk EXCEPT ![s] = Nothing] /\ there' = there /\ units' = units
    BY <1>11 DEF Leaves
  <2>2. Inserted' \subseteq Inserted \cup {}
    BY <1>4, <2>1
  <2>. QED
    BY <1>2, <1>3, <2>1, <2>2
<1>. QED
  BY <1>1, <1>5, <1>6, <1>7, <1>8, <1>9, <1>10, <1>11
-----------------------------------------------------------------------------
(* The inductive invariant *)

(* What an older seed has left is finite and says nothing twice.              *)
LEMMA OlderSeedIsFinite ==
    AdministrationInit => IsFiniteSet(there) /\ Distinct(there)
<1>. SUFFICES ASSUME AdministrationInit PROVE IsFiniteSet(there) /\ Distinct(there)
  OBVIOUS
<1>1. \A k \in there, l \in there : Says[k] = Says[l] => k = l
  BY AdministrationConstants DEF AdministrationInit
<1>2. IsFiniteSet(Base)
  <2>1. SeedOrder \in [1..Len(SeedOrder) -> Base] /\ IsFiniteSet(1..Len(SeedOrder))
    BY AdministrationConstants, FS_Interval
  <2>2. SeedOrder \in Surjection(1..Len(SeedOrder), Base)
    BY <2>1, SeedOrderTypes DEF Surjection
  <2>. QED
    BY <2>1, <2>2, FS_Surjection
<1>3. Said(there) \subseteq Base
  BY AdministrationConstants DEF AdministrationInit
<1>4. PICK f : f = [k \in there |-> Says[k]]
  OBVIOUS
<1>5. f \in [there -> Base] /\ \A k \in there, l \in there : f[k] = f[l] => k = l
  BY <1>1, <1>3, <1>4 DEF Said
<1>6. f \in Injection(there, Base)
  BY <1>5 DEF Injection, IsInjective
<1>. QED
  BY <1>1, <1>2, <1>6, FS_Injection DEF Distinct

LEMMA AdministrationStart == AdministrationInit => AdministrationInv
<1>. SUFFICES ASSUME AdministrationInit PROVE AdministrationInv
  OBVIOUS
<1>1. IsFiniteSet(there) /\ Distinct(there)
  BY OlderSeedIsFinite
<1>2. UnitsIn(there) \in Nat /\ units = UnitsIn(there)
  <2>1. IsFiniteSet({k \in there : Says[k] \in Unit})
    BY <1>1, FS_Subset
  <2>. QED
    BY <2>1, FS_CardinalityType DEF AdministrationInit, UnitsIn
<1>3. Shapes
  BY <1>2, AdministrationConstants DEF AdministrationInit, Shapes
<1>4. Inserted = {}
  BY DEF AdministrationInit, Inserted, Busy
<1>5. JobsInv /\ IdsInv
  BY NothingIsNoJob DEF AdministrationInit, JobsInv, IdsInv
<1>6. RowsInv
  BY <1>1, <1>2, <1>4 DEF RowsInv
<1>. QED
  BY <1>3, <1>5, <1>6 DEF AdministrationInv

LEMMA AdministrationStutter ==
    AdministrationInv /\ UNCHANGED administrationVars => AdministrationInv'
<1>. SUFFICES ASSUME AdministrationInv, UNCHANGED administrationVars PROVE AdministrationInv'
  OBVIOUS
<1>. USE DEF AdministrationInv, administrationVars
<1>1. Shapes'
  BY DEF Shapes
<1>2. JobsInv'
  BY JobKept DEF JobsInv
<1>3. IdsInv'
  BY DEF IdsInv, ApartFrom, Own
<1>4. Inserted' = Inserted
  BY DEF Inserted, Busy
<1>5. RowsInv'
  BY <1>4 DEF RowsInv, Distinct, UnitsIn
<1>. QED
  BY <1>1, <1>2, <1>3, <1>5

LEMMA AdministrationStep ==
    AdministrationInv /\ [AdministrationNext]_administrationVars => AdministrationInv'
BY AdministrationStutter, ShapesNext, JobsNext, IdsNext, RowsNext DEF AdministrationInv

THEOREM AdministrationStaysSound == AdministrationSpec => []AdministrationInv
BY AdministrationStart, AdministrationStep, PTL DEF AdministrationSpec

-----------------------------------------------------------------------------
(* What follows *)

(* The tables keep their shape, and no row is inserted or deleted by two      *)
(* transactions at a time.                                                    *)
THEOREM AdministrationTypeCorrect == AdministrationSpec => []AdministrationTypeOK
<1>1. ASSUME AdministrationInv PROVE AdministrationTypeOK
  <2>1. Shapes /\ IdsInv
    BY <1>1 DEF AdministrationInv
  <2>2. ASSUME NEW s \in Clerk, Busy(s), NEW k \in desk[s].mine, k \in Pending(s) PROVE FALSE
    <3>1. PICK o \in Clerk \ {s} : Busy(o) /\ k \in desk[o].mine
      BY <2>2 DEF Pending
    <3>. QED
      BY <2>1, <2>2, <3>1, DeskTypes DEF IdsInv
  <2>. QED
    BY <2>1, <2>2 DEF AdministrationTypeOK, Shapes
<1>. QED
  BY <1>1, AdministrationStaysSound, PTL

(* While no entry was lost, no role or grant appears or disappears before the *)
(* entry about it is on record, whatever fails, dies or overlaps.             *)
THEOREM ChangesStayOnRecord == AdministrationSpec => ChangesAreOnRecord
<1>. DEFINE OnRecord ==
              lost = 0 =>
                 /\ \A k \in there \ there' : [action |-> "removed", row |-> k] \in diary
                 /\ \A k \in there' \ there :
                       Says[k] \in Base \/ [action |-> "added", row |-> k] \in diary
<1>1. ASSUME AdministrationInv, AdministrationNext PROVE OnRecord
  <2>1. PICK s \in Clerk : \/ NewJob(s) \/ GoesOn(s) \/ FlushesOne(s) \/ InsertsOne(s)
                           \/ CommitsNew(s) \/ CommitsRemoval(s) \/ Leaves(s)
    BY <1>1, AdministrationSteps DEF AdministrationInv
  <2>2. CASE NewJob(s) \/ GoesOn(s) \/ FlushesOne(s) \/ InsertsOne(s) \/ Leaves(s)
    BY <2>2 DEF NewJob, GoesOn, FlushesOne, InsertsOne, Leaves
  <2>3. CASE CommitsNew(s)
    <3>1. PICK j \in Job : /\ j.op # "removed" /\ JobSound(j) /\ j.pc = "commit"
                           /\ there' = there \cup j.mine
      BY <2>3 DEF CommitsNew
    <3>2. CASE j.op = "seed"
      BY <3>1, <3>2 DEF JobSound, SeedSound, Said
    <3>3. CASE j.op = "added"
      BY <3>1, <3>3 DEF JobSound, RouterSound
    <3>. QED
      BY <3>1, <3>2, <3>3 DEF Job
  <2>4. CASE CommitsRemoval(s)
    <3>1. PICK j \in Job, k \in Row : /\ j.op = "removed" /\ JobSound(j) /\ j.pc = "commit"
                                      /\ j.row = k /\ there' = there \ {k}
      BY <2>4 DEF CommitsRemoval
    <3>. QED
      BY <3>1 DEF JobSound, RouterSound
  <2>. QED
    BY <2>1, <2>2, <2>3, <2>4
<1>2. ASSUME UNCHANGED administrationVars PROVE OnRecord
  BY <1>2 DEF administrationVars
<1>3. AdministrationInv /\ [AdministrationNext]_administrationVars => OnRecord
  BY <1>1, <1>2
<1>. QED
  BY <1>3, AdministrationStaysSound, PTL DEF AdministrationSpec, ChangesAreOnRecord

(* A seed that commits has seen to everything: what nobody can revoke is      *)
(* there, and all of it if nothing was revoked meanwhile; it adds nothing to  *)
(* what was whole, nothing twice, and the units that are there are those on   *)
(* record.                                                                    *)
THEOREM SeedsComplete == AdministrationSpec => SeedCompletes
<1>. DEFINE Complete(s) ==
              /\ Base \ (IF desk[s].calm THEN {} ELSE Grant) \subseteq Said(there')
              /\ desk[s].whole /\ desk[s].calm => desk[s].mine = {}
              /\ \A k, l \in there' : Says[k] = Says[l] => k = l \/ Says[k] \in ScopeGrant
              /\ units' = UnitsIn(there')
<1>1. ASSUME AdministrationInv, AdministrationInv', NEW s \in Clerk, CommitSeed(s)
      PROVE  Complete(s)
  <2>1. PICK j \in Job : desk[s] = j /\ j.op = "seed" /\ j.pc = "commit"
    BY <1>1, DeskTypes DEF CommitSeed, Seeding, At, AdministrationInv
  <2>2. SeedSound(j) /\ there' = there \cup j.mine
    BY <1>1, <2>1 DEF AdministrationInv, JobsInv, JobSound, CommitSeed
  <2>3. ASSUME NEW c \in Base, c \in Grant => j.calm PROVE c \in Said(there')
    <3>1. PICK i \in 1..Len(SeedOrder) : SeedOrder[i] = c
      BY SeedOrderTypes
    <3>2. i \in 1..(j.at - 1)
      BY <2>1, <2>2, SeedOrderTypes DEF SeedSound
    <3>. QED
      BY <2>2, <2>3, <3>1, <3>2 DEF SeedSound, SeenTo
  <2>4. j.whole /\ j.calm => j.mine = {}
    BY <2>2 DEF SeedSound
  <2>5. Distinct(there') /\ units' = UnitsIn(there')
    BY <1>1 DEF AdministrationInv, RowsInv, Distinct, UnitsIn
  <2>. QED
    BY <2>1, <2>3, <2>4, <2>5 DEF Distinct
<1>2. AdministrationInv /\ AdministrationInv' => \A s \in Clerk : CommitSeed(s) => Complete(s)
  BY <1>1
<1>. QED
  BY <1>2, AdministrationStep, AdministrationStaysSound, PTL
     DEF AdministrationSpec, SeedCompletes
=============================================================================
