--------------------------- MODULE Administration ---------------------------
(***************************************************************************)
(* Who administers roles and scopes, and the seed that brings the first of *)
(* them: short transactions of a router, each a row and an audit entry,    *)
(* and one long transaction that looks for all the base rows and inserts   *)
(* those it misses.                                                        *)
(*                                                                         *)
(* The entries of the router are not critical: write_audit commits them in *)
(* a session of its own, before the change itself commits, and carries on  *)
(* if it cannot.  The entry of the seed is critical and commits with it.   *)
(*                                                                         *)
(* A row is known by its id, which is never used again, and Says[k] tells  *)
(* what row k says: the name of a role, who has it, and so on.  A unique   *)
(* index keeps two rows from saying the same, but for the assignments of   *)
(* scopes, which have none.                                                *)
(***************************************************************************)
EXTENDS Naturals, Sequences, FiniteSetsExt, Functions

CONSTANTS
    Clerk,       (* sessions of the router and runs of the seed               *)
    Nothing,     (* no transaction, no row                                    *)
    Row, Says,   (* Says[k]: what row k says                                  *)
    SeedOrder,   (* what the seed makes sure of, in its order                 *)
    Release,     (* what the seeds of older releases have left: sets of those *)
    Unit,        (* of that: company, complexes and workplaces                *)
    RoleName,    (* what rows of roles may say                                *)
    RoleGrant,   (* what assignments of roles may say                         *)
    ScopeGrant,  (* what assignments of scopes may say                        *)
    Needs,       (* Needs[c]: what must be there before c is added            *)
    MaxWrites,   (* bound on the entries of the router                        *)
    MaxLost      (* bound on those that cannot be written                     *)

Grant == RoleGrant \cup ScopeGrant

(* The base rows: permissions, roles, their permissions, the administrator    *)
(* with role and scopes, the units and the settings.                          *)
Base == Range(SeedOrder)

ASSUME AdministrationConstants ==
    /\ Row \subseteq Nat
    /\ Says \in [Row -> Base \cup RoleName \cup Grant]
    /\ SeedOrder \in Seq(Base) /\ SeedOrder # <<>>
    /\ Release \subseteq SUBSET Base
    /\ Unit \subseteq Base \ Grant
    /\ RoleName \cap (Grant \cup Unit) = {}
    /\ RoleGrant \cap ScopeGrant = {}
    /\ MaxWrites \in Nat /\ MaxLost \in Nat

VARIABLES
    there,    (* the committed rows                                           *)
    diary,    (* the committed entries of the router                          *)
    lost,     (* the number of those that could not be written                *)
    units,    (* the sum of records_created in the entries ORG_SEEDED         *)
    desk      (* desk[s]: the transaction of s, or Nothing                    *)

administrationVars == <<there, diary, lost, units, desk>>

DiaryEntry == [action: {"added", "removed"}, row: Row]

(* mine: the rows inserted or deleted and not committed.  whole and calm are  *)
(* about a seed: every base row was there when it began, and none has been    *)
(* taken away since.                                                          *)
Job == [op: {"added", "removed", "seed"}, row: Row \cup {Nothing},
        pc: {"write", "record", "look", "insert", "commit"},
        at: 1..(Len(SeedOrder) + 1),
        mine: SUBSET Row,
        whole: BOOLEAN, calm: BOOLEAN]

ASSUME NothingIsNoJob == Nothing \notin Row \cup Job

Said(rows) == {Says[k] : k \in rows}

(* Either nothing, or what an older seed has left, with its units on record.  *)
AdministrationInit ==
    /\ there \in SUBSET Row
    /\ Said(there) \in Release
    /\ \A k \in there, l \in Row : Says[k] = Says[l] => k <= l
    /\ diary = {}
    /\ lost = 0
    /\ units = Cardinality({k \in there : Says[k] \in Unit})
    /\ desk = [s \in Clerk |-> Nothing]

Busy(s) == desk[s] # Nothing
At(s, pc) == Busy(s) /\ desk[s].pc = pc
Seeding(s, pc) == At(s, pc) /\ desk[s].op = "seed"

Begin(s, op, k, pc, whole) ==
    /\ ~Busy(s)
    /\ desk' = [desk EXCEPT ![s] = [op |-> op, row |-> k, pc |-> pc, at |-> 1,
                                    mine |-> {}, whole |-> whole, calm |-> TRUE]]
    /\ UNCHANGED <<there, diary, lost, units>>

Leave(s) == desk' = [desk EXCEPT ![s] = Nothing]

(* The rows others have inserted or deleted and not committed.                *)
Pending(s) == UNION {desk[o].mine : o \in {x \in Clerk \ {s} : Busy(x)}}

(* The unique index lets nobody say what a committed row says, and makes an   *)
(* insert wait for whoever is inserting or deleting a row that says it.       *)
Taken(c) == c \notin ScopeGrant /\ c \in Said(there)
Contended(s, c) == c \notin ScopeGrant /\ c \in Said(Pending(s))
-----------------------------------------------------------------------------
(* The router *)

Used == there \cup {e.row : e \in diary}
              \cup UNION {desk[o].mine \cup {desk[o].row} : o \in {x \in Clerk : Busy(x)}}

(* A new id is not used; of those that would say the same it is the least,    *)
(* since one is as good as another.                                           *)
NewRow(k) == k = Min({l \in Row \ Used : Says[l] = Says[k]} \cup {k}) /\ k \notin Used

(* create_role, assign_role and assign_scope up to their checks.  Only        *)
(* assign_scope does not ask whether the same is there already.               *)
BeginAdd(s, k) ==
    /\ Cardinality(diary) + lost < MaxWrites
    /\ NewRow(k)
    /\ Says[k] \in RoleName \cup Grant
    /\ Needs[Says[k]] \subseteq Said(there)
    /\ ~Taken(Says[k])
    /\ Begin(s, "added", k, "write", FALSE)

(* revoke_role and revoke_scope.                                              *)
BeginRemove(s, k) ==
    /\ Cardinality(diary) + lost < MaxWrites
    /\ k \in there
    /\ Says[k] \in Grant
    /\ Begin(s, "removed", k, "write", FALSE)

(* Variant: a delete does not wait for another of its row.                    *)
FlushWriteUnlocked(s) ==
    /\ At(s, "write")
    /\ desk[s].op = "added" => /\ ~Taken(Says[desk[s].row])
                               /\ ~Contended(s, Says[desk[s].row])
    /\ desk' = [desk EXCEPT ![s].pc = "record", ![s].mine = {desk[s].row}]
    /\ UNCHANGED <<there, diary, lost, units>>

(* The flush.  An insert may wait and then be refused (Refuse); a delete      *)
(* waits for another of its row, and to find the row gone is no error.        *)
FlushWrite(s) ==
    /\ At(s, "write")
    /\ IF desk[s].op = "removed" THEN desk[s].row \notin Pending(s)
       ELSE ~Taken(Says[desk[s].row]) /\ ~Contended(s, Says[desk[s].row])
    /\ desk' = [desk EXCEPT ![s].pc = "record", ![s].mine = {desk[s].row}]
    /\ UNCHANGED <<there, diary, lost, units>>

(* write_audit, in a session of its own: committed, or logged as a warning.   *)
Record(s) ==
    /\ At(s, "record")
    /\ desk' = [desk EXCEPT ![s].pc = "commit"]
    /\ \/ /\ diary' = diary \cup {[action |-> desk[s].op, row |-> desk[s].row]}
          /\ UNCHANGED lost
       \/ /\ lost < MaxLost
          /\ lost' = lost + 1
          /\ UNCHANGED diary
    /\ UNCHANGED <<there, units>>

(* A seed under way is no longer calm when somebody takes a base row away.    *)
Disturbed ==
    [o \in Clerk |-> IF Busy(o) /\ desk[o].op = "seed"
                     THEN [desk[o] EXCEPT !.calm = FALSE] ELSE desk[o]]

(* Variant: the change commits first and its entry is forgotten.              *)
CommitWriteEarly(s) ==
    /\ At(s, "commit") \/ At(s, "record")
    /\ desk[s].op # "seed"
    /\ there' = IF desk[s].op = "added" THEN there \cup desk[s].mine
                                        ELSE there \ desk[s].mine
    /\ desk' = [(IF desk[s].op = "added" THEN desk ELSE Disturbed)
                    EXCEPT ![s] = Nothing]
    /\ UNCHANGED <<diary, lost, units>>

CommitWrite(s) ==
    /\ At(s, "commit")
    /\ desk[s].op # "seed"
    /\ there' = IF desk[s].op = "added" THEN there \cup desk[s].mine
                                        ELSE there \ desk[s].mine
    /\ desk' = [(IF desk[s].op = "added" THEN desk ELSE Disturbed)
                    EXCEPT ![s] = Nothing]
    /\ UNCHANGED <<diary, lost, units>>
-----------------------------------------------------------------------------
(* run_seed *)

BeginSeed(s) == Begin(s, "seed", Nothing, "look", Base \subseteq Said(there))

Wanted(s) == SeedOrder[desk[s].at]

(* The job of s with the next base row to see to, or none left.               *)
Onward(s) == [desk[s] EXCEPT !.at = @ + 1,
                             !.pc = IF desk[s].at < Len(SeedOrder) THEN "look"
                                                                   ELSE "commit"]

(* Variant: scopes are inserted without a look, as assign_scope does it.      *)
LookNotForScopes(s) ==
    /\ Seeding(s, "look")
    /\ desk' = [desk EXCEPT ![s] = IF /\ Wanted(s) \notin ScopeGrant
                                      /\ Wanted(s) \in Said(there \cup @.mine)
                                   THEN Onward(s) ELSE [@ EXCEPT !.pc = "insert"]]
    /\ UNCHANGED <<there, diary, lost, units>>

(* Get or create: the row is looked for ...                                   *)
Look(s) ==
    /\ Seeding(s, "look")
    /\ desk' = [desk EXCEPT ![s] = IF Wanted(s) \in Said(there \cup @.mine)
                                   THEN Onward(s) ELSE [@ EXCEPT !.pc = "insert"]]
    /\ UNCHANGED <<there, diary, lost, units>>

(* ... and inserted if it was not there.                                      *)
Insert(s) ==
    /\ Seeding(s, "insert")
    /\ ~Taken(Wanted(s)) /\ ~Contended(s, Wanted(s))
    /\ \E k \in Row :
          /\ NewRow(k) /\ Says[k] = Wanted(s)
          /\ desk' = [desk EXCEPT ![s] = [Onward(s) EXCEPT !.mine = @ \cup {k}]]
    /\ UNCHANGED <<there, diary, lost, units>>

UnitsIn(rows) == Cardinality({k \in rows : Says[k] \in Unit})

(* The rows and the entry about the units, in one commit.                     *)
CommitSeed(s) ==
    /\ Seeding(s, "commit")
    /\ there' = there \cup desk[s].mine
    /\ units' = units + UnitsIn(desk[s].mine)
    /\ Leave(s)
    /\ UNCHANGED <<diary, lost>>
-----------------------------------------------------------------------------
Refused(s) ==
    \/ At(s, "write") /\ desk[s].op = "added" /\ Taken(Says[desk[s].row])
    \/ Seeding(s, "insert") /\ Taken(Wanted(s))

(* The unique index refuses: the transaction is rolled back.                  *)
Refuse(s) ==
    /\ Refused(s)
    /\ Leave(s)
    /\ UNCHANGED <<there, diary, lost, units>>

(* The process or its connection ends.                                        *)
Die(s) ==
    /\ Busy(s)
    /\ Leave(s)
    /\ UNCHANGED <<there, diary, lost, units>>

DeskWork(s) ==
    \/ FlushWrite(s) \/ Record(s) \/ CommitWrite(s)
    \/ Look(s) \/ Insert(s) \/ CommitSeed(s)
    \/ Refuse(s)

AdministrationNext ==
    \E s \in Clerk :
        \/ \E k \in Row : BeginAdd(s, k) \/ BeginRemove(s, k)
        \/ BeginSeed(s)
        \/ DeskWork(s)
        \/ Die(s)

AdministrationSpec == AdministrationInit /\ [][AdministrationNext]_administrationVars
-----------------------------------------------------------------------------
(* Properties *)

(* The variables keep their shape, and what is waiting to be committed is     *)
(* held by one transaction: no row is inserted or deleted by two at a time.   *)
AdministrationTypeOK ==
    /\ there \subseteq Row
    /\ diary \subseteq DiaryEntry
    /\ lost \in 0..MaxLost
    /\ units \in Nat
    /\ desk \in [Clerk -> Job \cup {Nothing}]
    /\ \A s \in Clerk : Busy(s) => desk[s].mine \cap Pending(s) = {}

(* No role or grant appears or disappears before the entry about it is on     *)
(* record, unless an entry could not be written.  (An entry about a change    *)
(* that then fails is possible.)  What the seed adds has no entry of its own. *)
ChangesAreOnRecord ==
    [][lost = 0 =>
        /\ \A k \in there \ there' : [action |-> "removed", row |-> k] \in diary
        /\ \A k \in there' \ there :
              Says[k] \in Base \/ [action |-> "added", row |-> k] \in diary
      ]_administrationVars

(* When a seed commits, from whatever release it started and whatever other   *)
(* seeds, requests and deaths came in between: the base rows that nobody can  *)
(* revoke are all there, and every base row if none was revoked meanwhile; if *)
(* they were all there at its beginning it adds nothing; no row is there      *)
(* twice but assignments of scopes; and the entries ORG_SEEDED add up to the  *)
(* units that are there.                                                      *)
SeedCompletes ==
    [][\A s \in Clerk : CommitSeed(s) =>
          /\ Base \ (IF desk[s].calm THEN {} ELSE Grant) \subseteq Said(there')
          /\ desk[s].whole /\ desk[s].calm => desk[s].mine = {}
          /\ \A k, l \in there' : Says[k] = Says[l] => k = l \/ Says[k] \in ScopeGrant
          /\ units' = UnitsIn(there')
      ]_administrationVars
=============================================================================
