------------------------------- MODULE Grants -------------------------------
(***************************************************************************)
(* Roles and scopes.  A permission comes with a role, and the units it     *)
(* holds for with a scope assignment; both are needed.  Every request      *)
(* reads them afresh, so what a user may do follows the committed rows.    *)
(*                                                                         *)
(* The program decides what a user may do in several places: can, for one  *)
(* target; allowed_units, from which the list queries and the single-row   *)
(* loads make their filters; and the query for the recipients of an event. *)
(* The account of an employee is active as long as the employee is, which  *)
(* module Accounts shows (AccountFollowsEmployee).                         *)
(***************************************************************************)
EXTENDS Staff, Naturals

CONSTANTS
    Complex, ComplexOf,  (* ComplexOf[w]: the complex of workplace w          *)
    Operation,           (* permission codes                                  *)
    Role, Permits,       (* Permits[r]: the permissions of role r             *)
    MaxScopes            (* bound on the scope assignments                    *)

ASSUME GrantConstants ==
    /\ ComplexOf \in [Workplace -> Complex]
    /\ Permits \in [Role -> SUBSET Operation]
    /\ None \notin Complex
    /\ MaxScopes \in Nat

ScopeId == 1..MaxScopes

VARIABLES
    roles,   (* roles[e]: the roles of e's account                            *)
    scope    (* scope[i]: a committed assignment, None if there is none       *)

grantVars == <<roles, scope>>

(* What assign_scope lets through.  The unit of another level than the        *)
(* assignment's own is stored too.                                            *)
Assignment ==
    {a \in [who: Employee, level: {"global", "complex", "workplace"},
            operation: Operation, complex: Complex \cup {None},
            workplace: Workplace \cup {None}] :
        /\ a.level = "complex" => a.complex # None
        /\ a.level = "workplace" => a.workplace # None
        /\ a.level = "global" => a.complex = None /\ a.workplace = None}

GrantInit ==
    /\ roles = [e \in Employee |-> {}]
    /\ scope = [i \in ScopeId |-> None]
-----------------------------------------------------------------------------
AssignRole(e, r) ==
    /\ place[e] # None
    /\ r \notin roles[e]
    /\ roles' = [roles EXCEPT ![e] = @ \cup {r}]
    /\ UNCHANGED scope

RevokeRole(e, r) ==
    /\ r \in roles[e]
    /\ roles' = [roles EXCEPT ![e] = @ \ {r}]
    /\ UNCHANGED scope

(* The same assignment may be made twice.                                     *)
AssignScope(i, a) ==
    /\ place[a.who] # None
    /\ scope[i] = None
    /\ scope' = [scope EXCEPT ![i] = a]
    /\ UNCHANGED roles

RevokeScope(i) ==
    /\ scope[i] # None
    /\ scope' = [scope EXCEPT ![i] = None]
    /\ UNCHANGED roles

GrantStep ==
    \/ \E e \in Employee, r \in Role : AssignRole(e, r) \/ RevokeRole(e, r)
    \/ \E i \in ScopeId : (\E a \in Assignment : AssignScope(i, a)) \/ RevokeScope(i)

GrantSpec ==
    /\ StaffInit /\ GrantInit
    /\ [][\/ GrantStep /\ UNCHANGED staffVars
          \/ StaffNext /\ UNCHANGED grantVars]_<<staffVars, grantVars>>
-----------------------------------------------------------------------------
(* load_scope_context: no context without an active account.                  *)
Codes(e) == UNION {Permits[r] : r \in roles[e]}
ScopesFor(e, op) == {i \in ScopeId : /\ scope[i] # None
                                     /\ scope[i].who = e
                                     /\ scope[i].operation = op}

(* require_operation                                                          *)
Holds(e, op) == working[e] /\ op \in Codes(e)

Covers(a, c, w) ==
    CASE a.level = "global"    -> TRUE
      [] a.level = "complex"   -> c # None /\ a.complex = c
      [] a.level = "workplace" -> w # None /\ a.workplace = w

(* can, for a target of complex c and workplace w, either of which may be     *)
(* None.                                                                      *)
Can(e, op, c, w) == Holds(e, op) /\ \E i \in ScopesFor(e, op) : Covers(scope[i], c, w)

(* Variant: the ids of an assignment are collected whatever its level is.     *)
AllowedUnitsLoose(e, op) ==
    LET mine == {scope[i] : i \in IF Holds(e, op) THEN ScopesFor(e, op) ELSE {}}
    IN  [everywhere |-> \E a \in mine : a.level = "global",
         complexes  |-> {a.complex : a \in mine} \ {None},
         workplaces |-> {a.workplace : a \in mine} \ {None}]

AllowedUnits(e, op) ==
    LET mine == {scope[i] : i \in IF Holds(e, op) THEN ScopesFor(e, op) ELSE {}}
        At(level) == {a \in mine : a.level = level}
    IN  [everywhere |-> At("global") # {},
         complexes  |-> {a.complex : a \in At("complex")},
         workplaces |-> {a.workplace : a \in At("workplace")}]

(* The filter of the list queries, and of the loads of a warehouse, shelf,    *)
(* asset or request: rows carry their workplace and its complex, or neither.  *)
Listed(e, op, c, w) ==
    LET u == AllowedUnits(e, op)
    IN  u.everywhere \/ c \in u.complexes \/ w \in u.workplaces

(* get_employee_in_scope compares identifiers with their spellings, which are *)
(* never equal.                                                               *)
OpensEmployee(e, op) == AllowedUnits(e, op).everywhere

(* _complex_scope_filter: a complex is listed for the sake of its workplaces. *)
ListsComplex(e, op, c) ==
    LET u == AllowedUnits(e, op)
    IN  \/ u.everywhere
        \/ c \in u.complexes
        \/ \E w \in u.workplaces : ComplexOf[w] = c

(* Loan policies are checked by their workplace alone.                        *)
MayUsePolicy(e, op, w) == Can(e, op, None, w)

(* get_recipient_user_ids; w is None for an event without a workplace.        *)
Recipients(op, w) ==
    {e \in Employee :
        /\ working[e]
        /\ \E r \in roles[e] : op \in Permits[r]
        /\ \E i \in ScopesFor(e, op) :
              LET a == scope[i]
              IN  \/ a.level = "global"
                  \/ /\ w # None
                     /\ \/ a.level = "complex" /\ a.complex = ComplexOf[w]
                        \/ a.level = "workplace" /\ a.workplace = w}
-----------------------------------------------------------------------------
(* Properties *)

(* The program's answers to who may do what agree for all grants: whoever may *)
(* act on a row of a unit finds it in the lists, and the other way round, and *)
(* is told of its events; without a unit only a global assignment counts; a   *)
(* complex is listed if and only if something in it is, or it is granted; and *)
(* the two checks that are narrower, of loan policies and employees, refuse   *)
(* callers who could see the row but never admit one who could not.           *)
ScopeRulesAgree ==
    \A e \in Employee, op \in Operation :
        /\ \A w \in Workplace :
              /\ Can(e, op, ComplexOf[w], w) <=> Listed(e, op, ComplexOf[w], w)
              /\ Can(e, op, ComplexOf[w], w) <=> e \in Recipients(op, w)
              /\ MayUsePolicy(e, op, w) => Listed(e, op, ComplexOf[w], w)
              /\ OpensEmployee(e, op) => Can(e, op, ComplexOf[w], w)
              /\ Listed(e, op, ComplexOf[w], w) => ListsComplex(e, op, ComplexOf[w])
        /\ Can(e, op, None, None) <=> Listed(e, op, None, None)
        /\ Can(e, op, None, None) <=> e \in Recipients(op, None)
        /\ \A c \in Complex : ListsComplex(e, op, c) =>
              \/ Can(e, op, c, None)
              \/ \E w \in Workplace : ComplexOf[w] = c /\ Can(e, op, c, w)
=============================================================================
