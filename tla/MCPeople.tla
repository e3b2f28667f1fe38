------------------------------ MODULE MCPeople ------------------------------
(* Accounts, Assets, Grants and Administration together, on a small instance  *)
(* for TLC.                                                                   *)
EXTENDS Accounts, Assets, Grants, Administration, TLC

CONSTANTS E1, W1   (* the first employee and workplace                        *)

ASSUME FirstOnes == E1 \in Employee /\ W1 \in Workplace

Ids == [e \in Employee |-> 1]

(* Workplace w1 in a complex of its own, and roles that overlap.              *)
OwnComplex == [w \in Workplace |-> IF w = W1 THEN 1 ELSE 2]
RolePermits == [r \in Role |-> IF r = 1 THEN {"read"} ELSE {"read", "write"}]

(* What rows of administration say: a base role, the administrator's          *)
(* assignment of it and his scope, a unit; and another role that he creates.  *)
(* Rows enough for each to be inserted again.                                 *)
Order == <<"base role", "has base role", "scope", "unit">>
Releases == {{}, {"base role", "has base role"}, Range(Order)}
Wants == [c \in {"other role", "has base role", "scope"} |->
          IF c = "has base role" THEN {"base role"} ELSE {"has base role"}]
Text == <<"base role",
          "has base role", "has base role", "has base role",
          "scope", "scope", "scope", "unit",
          "other role">>
Rows == DOMAIN Text

peopleVars == <<accountVars, asset, timeline, work, grantVars, administrationVars>>

PeopleInit == AccountInit /\ AssetInit /\ GrantInit /\ AdministrationInit

(* Bounds.  A behaviour has one of five subjects, which share no state but    *)
(* the employees: records of one person that are hired, moved and switched on *)
(* and off; the sign-ins and tokens of the first employee; the assets that he *)
(* and a location hold, and the roles and scopes he is given, while one       *)
(* session may switch him on and off; and the seed with the routes of roles   *)
(* and scopes, which share nothing with the others.  An entry is lost only    *)
(* while nobody seeds; a seed looks at rows and not at entries.               *)
Settled == /\ \A e \in Employee : place[e] # None => e = E1 /\ place[e] = W1
           /\ \A s \in Session : ~Doing(s, "move")
Fresh == Settled /\ trail = {} /\ \A s \in Session : act[s] = None

Tokens == \/ \E f \in Family : owner[f] # None
          \/ \E s \in Session : Doing(s, "sign in")
Things == \E a \in Asset : asset[a] # None
Granted == grantVars # <<[e \in Employee |-> {}], [i \in ScopeId |-> None]>>

StaffSubject ==
    \/ \E e \in Employee : (e # E1 => place[E1] # None) /\ HireEmployee(e, W1)
    \/ \E s \in Session : StaffingStep(s) \/ StatusStep(s)

TokenSubject == \E s \in Session : SignInStep(s) \/ TokenStep(s) \/ StatusStep(s)

OneSwitch ==
    /\ \A s \in Session : act[s] = None
    /\ \E s \in Session, active \in BOOLEAN : BeginStatus(s, E1, active)

Unstaffed == Fresh /\ ~Tokens /\ ~Things /\ ~Granted /\ \A e \in Employee : place[e] = None
Unseeded == there = {} /\ \A s \in Session : desk[s] = None

Unlost == lost = 0 \/ \A s \in Clerk : Busy(s) => desk[s].op # "seed"

AccountStep ==
    \/ ~Tokens /\ ~Things /\ ~Granted /\ StaffSubject
    \/ (Fresh \/ Tokens) /\ ~Things /\ ~Granted /\ TokenSubject
    \/ (Things \/ Granted) /\ OneSwitch
    \/ \E s \in Session :
        \/ LockEmployee(s) \/ CommitReactivate(s) \/ ListFamilies(s)
        \/ RevokeStep(s) \/ EndRequest(s) \/ Abandon(s)

FewEntries == MapThenSumSet(LAMBDA a : Len(timeline[a]), Asset) <= MaxTimeline

PeopleNext ==
    \/ /\ Unseeded
       /\ UNCHANGED administrationVars
       /\ \/ AccountStep /\ UNCHANGED <<asset, timeline, work, grantVars>>
          \/ /\ Fresh \/ Things
             /\ ~Tokens /\ ~Granted
             /\ AssetStep
             /\ FewEntries'
             /\ UNCHANGED <<account, owner, chain, trail, act, grantVars>>
          \/ /\ Fresh \/ Granted
             /\ ~Tokens /\ ~Things
             /\ GrantStep
             /\ UNCHANGED <<accountVars, asset, timeline, work>>
    \/ /\ Unstaffed
       /\ AdministrationNext
       /\ Unlost'
       /\ UNCHANGED <<accountVars, asset, timeline, work, grantVars>>

PeopleSpec == PeopleInit /\ [][PeopleNext]_peopleVars

(* The type invariants of the three.                                          *)
PeopleTypeOK == AccountTypeOK /\ AssetTypeOK /\ AdministrationTypeOK

Alike == Permutations(Session)
=============================================================================
