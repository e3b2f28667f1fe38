------------------------------ MODULE Accounts ------------------------------
(***************************************************************************)
(* Employees, the user account each of them has, and the account's         *)
(* refresh tokens.  A sign-in opens a family of tokens, a renewal rotates  *)
(* its active member into a new one, and a sign-out, a token presented     *)
(* twice, a deactivation and a new password revoke whole families.         *)
(*                                                                         *)
(* Every request is a transaction under READ COMMITTED: it reads what is   *)
(* committed at the time of each statement and ends with UPDATEs of the    *)
(* columns it changed.  A row it has updated is locked until it commits.   *)
(* Row versions are left out: the program compares them on unlocked rows,  *)
(* which keeps no two requests apart.  So are passwords, expiry dates and  *)
(* access tokens: what they decide is which requests are refused, and a    *)
(* refusal is a request that does not begin, or one that rolls back.       *)
(***************************************************************************)
EXTENDS Staff, Naturals, Sequences, FiniteSets

CONSTANTS
    NationalId,   (* NationalId[e]: two records of one person share it        *)
    MaxFamilies,  (* bound on the families                                    *)
    MaxTokens     (* bound on the tokens, all families together               *)

Family == 1..MaxFamilies
Token == Family \X (1..MaxTokens)
TokenStatus == {"active", "rotated", "revoked"}

(* Audit entries; about and nth are 0 where the entry is about the employee.  *)
Entry == [action: {"LOGIN_SUCCEEDED", "TOKEN_RENEWED", "TOKEN_REUSE_DETECTED",
                   "FAMILY_REVOKED", "EMPLOYEE_DEACTIVATED", "USER_PASSWORD_SET"},
          who: Employee, about: Family \cup {0}, nth: 0..MaxTokens]

Note(action, e, f, i) == [action |-> action, who |-> e, about |-> f, nth |-> i]

(* What a session has in hand.                                                *)
Moving   == [op: {"move"}, who: Employee, to: Workplace]
Toggling == [op: {"status"}, who: Employee, active: BOOLEAN, locked: BOOLEAN,
             was: BOOLEAN]
Entering == [op: {"sign in"}, who: Employee]
Renewing == [op: {"renew"}, token: Token, checked: BOOLEAN]
Revoking == [op: {"revoke"}, who: Employee,
             why: {"logout", "reuse", "inactive", "deactivate", "password"},
             todo: SUBSET Family,   (* families whose members it will read    *)
             read: SUBSET Token,    (* members it read, to be revoked         *)
             user: BOOLEAN,         (* it has updated the row of the account  *)
             known: SUBSET Token]   (* auxiliary: the tokens there were when  *)
                                    (* it began                               *)
Ending   == [op: {"audit"}, entry: Entry, commits: BOOLEAN]

Act == Moving \cup Toggling \cup Entering \cup Renewing \cup Revoking \cup Ending

ASSUME AccountConstants ==
    /\ DOMAIN NationalId = Employee
    /\ MaxFamilies \in Nat /\ MaxTokens \in Nat \ {0}
    /\ None \notin Act \cup Employee

VARIABLES
    account,   (* account[e]: whether the account of e is active              *)
    owner,     (* owner[f]: whose family f is, None until it is opened        *)
    chain,     (* chain[f]: the statuses of the tokens of f, oldest first     *)
    trail,     (* the committed audit entries                                 *)
    act        (* act[s]: what session s has in hand, or None                 *)

accountVars == <<staffVars, account, owner, chain, trail, act>>

AccountTypeOK ==
    /\ StaffTypeOK
    /\ account \in [Employee -> BOOLEAN]
    /\ owner \in [Family -> Employee \cup {None}]
    /\ chain \in [Family -> Seq(TokenStatus)]
    /\ \A f \in Family : Len(chain[f]) <= MaxTokens
    /\ trail \subseteq Entry
    /\ act \in [Session -> Act \cup {None}]

AccountInit ==
    /\ StaffInit
    /\ account = [e \in Employee |-> FALSE]
    /\ owner = [f \in Family |-> None]
    /\ chain = [f \in Family |-> <<>>]
    /\ trail = {}
    /\ act = [s \in Session |-> None]

TokensOf(f) == {f} \X (DOMAIN chain[f])
Opened(e) == {f \in Family : owner[f] = e}
TokensOfUser(e) == UNION {TokensOf(f) : f \in Opened(e)}
StatusOf(t) == chain[t[1]][t[2]]

Room == Cardinality(UNION {TokensOf(f) : f \in Family}) < MaxTokens

Doing(s, op) == act[s] # None /\ act[s].op = op

(* The partial unique index on national ids.                                  *)
IdIsFree(e) == \A x \in Employee \ {e} : NationalId[x] = NationalId[e] =>
                                              ~(place[x] # None /\ working[x])

(* A status change holds the row of its employee from its first UPDATE.       *)
EmployeeLocked(e) ==
    \E s \in Session :
        \/ Doing(s, "status") /\ act[s].who = e /\ act[s].locked
        \/ Doing(s, "revoke") /\ act[s].who = e /\ act[s].why = "deactivate"

UserLocked(e) ==
    \E s \in Session : Doing(s, "revoke") /\ act[s].who = e /\ act[s].user
-----------------------------------------------------------------------------
(* create_employee_with_user, update_employee *)

HireEmployee(e, w) ==
    /\ Hire(e, w)
    /\ IdIsFree(e)
    /\ account' = [account EXCEPT ![e] = TRUE]
    /\ UNCHANGED <<owner, chain, trail, act>>

BeginMove(s, e, w) ==
    /\ act[s] = None
    /\ place[e] \notin {None, w}
    /\ act' = [act EXCEPT ![s] = [op |-> "move", who |-> e, to |-> w]]
    /\ UNCHANGED <<staffVars, account, owner, chain, trail>>

(* Variant: a change of workplace also puts the employee back to work.        *)
CommitMoveActive(s) ==
    /\ Doing(s, "move")
    /\ ~EmployeeLocked(act[s].who)
    /\ place' = [place EXCEPT ![act[s].who] = act[s].to]
    /\ act' = [act EXCEPT ![s] = None]
    /\ working' = [working EXCEPT ![act[s].who] = TRUE]
    /\ UNCHANGED <<account, owner, chain, trail>>

CommitMove(s) ==
    /\ Doing(s, "move")
    /\ ~EmployeeLocked(act[s].who)
    /\ place' = [place EXCEPT ![act[s].who] = act[s].to]
    /\ act' = [act EXCEPT ![s] = None]
    /\ UNCHANGED <<working, account, owner, chain, trail>>

-----------------------------------------------------------------------------
(* _set_employee_active, set_user_password *)

BeginStatus(s, e, active) ==
    /\ act[s] = None
    /\ place[e] # None
    /\ working[e] # active
    /\ act' = [act EXCEPT ![s] = [op |-> "status", who |-> e, active |-> active,
                                  locked |-> FALSE, was |-> active]]
    /\ UNCHANGED <<staffVars, account, owner, chain, trail>>

(* Variant: the UPDATE of the employee waits for nobody.                      *)
LockEmployeeNot(s) ==
    /\ Doing(s, "status")
    /\ ~act[s].locked
    /\ act' = [act EXCEPT ![s].locked = TRUE, ![s].was = account[act[s].who]]
    /\ UNCHANGED <<staffVars, account, owner, chain, trail>>

(* The SELECT of the account flushes the UPDATE of the employee first, which  *)
(* waits for the row's lock: the account is read after whoever held it.       *)
LockEmployee(s) ==
    /\ Doing(s, "status")
    /\ ~act[s].locked
    /\ ~EmployeeLocked(act[s].who)
    /\ act' = [act EXCEPT ![s].locked = TRUE, ![s].was = account[act[s].who]]
    /\ UNCHANGED <<staffVars, account, owner, chain, trail>>

CommitReactivate(s) ==
    LET e == act[s].who
    IN  /\ Doing(s, "status")
        /\ act[s].active /\ act[s].locked
        /\ IdIsFree(e)
        /\ ~act[s].was => ~UserLocked(e)
        /\ working' = [working EXCEPT ![e] = TRUE]
        /\ account' = [account EXCEPT ![e] = @ \/ ~act[s].was]
        /\ act' = [act EXCEPT ![s] = None]
        /\ UNCHANGED <<place, owner, chain, trail>>

(* Variant: families are listed by having no revoked token.                   *)
UnrevokedWhole(e) == {f \in Opened(e) : \A i \in DOMAIN chain[f] : chain[f][i] # "revoked"}

(* list_active_families_for_user                                              *)
Unrevoked(e) == {f \in Opened(e) : \E i \in DOMAIN chain[f] : chain[f][i] # "revoked"}

Revoke(s, e, why, families, user, tokens) ==
    act' = [act EXCEPT ![s] = [op |-> "revoke", who |-> e, why |-> why,
                               todo |-> families, read |-> {}, user |-> user,
                               known |-> tokens]]

ListFamilies(s) ==
    LET e == act[s].who
    IN  /\ Doing(s, "status")
        /\ ~act[s].active /\ act[s].locked
        /\ act[s].was => ~UserLocked(e)
        /\ Revoke(s, e, "deactivate", Unrevoked(e), act[s].was, TokensOfUser(e))
        /\ UNCHANGED <<staffVars, account, owner, chain, trail>>

SetPassword(s, e) ==
    /\ act[s] = None
    /\ place[e] # None
    /\ ~UserLocked(e)
    /\ Revoke(s, e, "password", Unrevoked(e), TRUE, TokensOfUser(e))
    /\ UNCHANGED <<staffVars, account, owner, chain, trail>>

-----------------------------------------------------------------------------
(* authenticate, issue_family, rotate, logout *)

BeginSignIn(s, e) ==
    /\ act[s] = None
    /\ account[e]
    /\ act' = [act EXCEPT ![s] = [op |-> "sign in", who |-> e]]
    /\ UNCHANGED <<staffVars, account, owner, chain, trail>>

(* issue_family commits; the audit entry is then flushed to a new transaction *)
(* that nobody commits.                                                       *)
IssueFamily(s) ==
    LET e == act[s].who
        f == Cardinality({g \in Family : owner[g] # None}) + 1
    IN  /\ Doing(s, "sign in")
        /\ f \in Family /\ Room
        /\ owner' = [owner EXCEPT ![f] = e]
        /\ chain' = [chain EXCEPT ![f] = <<"active">>]
        /\ act' = [act EXCEPT ![s] = [op |-> "audit", commits |-> FALSE,
                                      entry |-> Note("LOGIN_SUCCEEDED", e, f, 0)]]
        /\ UNCHANGED <<staffVars, account, trail>>

(* Variant: the status of the token is not looked at.                         *)
BeginRenewAny(s, t) ==
    /\ act[s] = None
    /\ act' = [act EXCEPT ![s] = [op |-> "renew", token |-> t, checked |-> FALSE]]
    /\ UNCHANGED <<staffVars, account, owner, chain, trail>>

BeginRenew(s, t) ==
    /\ act[s] = None
    /\ StatusOf(t) = "active"
    /\ act' = [act EXCEPT ![s] = [op |-> "renew", token |-> t, checked |-> FALSE]]
    /\ UNCHANGED <<staffVars, account, owner, chain, trail>>

CheckUser(s) ==
    LET f == act[s].token[1]
    IN  /\ Doing(s, "renew")
        /\ ~act[s].checked
        /\ \/ /\ account[owner[f]]
              /\ act' = [act EXCEPT ![s].checked = TRUE]
           \/ /\ ~account[owner[f]]
              /\ Revoke(s, owner[f], "inactive", {f}, FALSE, TokensOf(f))
        /\ UNCHANGED <<staffVars, account, owner, chain, trail>>

(* Variant: the renewal commits before it is audited.                         *)
CommitRenewFirst(s) ==
    LET f == act[s].token[1]
        i == act[s].token[2]
        new == Len(chain[f]) + 1
    IN  /\ Doing(s, "renew")
        /\ act[s].checked
        /\ Room
        /\ chain' = [chain EXCEPT ![f] = Append([@ EXCEPT ![i] = "rotated"], "active")]
        /\ trail' = trail
        /\ act' = [act EXCEPT ![s] = None]
        /\ UNCHANGED <<staffVars, account, owner>>

(* The successor is inserted and the token is made "rotated", whatever its    *)
(* status has become.                                                         *)
CommitRenew(s) ==
    LET f == act[s].token[1]
        i == act[s].token[2]
        new == Len(chain[f]) + 1
    IN  /\ Doing(s, "renew")
        /\ act[s].checked
        /\ Room
        /\ chain' = [chain EXCEPT ![f] = Append([@ EXCEPT ![i] = "rotated"], "active")]
        /\ trail' = trail \cup {Note("TOKEN_RENEWED", owner[f], f, new)}
        /\ act' = [act EXCEPT ![s] = None]
        /\ UNCHANGED <<staffVars, account, owner>>

Reuse(s, t) ==
    /\ act[s] = None
    /\ StatusOf(t) # "active"
    /\ Revoke(s, owner[t[1]], "reuse", {t[1]}, FALSE, TokensOf(t[1]))
    /\ UNCHANGED <<staffVars, account, owner, chain, trail>>

Logout(s, t) ==
    /\ act[s] = None
    /\ StatusOf(t) = "active"
    /\ Revoke(s, owner[t[1]], "logout", {t[1]}, FALSE, TokensOf(t[1]))
    /\ UNCHANGED <<staffVars, account, owner, chain, trail>>

-----------------------------------------------------------------------------
(* revoke_all_for_user, _revoke_family *)

(* list_family_members, one family a statement                                *)
ReadFamily(s, f) ==
    /\ Doing(s, "revoke")
    /\ f \in act[s].todo
    /\ act' = [act EXCEPT ![s].todo = @ \ {f},
                          ![s].read = @ \cup {t \in TokensOf(f) : StatusOf(t) # "revoked"}]
    /\ UNCHANGED <<staffVars, account, owner, chain, trail>>

Audited(r) ==
    IF r.why \in {"deactivate", "password"}
    THEN {Note("FAMILY_REVOKED", r.who, 0, 0)}
    ELSE LET f == (CHOOSE t \in r.known : TRUE)[1]
         IN  {Note("FAMILY_REVOKED", r.who, f, 0)} \cup
             (IF r.why = "reuse" THEN {Note("TOKEN_REUSE_DETECTED", r.who, f, 0)}
                                 ELSE {})

(* Variant: the entry has an action code that is not in the list.             *)
AfterwardsUnlisted(r) ==
    CASE r.why = "deactivate" ->
            [op |-> "audit", commits |-> TRUE,
             entry |-> Note("EMPLOYEE_RETIRED", r.who, 0, 0)]
      [] r.why = "password" ->
            [op |-> "audit", commits |-> TRUE,
             entry |-> Note("USER_PASSWORD_SET", r.who, 0, 0)]
      [] OTHER -> None

(* What a caller of revoke_all_for_user still writes after its commit.        *)
Afterwards(r) ==
    CASE r.why = "deactivate" ->
            [op |-> "audit", commits |-> TRUE,
             entry |-> Note("EMPLOYEE_DEACTIVATED", r.who, 0, 0)]
      [] r.why = "password" ->
            [op |-> "audit", commits |-> TRUE,
             entry |-> Note("USER_PASSWORD_SET", r.who, 0, 0)]
      [] OTHER -> None

(* The members it read are revoked and, for a deactivation, the employee and  *)
(* the account deactivated.                                                   *)
CommitRevoke(s) ==
    LET r == act[s]
        e == r.who
    IN  /\ Doing(s, "revoke")
        /\ r.todo = {}
        /\ chain' = [f \in Family |->
                        [i \in DOMAIN chain[f] |->
                            IF <<f, i>> \in r.read THEN "revoked" ELSE chain[f][i]]]
        /\ working' = [working EXCEPT ![e] = @ /\ r.why # "deactivate"]
        /\ account' = [account EXCEPT ![e] = @ /\ ~(r.why = "deactivate" /\ r.user)]
        /\ trail' = trail \cup Audited(r)
        /\ act' = [act EXCEPT ![s] = Afterwards(r)]
        /\ UNCHANGED <<place, owner>>

-----------------------------------------------------------------------------
(* The end of a request whose last entry has a transaction of its own, and    *)
(* get_db's close, which rolls back what is not committed.                    *)
EndRequest(s) ==
    /\ Doing(s, "audit")
    /\ trail' = trail \cup (IF act[s].commits THEN {act[s].entry} ELSE {})
    /\ act' = [act EXCEPT ![s] = None]
    /\ UNCHANGED <<staffVars, account, owner, chain>>

(* A refusal, an integrity error or a crash.                                  *)
Abandon(s) ==
    /\ act[s] # None
    /\ act' = [act EXCEPT ![s] = None]
    /\ UNCHANGED <<staffVars, account, owner, chain, trail>>

SignInStep(s) ==
    \/ \E e \in Employee : BeginSignIn(s, e)
    \/ IssueFamily(s)

TokenStep(s) ==
    \/ \E f \in Family, i \in 1..MaxTokens :
          i \in DOMAIN chain[f] /\ (BeginRenew(s, <<f, i>>) \/ Reuse(s, <<f, i>>)
                                       \/ Logout(s, <<f, i>>))
    \/ CheckUser(s) \/ CommitRenew(s)

StatusStep(s) ==
    \/ \E e \in Employee, active \in BOOLEAN : BeginStatus(s, e, active)
    \/ LockEmployee(s) \/ CommitReactivate(s) \/ ListFamilies(s)
    \/ \E e \in Employee : SetPassword(s, e)

StaffingStep(s) ==
    \/ \E e \in Employee, w \in Workplace : BeginMove(s, e, w)
    \/ CommitMove(s)

RevokeStep(s) == (\E f \in Family : ReadFamily(s, f)) \/ CommitRevoke(s)

AccountNext ==
    \/ \E e \in Employee, w \in Workplace : HireEmployee(e, w)
    \/ \E s \in Session :
        \/ StaffingStep(s) \/ StatusStep(s) \/ SignInStep(s) \/ TokenStep(s)
        \/ RevokeStep(s) \/ EndRequest(s) \/ Abandon(s)

AccountSpec == AccountInit /\ [][AccountNext]_accountVars
-----------------------------------------------------------------------------
(* Properties *)

(* An account is active exactly while its employee is, whatever status        *)
(* changes overlap: the account is read and written under the lock of the     *)
(* employee's row, though nothing in the program asks for that lock.          *)
AccountFollowsEmployee == \A e \in Employee : account[e] = working[e]

(* The token rows and the audit trail agree: every token but the first of its *)
(* family has its renewal on record, every family with a revoked token its    *)
(* revocation, and nobody is out of service without the revocation that goes  *)
(* with it; and no renewal is on record that issued no token.                 *)
RevocationsAndRenewalsAudited ==
    /\ \A f \in Family, i \in 2..MaxTokens :
          i \in DOMAIN chain[f] <=> Note("TOKEN_RENEWED", owner[f], f, i) \in trail
    /\ \A f \in Family :
          (\E i \in DOMAIN chain[f] : chain[f][i] = "revoked") =>
              \/ Note("FAMILY_REVOKED", owner[f], f, 0) \in trail
              \/ Note("FAMILY_REVOKED", owner[f], 0, 0) \in trail
    /\ \A e \in Employee :
          place[e] # None /\ ~working[e] => Note("FAMILY_REVOKED", e, 0, 0) \in trail

(* A revocation reaches every token that was there when it listed the         *)
(* families, whatever is renewed while it reads them: none of those is active *)
(* when it has committed.  (A renewal in flight may still add a token.)       *)
RevocationReachesWhatItFound ==
    [][\A s \in Session : CommitRevoke(s) =>
          \A t \in act[s].known : StatusOf(t)' # "active"]_accountVars

(* A family is live while it has an active token or a renewal that saw one.   *)
Life(f) ==
    IF chain[f] = <<>> THEN "unused"
    ELSE IF \/ \E i \in DOMAIN chain[f] : chain[f][i] = "active"
            \/ \E s \in Session : Doing(s, "renew") /\ act[s].token[1] = f
         THEN "live" ELSE "dead"

Families == INSTANCE FamilyLife WITH life <- [f \in Family |-> Life(f)]

(* A dead family stays dead: neither a token presented late, nor renewals and *)
(* revocations that overlap, nor a reactivated account bring it back.         *)
ImplementsFamilyLife == Families!FamilySpec

(* The other components see employees hired, moved and switched on and off    *)
(* one at a time, though the requests overlap.                                *)
ImplementsStaff == StaffSpec

(* "Side effects: refresh family created (first member), audit                *)
(* LOGIN_SUCCEEDED / LOGIN_FAILED (critical, same transaction)": when no      *)
(* sign-in is under way every family has its sign-in on record.               *)
EverySignInAudited ==
    (\A s \in Session : act[s] = None) =>
        \A f \in Family : owner[f] # None =>
            Note("LOGIN_SUCCEEDED", owner[f], f, 0) \in trail
=============================================================================
