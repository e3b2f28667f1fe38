--------------------------- MODULE Accounts_proofs ---------------------------
(***************************************************************************)
(* Accounts follow their employees, revocations reach what they found and  *)
(* are on record, and dead families stay dead, for any employees, sessions *)
(* and bounds.                                                             *)
(*                                                                         *)
(* The inductive invariant has three parts: the families and the trail     *)
(* agree (Books), what every session has in hand is true of the rows as    *)
(* they are now (HandsSound), and one status change at a time holds the    *)
(* row of an employee (LocksHeldOnce).  A step is cut in two in the same   *)
(* way: what it does to the rows (Grows, the books) and the hand it leaves *)
(* its session with (Takes).                                               *)
(***************************************************************************)
EXTENDS Accounts, FiniteSetTheorems, TLAPS

(* The hand h holds the row of employee e.                                    *)
Locks(h, e) ==
    /\ h # None
    /\ \/ h.op = "status" /\ h.locked
       \/ h.op = "revoke" /\ h.why = "deactivate"
    /\ h.who = e

(* A revocation r is true of places p, owners o, chains c: it is about the    *)
(* families of one employee, and what it knew and has neither read nor left   *)
(* to read is not active.                                                     *)
RevocationSound(r, p, o, c) ==
    /\ r.why = "deactivate" => p[r.who] # None
    /\ \A f \in r.todo : o[f] = r.who
    /\ \A t \in r.known \cup r.read : o[t[1]] = r.who /\ t[2] \in DOMAIN c[t[1]]
    /\ \A t \in r.known : t[1] \in r.todo \/ t \in r.read \/ c[t[1]][t[2]] # "active"
    /\ r.why \notin {"deactivate", "password"} =>
          \E f \in Family : /\ r.known # {} /\ r.todo \subseteq {f}
                            /\ \A t \in r.known \cup r.read : t[1] = f

(* What the hand h supposes of places p, owners o, chains c and accounts a.   *)
Sound(h, p, o, c, a) ==
    h # None =>
        /\ h.op \in {"move", "status"} => p[h.who] # None
        /\ h.op = "status" /\ h.locked => h.was = a[h.who]
        /\ h.op = "renew" => h.token[2] \in DOMAIN c[h.token[1]]
        /\ h.op = "revoke" => /\ RevocationSound(h, p, o, c)
                              /\ h.why = "deactivate" => h.user = a[h.who]
        /\ h.op = "audit" /\ h.commits =>
              h.entry.about = 0 /\ h.entry.action # "TOKEN_RENEWED"

HandsSound == \A s \in Session : Sound(act[s], place, owner, chain, account)

LocksHeldOnce ==
    \A s \in Session, x \in Session : \A e \in Employee :
        Locks(act[s], e) /\ Locks(act[x], e) => s = x

(* Families are opened in their order, and have tokens from then on; an entry *)
(* about a family is about its owner.                                         *)
FamiliesInOrder ==
    \E n \in 0..MaxFamilies : {f \in Family : owner[f] # None} = 1..n

Books ==
    /\ FamiliesInOrder
    /\ \A f \in Family : owner[f] # None <=> chain[f] # <<>>
    /\ \A n \in trail : n.about # 0 => owner[n.about] = n.who
    /\ AccountFollowsEmployee
    /\ RevocationsAndRenewalsAudited

AccountInv == AccountTypeOK /\ Books /\ HandsSound /\ LocksHeldOnce

-----------------------------------------------------------------------------
(* One chain of tokens: what a revocation and a renewal make of it, and a     *)
(* family with room has fewer tokens than all may have together.              *)

LEMMA RevokedChain ==
    ASSUME NEW c \in Seq(TokenStatus), NEW d \in [DOMAIN c -> TokenStatus]
    PROVE  d \in Seq(TokenStatus) /\ Len(d) = Len(c) /\ DOMAIN d = DOMAIN c
<1>1. Len(c) \in Nat /\ DOMAIN c = 1..Len(c)
  OBVIOUS
<1>. QED
  BY <1>1

LEMMA RenewedChain ==
    ASSUME NEW c \in Seq(TokenStatus), NEW i \in DOMAIN c
    PROVE  LET d == Append([c EXCEPT ![i] = "rotated"], "active")
           IN  /\ d \in Seq(TokenStatus)
               /\ Len(d) = Len(c) + 1
               /\ DOMAIN d = DOMAIN c \cup {Len(c) + 1}
               /\ d[Len(c) + 1] = "active"
               /\ \A j \in DOMAIN c : d[j] = IF j = i THEN "rotated" ELSE c[j]
<1>. DEFINE m == [c EXCEPT ![i] = "rotated"]
<1>1. m \in Seq(TokenStatus) /\ Len(m) = Len(c)
  BY DEF TokenStatus
<1>2. \A j \in DOMAIN c : m[j] = IF j = i THEN "rotated" ELSE c[j]
  OBVIOUS
<1>. HIDE DEF m
<1>3. "active" \in TokenStatus
  BY DEF TokenStatus
<1>. DEFINE d == Append(m, "active")
<1>4. /\ d \in Seq(TokenStatus) /\ Len(d) = Len(c) + 1
      /\ d[Len(c) + 1] = "active" /\ \A j \in 1..Len(c) : d[j] = m[j]
  BY <1>1, <1>3
<1>5. DOMAIN d = DOMAIN c \cup {Len(c) + 1}
  BY <1>4
<1>. QED
  BY <1>2, <1>4, <1>5 DEF m

LEMMA RoomInFamily ==
    ASSUME AccountTypeOK, Room, NEW f \in Family
    PROVE  Len(chain[f]) < MaxTokens
<1>. DEFINE tokens == UNION {TokensOf(g) : g \in Family}
<1>1. \A g \in Family : Len(chain[g]) \in Nat /\ DOMAIN chain[g] = 1..Len(chain[g])
  BY DEF AccountTypeOK
<1>2. IsFiniteSet(Token)
  <2>1. IsFiniteSet(1..MaxFamilies) /\ IsFiniteSet(1..MaxTokens)
    BY FS_Interval, AccountConstants
  <2>. QED
    BY <2>1, FS_Product DEF Token, Family
<1>3. \A g \in Family : TokensOf(g) \subseteq Token
  BY <1>1, AccountConstants DEF AccountTypeOK, TokensOf, Token
<1>4. IsFiniteSet(tokens)
  BY <1>2, <1>3, FS_Subset
<1>5. Cardinality(TokensOf(f)) <= Cardinality(tokens)
  BY <1>4, FS_Subset
<1>6. Cardinality(TokensOf(f)) = Len(chain[f])
  <2>1. IsFiniteSet({f}) /\ Cardinality({f}) = 1
    BY FS_Singleton
  <2>2. IsFiniteSet(1..Len(chain[f])) /\ Cardinality(1..Len(chain[f])) = Len(chain[f])
    BY <1>1, FS_Interval
  <2>3. Cardinality({f} \X (1..Len(chain[f]))) = 1 * Len(chain[f])
    BY <2>1, <2>2, FS_Product
  <2>4. TokensOf(f) = {f} \X (1..Len(chain[f]))
    BY <1>1, Zenon DEF TokensOf
  <2>. QED
    BY <1>1, <2>3, <2>4
<1>7. Cardinality(tokens) \in Nat
  BY <1>4, FS_CardinalityType
<1>. QED
  BY <1>1, <1>5, <1>6, <1>7, AccountConstants DEF Room

(* Families being opened in their order, the next one is not opened yet.      *)
LEMMA NextFamily ==
    ASSUME FamiliesInOrder, NEW f, f = Cardinality({g \in Family : owner[g] # None}) + 1,
           f \in Family
    PROVE  /\ owner[f] = None
           /\ {g \in Family : owner[g] # None} = 1..(f - 1)
<1>1. PICK n \in 0..MaxFamilies : {g \in Family : owner[g] # None} = 1..n
  BY DEF FamiliesInOrder
<1>2. Cardinality(1..n) = n
  BY <1>1, FS_Interval, AccountConstants
<1>3. n \in Nat /\ f = n + 1
  <2>1. Cardinality({g \in Family : owner[g] # None}) = n
    BY <1>1, <1>2, Zenon
  <2>. QED
    BY <2>1, AccountConstants
<1>4. f \notin 1..n /\ f - 1 = n
  BY <1>3
<1>5. owner[f] = None
  BY <1>1, <1>4
<1>. QED
  BY <1>1, <1>4, <1>5

-----------------------------------------------------------------------------
(* What sessions have in hand *)

LEMMA HandTypes ==
    ASSUME AccountTypeOK, NEW s \in Session
    PROVE  /\ Doing(s, "move") => act[s] \in Moving
           /\ Doing(s, "status") => act[s] \in Toggling
           /\ Doing(s, "sign in") => act[s] \in Entering
           /\ Doing(s, "renew") => act[s] \in Renewing
           /\ Doing(s, "revoke") => act[s] \in Revoking
           /\ Doing(s, "audit") => act[s] \in Ending
<1>1. act[s] \in Act \cup {None}
  BY DEF AccountTypeOK
<1>. QED
  BY <1>1 DEF Doing, Act, Moving, Toggling, Entering, Renewing, Revoking, Ending

(* What no step takes back: an employee is placed, a family owned, a token    *)
(* there; and a token that is not active does not become so.                  *)
Grows(p, o, c, p2, o2, c2) ==
    /\ \A e \in Employee : p[e] # None => p2[e] # None
    /\ \A f \in Family : o[f] # None => o2[f] = o[f]
    /\ \A f \in Family : /\ DOMAIN c[f] \subseteq DOMAIN c2[f]
                         /\ \A i \in DOMAIN c[f] : c2[f][i] = "active" => c[f][i] = "active"

(* A hand stays true of rows that grow, if no account that it locks changes.  *)
LEMMA HandKept ==
    ASSUME NEW h \in Act \cup {None}, NEW p, NEW o, NEW c, NEW a,
           NEW p2, NEW o2, NEW c2, NEW a2,
           Sound(h, p, o, c, a), Grows(p, o, c, p2, o2, c2),
           \A e \in Employee : Locks(h, e) => a2[e] = a[e]
    PROVE  Sound(h, p2, o2, c2, a2)
<1>1. CASE h = None
  BY <1>1 DEF Sound
<1>2. CASE h \in Moving
  BY <1>2 DEF Sound, Grows, Moving
<1>3. CASE h \in Toggling
  BY <1>3 DEF Sound, Grows, Toggling, Locks
<1>4. CASE h \in Entering
  BY <1>4 DEF Sound, Entering
<1>5. CASE h \in Renewing
  BY <1>5 DEF Sound, Grows, Renewing, Token
<1>6. CASE h \in Revoking /\ h # None
  <2>1. /\ h.op = "revoke" /\ h.who \in Employee /\ h.who # None
        /\ h.todo \subseteq Family /\ h.read \subseteq Token /\ h.known \subseteq Token
    BY <1>6, AccountConstants DEF Revoking
  <2>2. RevocationSound(h, p, o, c) /\ (h.why = "deactivate" => h.user = a[h.who])
    BY <1>6, <2>1 DEF Sound
  <2>3. h.why = "deactivate" => h.user = a2[h.who]
    BY <1>6, <2>1, <2>2 DEF Locks
  <2>4. h.why = "deactivate" => p2[h.who] # None
    BY <2>1, <2>2 DEF RevocationSound, Grows
  <2>5. \A f \in h.todo : o2[f] = h.who
    BY <2>1, <2>2 DEF RevocationSound, Grows
  <2>6. \A t \in h.known \cup h.read : t[1] \in Family
    BY <2>1 DEF Token
  <2>7. \A t \in h.known \cup h.read : o2[t[1]] = h.who /\ t[2] \in DOMAIN c2[t[1]]
    BY <2>1, <2>2, <2>6 DEF RevocationSound, Grows
  <2>8. \A t \in h.known : t[1] \in h.todo \/ t \in h.read \/ c2[t[1]][t[2]] # "active"
    BY <2>2, <2>6 DEF RevocationSound, Grows
  <2>9. RevocationSound(h, p2, o2, c2)
    BY <2>2, <2>4, <2>5, <2>7, <2>8 DEF RevocationSound
  <2>. QED
    BY <2>1, <2>3, <2>9 DEF Sound
<1>7. CASE h \in Ending
  BY <1>7 DEF Sound, Ending
<1>. QED
  BY <1>1, <1>2, <1>3, <1>4, <1>5, <1>6, <1>7 DEF Act

(* Session s goes on with the hand h, and locks an employee only if he held   *)
(* the lock or nobody did.                                                    *)
Takes(s, h) ==
    /\ act' = [act EXCEPT ![s] = h]
    /\ h \in Act \cup {None}
    /\ \A e \in Employee : Locks(h, e) =>
          Locks(act[s], e) \/ \A x \in Session : ~Locks(act[x], e)

LEMMA HandsKept ==
    ASSUME AccountTypeOK, HandsSound, LocksHeldOnce, NEW s \in Session, NEW h, Takes(s, h),
           Grows(place, owner, chain, place', owner', chain'),
           Sound(h, place', owner', chain', account'),
           \A x \in Session \ {s} : \A e \in Employee :
               Locks(act[x], e) => account'[e] = account[e]
    PROVE  act' \in [Session -> Act \cup {None}] /\ HandsSound' /\ LocksHeldOnce'
<1>1. act' \in [Session -> Act \cup {None}]
  BY DEF Takes, AccountTypeOK
<1>2. act'[s] = h /\ \A x \in Session \ {s} : act'[x] = act[x] /\ act[x] \in Act \cup {None}
  BY DEF Takes, AccountTypeOK
<1>3. ASSUME NEW x \in Session PROVE Sound(act'[x], place', owner', chain', account')
  <2>1. CASE x = s
    BY <1>2, <2>1
  <2>2. CASE x # s
    <3>1. Sound(act[x], place, owner, chain, account)
      BY DEF HandsSound
    <3>2. Sound(act[x], place', owner', chain', account')
      BY <1>2, <2>2, <3>1, HandKept
    <3>. QED
      BY <1>2, <2>2, <3>2
  <2>. QED
    BY <2>1, <2>2
<1>4. ASSUME NEW x \in Session, NEW y \in Session, NEW e \in Employee,
             Locks(act'[x], e), Locks(act'[y], e)
      PROVE  x = y
  BY <1>2, <1>4 DEF LocksHeldOnce, Takes
<1>. QED
  BY <1>1, <1>3, <1>4 DEF HandsSound, LocksHeldOnce

-----------------------------------------------------------------------------
(* Requests that only change what they have in hand *)

LEMMA TypeMeans ==
    ASSUME AccountTypeOK
    PROVE  /\ place \in [Employee -> Workplace \cup {None}]
           /\ working \in [Employee -> BOOLEAN]
           /\ account \in [Employee -> BOOLEAN]
           /\ owner \in [Family -> Employee \cup {None}]
           /\ \A f \in Family : /\ chain[f] \in Seq(TokenStatus)
                                /\ Len(chain[f]) \in 0..MaxTokens
                                /\ DOMAIN chain[f] = 1..Len(chain[f])
                                /\ \A i \in DOMAIN chain[f] : <<f, i>> \in Token
           /\ None \notin Employee
           /\ MaxTokens \in Nat \ {0}
<1>1. /\ place \in [Employee -> Workplace \cup {None}]
      /\ working \in [Employee -> BOOLEAN]
      /\ account \in [Employee -> BOOLEAN]
      /\ owner \in [Family -> Employee \cup {None}]
  BY DEF AccountTypeOK, StaffTypeOK
<1>2. ASSUME NEW f \in Family
      PROVE  /\ chain[f] \in Seq(TokenStatus)
             /\ Len(chain[f]) \in 0..MaxTokens
             /\ DOMAIN chain[f] = 1..Len(chain[f])
             /\ \A i \in DOMAIN chain[f] : <<f, i>> \in Token
  <2>1. chain[f] \in Seq(TokenStatus) /\ Len(chain[f]) <= MaxTokens
    BY DEF AccountTypeOK
  <2>2. Len(chain[f]) \in Nat /\ DOMAIN chain[f] = 1..Len(chain[f])
    BY <2>1
  <2>. QED
    BY <2>1, <2>2, AccountConstants DEF Token
<1>. QED
  BY <1>1, <1>2, AccountConstants

(* The hand h renews a token of family f.                                     *)
RenewsIn(h, f) == h # None /\ h.op = "renew" /\ h.token[1] = f

(* The requests that Continues is about leave the rows alone, and renew live  *)
(* families only.                                                             *)
Continues(s) ==
    /\ UNCHANGED <<staffVars, account, owner, chain, trail>>
    /\ \E h \in Act \cup {None} :
          /\ Takes(s, h) /\ Sound(h, place, owner, chain, account)
          /\ \A f \in Family : RenewsIn(h, f) => Life(f) = "live"

LEMMA ContinuesKeeps ==
    ASSUME AccountInv, NEW s \in Session, Continues(s)
    PROVE  AccountInv'
<1>1. PICK h \in Act \cup {None} : Takes(s, h) /\ Sound(h, place, owner, chain, account)
  BY DEF Continues
<1>2. /\ place' = place /\ working' = working /\ account' = account
      /\ owner' = owner /\ chain' = chain /\ trail' = trail
  BY DEF Continues, staffVars
<1>3. Grows(place, owner, chain, place', owner', chain')
  BY <1>2 DEF Grows
<1>4. act' \in [Session -> Act \cup {None}] /\ HandsSound' /\ LocksHeldOnce'
  BY <1>1, <1>2, <1>3, HandsKept DEF AccountInv
<1>5. AccountTypeOK'
  BY <1>2, <1>4 DEF AccountInv, AccountTypeOK, StaffTypeOK
<1>6. Books'
  BY <1>2 DEF AccountInv, Books, FamiliesInOrder, AccountFollowsEmployee,
              RevocationsAndRenewalsAudited
<1>. QED
  BY <1>4, <1>5, <1>6 DEF AccountInv

LEMMA RevocationBegins ==
    ASSUME AccountInv, NEW e \in Employee,
           NEW why \in {"logout", "reuse", "inactive", "deactivate", "password"},
           NEW families \in SUBSET Family, NEW user \in BOOLEAN, NEW tokens \in SUBSET Token,
           why = "deactivate" => place[e] # None /\ user = account[e],
           \A f \in families : owner[f] = e,
           \A t \in tokens : owner[t[1]] = e /\ t[2] \in DOMAIN chain[t[1]],
           \A t \in tokens : t[1] \in families \/ StatusOf(t) # "active",
           why \notin {"deactivate", "password"} =>
              \E f \in Family : /\ tokens # {} /\ families \subseteq {f}
                                /\ \A t \in tokens : t[1] = f
    PROVE  LET h == [op |-> "revoke", who |-> e, why |-> why, todo |-> families,
                     read |-> {}, user |-> user, known |-> tokens]
           IN  h \in Act /\ h # None /\ Sound(h, place, owner, chain, account)
<1>. DEFINE h == [op |-> "revoke", who |-> e, why |-> why, todo |-> families,
                  read |-> {}, user |-> user, known |-> tokens]
<1>1. h \in Revoking
  BY DEF Revoking
<1>2. h \in Act /\ h # None
  BY <1>1, AccountConstants DEF Act
<1>3. /\ h.op = "revoke" /\ h.who = e /\ h.why = why /\ h.todo = families
      /\ h.read = {} /\ h.user = user /\ h.known = tokens
  OBVIOUS
<1>. HIDE DEF h
<1>4. RevocationSound(h, place, owner, chain)
  BY <1>3 DEF RevocationSound, StatusOf
<1>5. Sound(h, place, owner, chain, account)
  BY <1>3, <1>4 DEF Sound
<1>. QED
  BY <1>2, <1>5 DEF h

(* The two ways to begin one: all families of a user that are not revoked     *)
(* already, and the family of a token.                                        *)
LEMMA UserRevoked ==
    ASSUME AccountInv, NEW s \in Session, NEW e \in Employee,
           NEW why \in {"deactivate", "password"}, NEW user \in BOOLEAN,
           why = "deactivate" => place[e] # None /\ user = account[e],
           why = "deactivate" => Locks(act[s], e),
           Revoke(s, e, why, Unrevoked(e), user, TokensOfUser(e)),
           UNCHANGED <<staffVars, account, owner, chain, trail>>
    PROVE  Continues(s)
<1>1. AccountTypeOK
  BY DEF AccountInv
<1>2. Unrevoked(e) \in SUBSET Family /\ \A f \in Unrevoked(e) : owner[f] = e
  BY DEF Unrevoked, Opened
<1>3. TokensOfUser(e) \in SUBSET Token
  BY <1>1, TypeMeans DEF TokensOfUser, TokensOf, Opened
<1>4. \A t \in TokensOfUser(e) : owner[t[1]] = e /\ t[2] \in DOMAIN chain[t[1]]
  BY DEF TokensOfUser, TokensOf, Opened
<1>5. \A t \in TokensOfUser(e) : t[1] \in Unrevoked(e) \/ StatusOf(t) # "active"
  BY DEF TokensOfUser, TokensOf, Opened, Unrevoked, StatusOf
<1>6. PICK h \in Act : /\ h = [op |-> "revoke", who |-> e, why |-> why,
                               todo |-> Unrevoked(e), read |-> {}, user |-> user,
                               known |-> TokensOfUser(e)]
                       /\ h # None /\ Sound(h, place, owner, chain, account)
  BY <1>2, <1>3, <1>4, <1>5, RevocationBegins
<1>7. Takes(s, h) /\ \A f \in Family : ~RenewsIn(h, f)
  BY <1>6 DEF Takes, Revoke, Locks, RenewsIn
<1>. QED
  BY <1>6, <1>7 DEF Continues

LEMMA FamilyRevoked ==
    ASSUME AccountInv, NEW s \in Session, NEW f \in Family, NEW i \in DOMAIN chain[f],
           NEW why \in {"logout", "reuse", "inactive"},
           Revoke(s, owner[f], why, {f}, FALSE, TokensOf(f)),
           UNCHANGED <<staffVars, account, owner, chain, trail>>
    PROVE  Continues(s)
<1>1. AccountTypeOK
  BY DEF AccountInv
<1>2. chain[f] # <<>>
  BY <1>1, TypeMeans
<1>3. owner[f] \in Employee
  BY <1>1, <1>2, TypeMeans DEF AccountInv, Books
<1>4. TokensOf(f) \in SUBSET Token /\ <<f, i>> \in TokensOf(f)
  BY <1>1, TypeMeans DEF TokensOf
<1>5. \A t \in TokensOf(f) : t[1] = f /\ t[2] \in DOMAIN chain[f]
  BY DEF TokensOf
<1>6. PICK h \in Act : /\ h = [op |-> "revoke", who |-> owner[f], why |-> why,
                               todo |-> {f}, read |-> {}, user |-> FALSE,
                               known |-> TokensOf(f)]
                       /\ h # None /\ Sound(h, place, owner, chain, account)
  BY <1>3, <1>4, <1>5, RevocationBegins
<1>7. Takes(s, h) /\ \A g \in Family : ~RenewsIn(h, g)
  BY <1>6 DEF Takes, Revoke, Locks, RenewsIn
<1>. QED
  BY <1>6, <1>7 DEF Continues

LEMMA MoveBegins ==
    ASSUME AccountInv, NEW s \in Session, NEW e \in Employee, NEW w \in Workplace,
           BeginMove(s, e, w)
    PROVE  Continues(s)
<1>1. PICK h : h = [op |-> "move", who |-> e, to |-> w]
  OBVIOUS
<1>2. h \in Act /\ ~Locks(h, e) /\ \A x \in Employee : ~Locks(h, x)
  BY <1>1 DEF Act, Moving, Locks
<1>3. Sound(h, place, owner, chain, account)
  BY <1>1 DEF Sound, BeginMove
<1>4. Takes(s, h) /\ \A f \in Family : ~RenewsIn(h, f)
  BY <1>1, <1>2 DEF Takes, RenewsIn, BeginMove
<1>. QED
  BY <1>2, <1>3, <1>4 DEF Continues, BeginMove

LEMMA StatusBegins ==
    ASSUME AccountInv, NEW s \in Session, NEW e \in Employee, NEW active \in BOOLEAN,
           BeginStatus(s, e, active)
    PROVE  Continues(s)
<1>1. PICK h : h = [op |-> "status", who |-> e, active |-> active, locked |-> FALSE,
                    was |-> active]
  OBVIOUS
<1>2. h \in Act /\ \A x \in Employee : ~Locks(h, x)
  BY <1>1 DEF Act, Toggling, Locks
<1>3. Sound(h, place, owner, chain, account)
  BY <1>1 DEF Sound, BeginStatus
<1>4. Takes(s, h) /\ \A f \in Family : ~RenewsIn(h, f)
  BY <1>1, <1>2 DEF Takes, RenewsIn, BeginStatus
<1>. QED
  BY <1>2, <1>3, <1>4 DEF Continues, BeginStatus

LEMMA SignInBegins ==
    ASSUME AccountInv, NEW s \in Session, NEW e \in Employee, BeginSignIn(s, e)
    PROVE  Continues(s)
<1>1. PICK h : h = [op |-> "sign in", who |-> e]
  OBVIOUS
<1>2. h \in Act /\ \A x \in Employee : ~Locks(h, x)
  BY <1>1 DEF Act, Entering, Locks
<1>3. Sound(h, place, owner, chain, account)
  BY <1>1 DEF Sound
<1>4. Takes(s, h) /\ \A f \in Family : ~RenewsIn(h, f)
  BY <1>1, <1>2 DEF Takes, RenewsIn, BeginSignIn
<1>. QED
  BY <1>2, <1>3, <1>4 DEF Continues, BeginSignIn

LEMMA RenewBegins ==
    ASSUME AccountInv, NEW s \in Session, NEW f \in Family, NEW i \in DOMAIN chain[f],
           BeginRenew(s, <<f, i>>)
    PROVE  Continues(s)
<1>1. PICK h : h = [op |-> "renew", token |-> <<f, i>>, checked |-> FALSE]
  OBVIOUS
<1>2. <<f, i>> \in Token
  BY TypeMeans DEF AccountInv
<1>3. h \in Act /\ \A x \in Employee : ~Locks(h, x)
  BY <1>1, <1>2 DEF Act, Renewing, Locks
<1>4. Sound(h, place, owner, chain, account)
  BY <1>1 DEF Sound
<1>5. Takes(s, h)
  BY <1>1, <1>3 DEF Takes, BeginRenew
<1>6. Life(f) = "live"
  BY TypeMeans DEF Life, BeginRenew, StatusOf, AccountInv
<1>7. \A g \in Family : RenewsIn(h, g) => Life(g) = "live"
  BY <1>1, <1>6 DEF RenewsIn
<1>. QED
  BY <1>3, <1>4, <1>5, <1>7 DEF Continues, BeginRenew

LEMMA EmployeeLocks ==
    ASSUME AccountInv, NEW s \in Session, LockEmployee(s)
    PROVE  Continues(s)
<1>1. /\ act[s] \in Toggling /\ act[s] # None /\ act[s].op = "status"
      /\ account[act[s].who] \in BOOLEAN
  BY HandTypes, TypeMeans DEF AccountInv, LockEmployee, Doing, Toggling
<1>2. PICK h : h = [act[s] EXCEPT !.locked = TRUE, !.was = account[act[s].who]]
  OBVIOUS
<1>3. /\ h \in Toggling /\ h.op = "status" /\ h.who = act[s].who
      /\ h.was = account[act[s].who]
  BY <1>1, <1>2 DEF Toggling
<1>4. h \in Act
  BY <1>3 DEF Act
<1>5. Sound(h, place, owner, chain, account)
  BY <1>1, <1>3 DEF AccountInv, HandsSound, Sound
<1>6. act' = [act EXCEPT ![s] = h]
  BY <1>2 DEF LockEmployee, AccountInv, AccountTypeOK
<1>7. \A x \in Session : ~Locks(act[x], act[s].who)
  BY DEF LockEmployee, EmployeeLocked, Locks, Doing
<1>8. Takes(s, h) /\ \A f \in Family : ~RenewsIn(h, f)
  BY <1>3, <1>4, <1>6, <1>7 DEF Takes, Locks, RenewsIn
<1>. QED
  BY <1>4, <1>5, <1>8 DEF Continues, LockEmployee

LEMMA FamiliesListed ==
    ASSUME AccountInv, NEW s \in Session, ListFamilies(s)
    PROVE  Continues(s)
<1>. DEFINE e == act[s].who
<1>1. /\ act[s] \in Toggling /\ act[s] # None /\ act[s].op = "status" /\ act[s].locked
      /\ e \in Employee /\ act[s].was \in BOOLEAN
  BY HandTypes DEF AccountInv, ListFamilies, Doing, Toggling
<1>2. place[e] # None /\ act[s].was = account[e]
  BY <1>1 DEF AccountInv, HandsSound, Sound
<1>3. Locks(act[s], e)
  BY <1>1 DEF Locks
<1>4. /\ Revoke(s, e, "deactivate", Unrevoked(e), act[s].was, TokensOfUser(e))
      /\ UNCHANGED <<staffVars, account, owner, chain, trail>>
  BY DEF ListFamilies
<1>. QED
  BY <1>1, <1>2, <1>3, <1>4, UserRevoked

LEMMA PasswordSet ==
    ASSUME AccountInv, NEW s \in Session, NEW e \in Employee, SetPassword(s, e)
    PROVE  Continues(s)
BY UserRevoked DEF SetPassword

LEMMA UserChecked ==
    ASSUME AccountInv, NEW s \in Session, CheckUser(s)
    PROVE  Continues(s)
<1>. DEFINE f == act[s].token[1]
<1>1. /\ act[s] \in Renewing /\ act[s] # None /\ act[s].op = "renew"
      /\ act[s].token \in Token /\ f \in Family
  BY HandTypes DEF AccountInv, CheckUser, Doing, Renewing, Token
<1>2. act[s].token[2] \in DOMAIN chain[f]
  BY <1>1 DEF AccountInv, HandsSound, Sound
<1>3. CASE act' = [act EXCEPT ![s].checked = TRUE]
  <2>1. PICK h : h = [act[s] EXCEPT !.checked = TRUE]
    OBVIOUS
  <2>2. h \in Renewing /\ h.op = "renew" /\ h.token = act[s].token
    BY <1>1, <2>1 DEF Renewing
  <2>3. h \in Act /\ \A x \in Employee : ~Locks(h, x)
    BY <2>2 DEF Act, Locks
  <2>4. Sound(h, place, owner, chain, account)
    BY <1>2, <2>2 DEF Sound
  <2>5. Takes(s, h)
    BY <1>3, <2>1, <2>3 DEF Takes, AccountInv, AccountTypeOK
  <2>6. Life(f) = "live"
    BY <1>1, <1>2, TypeMeans DEF Life, Doing, AccountInv
  <2>7. \A g \in Family : RenewsIn(h, g) => Life(g) = "live"
    BY <2>2, <2>6 DEF RenewsIn
  <2>. QED
    BY <2>3, <2>4, <2>5, <2>7 DEF Continues, CheckUser
<1>4. CASE Revoke(s, owner[f], "inactive", {f}, FALSE, TokensOf(f))
  BY <1>1, <1>2, <1>4, FamilyRevoked DEF CheckUser
<1>. QED
  BY <1>3, <1>4 DEF CheckUser

LEMMA FamilyRead ==
    ASSUME AccountInv, NEW s \in Session, NEW f \in Family, ReadFamily(s, f)
    PROVE  Continues(s)
<1>. DEFINE found == {t \in TokensOf(f) : StatusOf(t) # "revoked"}
<1>1. /\ act[s] \in Revoking /\ act[s] # None /\ act[s].op = "revoke"
      /\ f \in act[s].todo
  BY HandTypes DEF AccountInv, ReadFamily, Doing
<1>2. Sound(act[s], place, owner, chain, account)
  BY DEF AccountInv, HandsSound
<1>3. RevocationSound(act[s], place, owner, chain)
  BY <1>1, <1>2 DEF Sound
<1>4. found \subseteq Token
  BY TypeMeans DEF AccountInv, TokensOf
<1>5. PICK h : h = [act[s] EXCEPT !.todo = @ \ {f}, !.read = @ \cup found]
  OBVIOUS
<1>6. /\ h.op = "revoke" /\ h.who = act[s].who /\ h.why = act[s].why
      /\ h.todo = act[s].todo \ {f} /\ h.read = act[s].read \cup found
      /\ h.user = act[s].user /\ h.known = act[s].known
  BY <1>1, <1>5 DEF Revoking
<1>7. h \in Revoking
  BY <1>1, <1>4, <1>5 DEF Revoking
<1>8. \A t \in found : t[1] = f /\ t[2] \in DOMAIN chain[f]
  BY DEF TokensOf
<1>9. RevocationSound(h, place, owner, chain)
  <2>1. \A t \in h.known \cup h.read : /\ owner[t[1]] = h.who /\ t[2] \in DOMAIN chain[t[1]]
    BY <1>1, <1>3, <1>6, <1>8 DEF RevocationSound
  <2>2. \A t \in h.known : t[1] \in h.todo \/ t \in h.read \/ chain[t[1]][t[2]] # "active"
    <3>1. SUFFICES ASSUME NEW t \in act[s].known, t[1] = f
                   PROVE  t \in found \/ chain[t[1]][t[2]] # "active"
      BY <1>3, <1>6 DEF RevocationSound
    <3>2. t[2] \in DOMAIN chain[f] /\ t \in Token
      BY <1>1, <1>3, <3>1 DEF RevocationSound, Revoking
    <3>3. t = <<t[1], t[2]>>
      BY <3>2 DEF Token
    <3>. QED
      BY <3>1, <3>2, <3>3 DEF TokensOf, StatusOf
  <2>3. h.why \notin {"deactivate", "password"} =>
          \E g \in Family : /\ h.known # {} /\ h.todo \subseteq {g}
                            /\ \A t \in h.known \cup h.read : t[1] = g
    BY <1>1, <1>3, <1>6, <1>8 DEF RevocationSound
  <2>. QED
    BY <1>3, <1>6, <2>1, <2>2, <2>3 DEF RevocationSound
<1>10. Sound(h, place, owner, chain, account)
  BY <1>1, <1>2, <1>6, <1>9 DEF Sound
<1>11. Takes(s, h) /\ \A g \in Family : ~RenewsIn(h, g)
  <2>1. act' = [act EXCEPT ![s] = h]
    BY <1>5 DEF ReadFamily, AccountInv, AccountTypeOK
  <2>2. \A e \in Employee : Locks(h, e) => Locks(act[s], e)
    BY <1>1, <1>6 DEF Locks
  <2>. QED
    BY <1>6, <1>7, <2>1, <2>2 DEF Takes, Act, RenewsIn
<1>. QED
  BY <1>7, <1>10, <1>11 DEF Continues, ReadFamily, Act

LEMMA Abandoned ==
    ASSUME AccountInv, NEW s \in Session, Abandon(s)
    PROVE  Continues(s)
<1>1. Takes(s, None) /\ Sound(None, place, owner, chain, account)
  BY DEF Takes, Abandon, Locks, Sound
<1>. QED
  BY <1>1 DEF Continues, Abandon, RenewsIn

-----------------------------------------------------------------------------
(* Requests that change the rows of employees and accounts *)

LEMMA NothingInHand ==
    /\ \A e : ~Locks(None, e)
    /\ \A p, o, c, a : Sound(None, p, o, c, a)
BY DEF Locks, Sound

(* The books depend on the chains, owners and trail only by what they say of  *)
(* families; a step that leaves those alone keeps that part.                  *)
LEMMA BooksOfStaff ==
    ASSUME AccountInv, UNCHANGED <<owner, chain, trail>>, AccountFollowsEmployee',
           \A e \in Employee : place'[e] # None /\ ~working'[e] =>
              place[e] # None /\ ~working[e]
    PROVE  Books'
<1>1. /\ FamiliesInOrder'
      /\ (\A f \in Family : owner[f] # None <=> chain[f] # <<>>)'
      /\ (\A n \in trail : n.about # 0 => owner[n.about] = n.who)'
  BY DEF AccountInv, Books, FamiliesInOrder
<1>2. RevocationsAndRenewalsAudited'
  BY DEF AccountInv, Books, RevocationsAndRenewalsAudited
<1>. QED
  BY <1>1, <1>2 DEF Books

LEMMA HireKeeps ==
    ASSUME AccountInv, NEW e \in Employee, NEW w \in Workplace, HireEmployee(e, w)
    PROVE  AccountInv'
<1>. USE TypeMeans, StaffConstants
<1>1. /\ place[e] = None /\ place' = [place EXCEPT ![e] = w]
      /\ working' = [working EXCEPT ![e] = TRUE]
      /\ account' = [account EXCEPT ![e] = TRUE]
      /\ owner' = owner /\ chain' = chain /\ trail' = trail /\ act' = act
  BY DEF HireEmployee, Hire
<1>2. AccountTypeOK'
  BY <1>1 DEF AccountInv, AccountTypeOK, StaffTypeOK
<1>3. AccountFollowsEmployee'
  BY <1>1 DEF AccountInv, Books, AccountFollowsEmployee
<1>4. Books'
  BY <1>1, <1>3, BooksOfStaff DEF AccountInv
<1>5. Grows(place, owner, chain, place', owner', chain')
  BY <1>1 DEF Grows, AccountInv
<1>6. ASSUME NEW s \in Session
      PROVE  Sound(act[s], place', owner', chain', account')
  <2>1. Sound(act[s], place, owner, chain, account) /\ act[s] \in Act \cup {None}
    BY DEF AccountInv, HandsSound, AccountTypeOK
  <2>2. ~Locks(act[s], e)
    BY <1>1, <2>1 DEF Locks, Sound, RevocationSound
  <2>3. \A x \in Employee : Locks(act[s], x) => account'[x] = account[x]
    BY <1>1, <2>2 DEF AccountInv
  <2>. QED
    BY <1>5, <2>1, <2>3, HandKept
<1>7. HandsSound' /\ LocksHeldOnce'
  BY <1>1, <1>6 DEF HandsSound, LocksHeldOnce, AccountInv
<1>. QED
  BY <1>2, <1>4, <1>7 DEF AccountInv

LEMMA MoveKeeps ==
    ASSUME AccountInv, NEW s \in Session, CommitMove(s)
    PROVE  AccountInv'
<1>. DEFINE e == act[s].who
<1>1. /\ act[s] \in Moving /\ act[s] # None /\ act[s].op = "move"
      /\ e \in Employee /\ act[s].to \in Workplace
  BY HandTypes DEF AccountInv, CommitMove, Doing, Moving
<1>2. /\ place' = [place EXCEPT ![e] = act[s].to] /\ act' = [act EXCEPT ![s] = None]
      /\ working' = working /\ account' = account
      /\ owner' = owner /\ chain' = chain /\ trail' = trail
  BY DEF CommitMove
<1>. HIDE DEF e
<1>3. Sound(act[s], place, owner, chain, account)
  BY DEF AccountInv, HandsSound
<1>4. place[e] # None
  BY <1>1, <1>3 DEF Sound, e
<1>5. Grows(place, owner, chain, place', owner', chain')
  BY <1>1, <1>2, TypeMeans, StaffConstants DEF Grows, AccountInv
<1>6. act' \in [Session -> Act \cup {None}] /\ HandsSound' /\ LocksHeldOnce'
  BY <1>2, <1>5, HandsKept, NothingInHand DEF Takes, AccountInv
<1>7. AccountTypeOK'
  BY <1>1, <1>2, <1>6 DEF AccountInv, AccountTypeOK, StaffTypeOK
<1>8. AccountFollowsEmployee'
  BY <1>2 DEF AccountInv, Books, AccountFollowsEmployee
<1>9. \A x \in Employee : place'[x] # None /\ ~working'[x] => place[x] # None /\ ~working[x]
  BY <1>1, <1>2, <1>4, TypeMeans DEF AccountInv
<1>10. Books'
  BY <1>2, <1>8, <1>9, BooksOfStaff
<1>. QED
  BY <1>6, <1>7, <1>10 DEF AccountInv

LEMMA ReactivateKeeps ==
    ASSUME AccountInv, NEW s \in Session, CommitReactivate(s)
    PROVE  AccountInv'
<1>. DEFINE e == act[s].who
<1>1. /\ act[s] \in Toggling /\ act[s] # None /\ act[s].op = "status" /\ act[s].locked
      /\ e \in Employee /\ act[s].was \in BOOLEAN
  BY HandTypes DEF AccountInv, CommitReactivate, Doing, Toggling
<1>2. /\ working' = [working EXCEPT ![e] = TRUE]
      /\ account' = [account EXCEPT ![e] = @ \/ ~act[s].was]
      /\ act' = [act EXCEPT ![s] = None]
      /\ place' = place /\ owner' = owner /\ chain' = chain /\ trail' = trail
  BY DEF CommitReactivate
<1>3. Sound(act[s], place, owner, chain, account)
  BY DEF AccountInv, HandsSound
<1>4. act[s].was = account[e]
  BY <1>1, <1>3 DEF Sound
<1>5. Locks(act[s], e)
  BY <1>1 DEF Locks
<1>. HIDE DEF e
<1>6. account \in [Employee -> BOOLEAN] /\ working \in [Employee -> BOOLEAN]
  BY TypeMeans DEF AccountInv
<1>7. account' = [account EXCEPT ![e] = TRUE]
  BY <1>1, <1>2, <1>4, <1>6
<1>8. Grows(place, owner, chain, place', owner', chain')
  BY <1>2 DEF Grows
<1>9. \A x \in Session \ {s} : \A y \in Employee :
          Locks(act[x], y) => account'[y] = account[y]
  BY <1>1, <1>5, <1>6, <1>7 DEF AccountInv, LocksHeldOnce
<1>10. act' \in [Session -> Act \cup {None}] /\ HandsSound' /\ LocksHeldOnce'
  BY <1>2, <1>8, <1>9, HandsKept, NothingInHand DEF Takes, AccountInv
<1>11. AccountTypeOK'
  BY <1>2, <1>6, <1>7, <1>10 DEF AccountInv, AccountTypeOK, StaffTypeOK
<1>12. AccountFollowsEmployee'
  BY <1>1, <1>2, <1>6, <1>7 DEF AccountInv, Books, AccountFollowsEmployee
<1>13. \A x \in Employee : place'[x] # None /\ ~working'[x] => place[x] # None /\ ~working[x]
  BY <1>1, <1>2, <1>6
<1>14. Books'
  BY <1>2, <1>12, <1>13, BooksOfStaff
<1>. QED
  BY <1>10, <1>11, <1>14 DEF AccountInv

-----------------------------------------------------------------------------
(* Requests that change the families of tokens *)

(* Families are opened in their order: one more, or none more.                *)
LEMMA IssueKeeps ==
    ASSUME AccountInv, NEW s \in Session, IssueFamily(s)
    PROVE  AccountInv' /\ \E f \in Family : /\ owner[f] = None /\ chain[f] = <<>>
                                            /\ chain' = [chain EXCEPT ![f] = <<"active">>]
<1>1. PICK e : e = act[s].who
  OBVIOUS
<1>2. PICK f : f = Cardinality({g \in Family : owner[g] # None}) + 1
  OBVIOUS
<1>3. PICK h : h = [op |-> "audit", commits |-> FALSE,
                    entry |-> Note("LOGIN_SUCCEEDED", e, f, 0)]
  OBVIOUS
<1>4. /\ f \in Family /\ owner' = [owner EXCEPT ![f] = e]
      /\ chain' = [chain EXCEPT ![f] = <<"active">>]
      /\ act' = [act EXCEPT ![s] = h]
      /\ place' = place /\ working' = working /\ account' = account /\ trail' = trail
  BY <1>1, <1>2, <1>3 DEF IssueFamily, staffVars
<1>5. e \in Employee /\ e # None /\ act[s].op = "sign in"
  BY <1>1, HandTypes, AccountConstants DEF AccountInv, IssueFamily, Doing, Entering
<1>6. owner[f] = None /\ {g \in Family : owner[g] # None} = 1..(f - 1)
  BY <1>2, <1>4, NextFamily DEF AccountInv, Books
<1>7. chain[f] = <<>>
  BY <1>4, <1>6 DEF AccountInv, Books
<1>8. /\ owner \in [Family -> Employee \cup {None}] /\ chain \in [Family -> Seq(TokenStatus)]
      /\ owner'[f] = e /\ \A g \in Family \ {f} : owner'[g] = owner[g]
      /\ chain'[f] = <<"active">> /\ \A g \in Family \ {f} : chain'[g] = chain[g]
  BY <1>4 DEF AccountInv, AccountTypeOK
<1>9. <<"active">> \in Seq(TokenStatus) /\ Len(<<"active">>) = 1
      /\ DOMAIN <<"active">> = {1} /\ <<"active">>[1] = "active" /\ <<"active">> # <<>>
  BY DEF TokenStatus
<1>10. Grows(place, owner, chain, place', owner', chain')
  BY <1>4, <1>6, <1>7, <1>8, <1>9 DEF Grows
<1>11. Note("LOGIN_SUCCEEDED", e, f, 0) \in Entry
  <2>1. 0 \in 0..MaxTokens
    BY AccountConstants
  <2>. QED
    BY <1>4, <1>5, <2>1 DEF Note, Entry
<1>12. h \in Act /\ h # None /\ h.op = "audit" /\ ~h.commits
  <2>1. h \in Ending
    BY <1>3, <1>11 DEF Ending
  <2>. QED
    BY <1>3, <2>1, AccountConstants DEF Act
<1>13. Sound(h, place', owner', chain', account') /\ \A x : ~Locks(h, x)
  BY <1>12 DEF Sound, Locks
<1>14. act' \in [Session -> Act \cup {None}] /\ HandsSound' /\ LocksHeldOnce'
  BY <1>4, <1>10, <1>12, <1>13, HandsKept DEF Takes, AccountInv
<1>15. AccountTypeOK'
  <2>1. owner' \in [Family -> Employee \cup {None}]
    BY <1>4, <1>5, <1>8
  <2>2. chain' \in [Family -> Seq(TokenStatus)]
    BY <1>4, <1>8, <1>9
  <2>3. \A g \in Family : Len(chain'[g]) <= MaxTokens
    <3>1. 1 <= MaxTokens
      BY AccountConstants
    <3>. QED
      BY <1>8, <1>9, <3>1 DEF AccountInv, AccountTypeOK
  <2>. QED
    BY <1>4, <1>14, <2>1, <2>2, <2>3 DEF AccountInv, AccountTypeOK, StaffTypeOK
<1>16. FamiliesInOrder'
  <2>1. {g \in Family : owner'[g] # None} = 1..f
    <3>1. f \in Nat /\ f >= 1
      BY <1>4, AccountConstants DEF Family
    <3>2. {g \in Family : owner'[g] # None} = {g \in Family : owner[g] # None} \cup {f}
      BY <1>4, <1>5, <1>8
    <3>. QED
      BY <1>6, <3>1, <3>2
  <2>. QED
    BY <1>4, <2>1, AccountConstants DEF FamiliesInOrder, Family
<1>17. (\A g \in Family : owner[g] # None <=> chain[g] # <<>>)'
  BY <1>5, <1>8, <1>9 DEF AccountInv, Books
<1>18. \A n \in trail : n.about # 0 => n.about \in Family /\ n.about # f
  BY <1>5, <1>6, AccountConstants DEF AccountInv, AccountTypeOK, Books, Entry
<1>19. (\A n \in trail : n.about # 0 => owner[n.about] = n.who)'
  BY <1>4, <1>8, <1>18 DEF AccountInv, Books
<1>20. RevocationsAndRenewalsAudited'
  <2>1. RevocationsAndRenewalsAudited
    BY DEF AccountInv, Books
  <2>2. ASSUME NEW i \in 2..MaxTokens
        PROVE  i \notin DOMAIN chain'[f] /\ Note("TOKEN_RENEWED", owner'[f], f, i) \notin trail'
    <3>1. i \notin DOMAIN chain'[f]
      BY <1>8, <1>9
    <3>2. f # 0
      BY <1>4, AccountConstants DEF Family
    <3>. QED
      BY <1>4, <1>18, <3>1, <3>2 DEF Note
  <2>3. \A i \in DOMAIN chain'[f] : chain'[f][i] # "revoked"
    BY <1>8, <1>9
  <2>4. \A g \in Family, i \in 2..MaxTokens :
           i \in DOMAIN chain'[g] <=> Note("TOKEN_RENEWED", owner'[g], g, i) \in trail'
    BY <1>4, <1>8, <2>1, <2>2 DEF RevocationsAndRenewalsAudited
  <2>5. \A g \in Family :
           (\E i \in DOMAIN chain'[g] : chain'[g][i] = "revoked") =>
              \/ Note("FAMILY_REVOKED", owner'[g], g, 0) \in trail'
              \/ Note("FAMILY_REVOKED", owner'[g], 0, 0) \in trail'
    BY <1>4, <1>8, <2>1, <2>3 DEF RevocationsAndRenewalsAudited
  <2>. QED
    BY <1>4, <2>1, <2>4, <2>5 DEF RevocationsAndRenewalsAudited
<1>21. AccountFollowsEmployee'
  BY <1>4 DEF AccountInv, Books, AccountFollowsEmployee
<1>. QED
  BY <1>4, <1>6, <1>7, <1>14, <1>15, <1>16, <1>17, <1>19, <1>20, <1>21 DEF AccountInv, Books

(* What a renewal that commits does to the family of its token.               *)
LEMMA RenewedFamily ==
    ASSUME AccountInv, NEW s \in Session, CommitRenew(s)
    PROVE  LET f == act[s].token[1]
               n == Len(chain[f])
           IN  /\ Doing(s, "renew") /\ f \in Family /\ owner[f] \in Employee
               /\ n \in 1..(MaxTokens - 1)
               /\ chain'[f] \in Seq(TokenStatus) /\ Len(chain'[f]) = n + 1
               /\ DOMAIN chain'[f] = DOMAIN chain[f] \cup {n + 1}
               /\ chain'[f][n + 1] = "active"
               /\ \A j \in DOMAIN chain[f] : chain'[f][j] \in {"rotated", chain[f][j]}
               /\ chain' \in [Family -> Seq(TokenStatus)]
               /\ \A g \in Family \ {f} : chain'[g] = chain[g]
               /\ trail' = trail \cup {Note("TOKEN_RENEWED", owner[f], f, n + 1)}
<1>. DEFINE f == act[s].token[1]
            i == act[s].token[2]
            n == Len(chain[f])
<1>1. /\ act[s] \in Renewing /\ act[s] # None /\ act[s].op = "renew" /\ f \in Family
      /\ Doing(s, "renew")
  BY HandTypes DEF AccountInv, CommitRenew, Doing, Renewing, Token
<1>2. i \in DOMAIN chain[f]
  BY <1>1 DEF AccountInv, HandsSound, Sound
<1>3. /\ chain' = [chain EXCEPT ![f] = Append([chain[f] EXCEPT ![i] = "rotated"], "active")]
      /\ trail' = trail \cup {Note("TOKEN_RENEWED", owner[f], f, n + 1)}
      /\ Room
  BY DEF CommitRenew
<1>. HIDE DEF f, i
<1>4. chain \in [Family -> Seq(TokenStatus)] /\ DOMAIN chain[f] = 1..n /\ n \in 0..MaxTokens
      /\ MaxTokens \in Nat
  BY <1>1, TypeMeans DEF AccountInv, AccountTypeOK
<1>5. n < MaxTokens
  BY <1>1, <1>3, RoomInFamily DEF AccountInv
<1>6. n \in 1..(MaxTokens - 1)
  BY <1>2, <1>4, <1>5
<1>7. chain[f] # <<>>
  BY <1>4, <1>6
<1>8. owner[f] \in Employee
  BY <1>1, <1>7, TypeMeans DEF AccountInv, Books
<1>9. chain'[f] = Append([chain[f] EXCEPT ![i] = "rotated"], "active")
      /\ \A g \in Family \ {f} : chain'[g] = chain[g]
  BY <1>1, <1>3, <1>4
<1>10. chain[f] \in Seq(TokenStatus)
  BY <1>1, <1>4
<1>11. /\ chain'[f] \in Seq(TokenStatus) /\ Len(chain'[f]) = n + 1
       /\ DOMAIN chain'[f] = DOMAIN chain[f] \cup {n + 1}
       /\ chain'[f][n + 1] = "active"
       /\ \A j \in DOMAIN chain[f] : chain'[f][j] = IF j = i THEN "rotated" ELSE chain[f][j]
  BY <1>2, <1>9, <1>10, RenewedChain
<1>12. chain' \in [Family -> Seq(TokenStatus)]
  BY <1>1, <1>3, <1>4, <1>9, <1>11
<1>. QED
  BY <1>1, <1>3, <1>6, <1>8, <1>9, <1>11, <1>12 DEF f, i

LEMMA RenewKeeps ==
    ASSUME AccountInv, NEW s \in Session, CommitRenew(s)
    PROVE  AccountInv'
<1>1. PICK f : f = act[s].token[1]
  OBVIOUS
<1>2. PICK n : n = Len(chain[f])
  OBVIOUS
<1>3. /\ act[s] # None /\ act[s].op = "renew" /\ f \in Family /\ owner[f] \in Employee
      /\ n \in 1..(MaxTokens - 1)
      /\ Len(chain'[f]) = n + 1
      /\ DOMAIN chain'[f] = DOMAIN chain[f] \cup {n + 1}
      /\ chain'[f][n + 1] = "active"
      /\ \A j \in DOMAIN chain[f] : chain'[f][j] \in {"rotated", chain[f][j]}
      /\ chain' \in [Family -> Seq(TokenStatus)]
      /\ \A g \in Family \ {f} : chain'[g] = chain[g]
      /\ trail' = trail \cup {Note("TOKEN_RENEWED", owner[f], f, n + 1)}
  BY <1>1, <1>2, RenewedFamily DEF Doing
<1>4. /\ place' = place /\ working' = working /\ account' = account /\ owner' = owner
      /\ act' = [act EXCEPT ![s] = None]
  BY DEF CommitRenew, staffVars
<1>5. Grows(place, owner, chain, place', owner', chain')
  BY <1>3, <1>4 DEF Grows
<1>6. act' \in [Session -> Act \cup {None}] /\ HandsSound' /\ LocksHeldOnce'
  BY <1>4, <1>5, HandsKept, NothingInHand DEF Takes, AccountInv
<1>7. MaxTokens \in Nat /\ owner[f] # None /\ f # 0 /\ 0 \in 0..MaxTokens
  BY <1>3, AccountConstants DEF Family
<1>8. AccountTypeOK'
  <2>1. Note("TOKEN_RENEWED", owner[f], f, n + 1) \in Entry
    <3>1. n + 1 \in 0..MaxTokens
      BY <1>3, <1>7
    <3>. QED
      BY <1>3, <3>1 DEF Note, Entry
  <2>2. \A g \in Family : Len(chain'[g]) <= MaxTokens
    BY <1>3, <1>7 DEF AccountInv, AccountTypeOK
  <2>. QED
    BY <1>3, <1>4, <1>6, <2>1, <2>2 DEF AccountInv, AccountTypeOK, StaffTypeOK
<1>9. FamiliesInOrder'
  BY <1>4 DEF AccountInv, Books, FamiliesInOrder
<1>10. (\A g \in Family : owner[g] # None <=> chain[g] # <<>>)'
  <2>1. chain'[f] # <<>>
    BY <1>3, <1>7
  <2>. QED
    BY <1>3, <1>4, <1>7, <2>1 DEF AccountInv, Books
<1>11. (\A x \in trail : x.about # 0 => owner[x.about] = x.who)'
  BY <1>3, <1>4 DEF AccountInv, Books, Note
<1>12. AccountFollowsEmployee'
  BY <1>4 DEF AccountInv, Books, AccountFollowsEmployee
<1>13. RevocationsAndRenewalsAudited'
  <2>1. RevocationsAndRenewalsAudited
    BY DEF AccountInv, Books
  <2>2. ASSUME NEW g \in Family, NEW i \in 2..MaxTokens
        PROVE  i \in DOMAIN chain'[g] <=> Note("TOKEN_RENEWED", owner'[g], g, i) \in trail'
    <3>1. i \in DOMAIN chain[g] <=> Note("TOKEN_RENEWED", owner[g], g, i) \in trail
      BY <2>1 DEF RevocationsAndRenewalsAudited
    <3>2. CASE g = f
      BY <1>3, <1>4, <3>1, <3>2 DEF Note
    <3>3. CASE g # f
      BY <1>3, <1>4, <3>1, <3>3 DEF Note
    <3>. QED
      BY <3>2, <3>3
  <2>3. ASSUME NEW g \in Family, \E i \in DOMAIN chain'[g] : chain'[g][i] = "revoked"
        PROVE  \/ Note("FAMILY_REVOKED", owner'[g], g, 0) \in trail'
               \/ Note("FAMILY_REVOKED", owner'[g], 0, 0) \in trail'
    <3>1. \E i \in DOMAIN chain[g] : chain[g][i] = "revoked"
      BY <1>3, <2>3
    <3>. QED
      BY <1>3, <1>4, <2>1, <3>1 DEF RevocationsAndRenewalsAudited
  <2>. QED
    BY <1>3, <1>4, <2>1, <2>2, <2>3 DEF RevocationsAndRenewalsAudited
<1>. QED
  BY <1>6, <1>8, <1>9, <1>10, <1>11, <1>12, <1>13 DEF AccountInv, Books

(* What a revocation that commits leaves of the tokens.                       *)
LEMMA RevokedFamilies ==
    ASSUME AccountInv, NEW s \in Session, CommitRevoke(s)
    PROVE  /\ chain' \in [Family -> Seq(TokenStatus)]
           /\ \A f \in Family :
                 /\ DOMAIN chain'[f] = DOMAIN chain[f] /\ Len(chain'[f]) = Len(chain[f])
                 /\ \A i \in DOMAIN chain[f] :
                       chain'[f][i] = IF <<f, i>> \in act[s].read THEN "revoked"
                                                                  ELSE chain[f][i]
<1>1. chain' = [f \in Family |->
                  [i \in DOMAIN chain[f] |->
                      IF <<f, i>> \in act[s].read THEN "revoked" ELSE chain[f][i]]]
  BY DEF CommitRevoke
<1>2. ASSUME NEW f \in Family
      PROVE  /\ chain'[f] \in Seq(TokenStatus)
             /\ DOMAIN chain'[f] = DOMAIN chain[f] /\ Len(chain'[f]) = Len(chain[f])
             /\ \A i \in DOMAIN chain[f] :
                   chain'[f][i] = IF <<f, i>> \in act[s].read THEN "revoked"
                                                              ELSE chain[f][i]
  <2>1. chain[f] \in Seq(TokenStatus)
    BY DEF AccountInv, AccountTypeOK
  <2>2. chain'[f] = [i \in DOMAIN chain[f] |->
                      IF <<f, i>> \in act[s].read THEN "revoked" ELSE chain[f][i]]
    BY <1>1
  <2>3. /\ chain'[f] \in Seq(TokenStatus)
        /\ DOMAIN chain'[f] = DOMAIN chain[f] /\ Len(chain'[f]) = Len(chain[f])
    <3>1. chain'[f] \in [DOMAIN chain[f] -> TokenStatus]
      BY <2>1, <2>2 DEF TokenStatus
    <3>. QED
      BY <2>1, <3>1, RevokedChain
  <2>. QED
    BY <2>2, <2>3
<1>3. \A f \in Family : chain'[f] \in Seq(TokenStatus)
  BY <1>2
<1>4. chain' \in [Family -> Seq(TokenStatus)]
  BY <1>1, <1>3
<1>. QED
  BY <1>2, <1>4

(* The entries of a revocation: its families are named one by one, or by      *)
(* their owner.                                                               *)
LEMMA RevocationAudited ==
    ASSUME AccountInv, NEW s \in Session, Doing(s, "revoke")
    PROVE  LET r == act[s]
           IN  /\ Audited(r) \subseteq Entry
               /\ \A n \in Audited(r) : /\ n.action # "TOKEN_RENEWED"
                                        /\ n.about # 0 => owner[n.about] = n.who
               /\ \A t \in r.read :
                     \/ Note("FAMILY_REVOKED", r.who, t[1], 0) \in Audited(r)
                     \/ Note("FAMILY_REVOKED", r.who, 0, 0) \in Audited(r)
               /\ r.why = "deactivate" => Note("FAMILY_REVOKED", r.who, 0, 0) \in Audited(r)
<1>1. PICK r : r = act[s]
  OBVIOUS
<1>2. /\ r \in Revoking /\ r # None /\ r.op = "revoke" /\ r.who \in Employee
      /\ RevocationSound(r, place, owner, chain)
  BY <1>1, HandTypes DEF AccountInv, Doing, Revoking, HandsSound, Sound
<1>3. 0 \in 0..MaxTokens
  BY AccountConstants
<1>4. CASE r.why \in {"deactivate", "password"}
  <2>1. Audited(r) = {Note("FAMILY_REVOKED", r.who, 0, 0)}
    BY <1>4 DEF Audited
  <2>2. Note("FAMILY_REVOKED", r.who, 0, 0) \in Entry
    BY <1>2, <1>3 DEF Note, Entry
  <2>. QED
    BY <1>1, <2>1, <2>2 DEF Note
<1>5. CASE r.why \notin {"deactivate", "password"}
  <2>1. PICK f \in Family : /\ r.known # {}
                            /\ \A t \in r.known \cup r.read : t[1] = f
    BY <1>2, <1>5 DEF RevocationSound
  <2>2. PICK t \in r.known : t = CHOOSE x \in r.known : TRUE
    BY <2>1
  <2>3. t[1] = f /\ owner[f] = r.who
    BY <1>2, <2>1 DEF RevocationSound
  <2>4. Audited(r) = {Note("FAMILY_REVOKED", r.who, f, 0)} \cup
                     (IF r.why = "reuse" THEN {Note("TOKEN_REUSE_DETECTED", r.who, f, 0)}
                                         ELSE {})
    BY <1>5, <2>2, <2>3 DEF Audited
  <2>5. /\ Note("FAMILY_REVOKED", r.who, f, 0) \in Entry
        /\ Note("TOKEN_REUSE_DETECTED", r.who, f, 0) \in Entry
    BY <1>2, <1>3 DEF Note, Entry
  <2>6. Audited(r) \subseteq Entry
    BY <2>4, <2>5
  <2>7. \A n \in Audited(r) : /\ n.action # "TOKEN_RENEWED"
                              /\ n.about # 0 => owner[n.about] = n.who
    BY <2>3, <2>4 DEF Note
  <2>8. Note("FAMILY_REVOKED", r.who, f, 0) \in Audited(r)
    BY <2>4
  <2>. QED
    BY <1>1, <1>5, <2>1, <2>6, <2>7, <2>8
<1>. QED
  BY <1>4, <1>5

LEMMA AfterwardsSound ==
    ASSUME NEW r \in Revoking, NEW h, h = Afterwards(r)
    PROVE  /\ h \in Act \cup {None}
           /\ \A p, o, c, a : Sound(h, p, o, c, a)
           /\ \A e : ~Locks(h, e)
<1>1. CASE h = None
  BY <1>1, NothingInHand
<1>2. CASE h # None
  <2>1. PICK action \in {"EMPLOYEE_DEACTIVATED", "USER_PASSWORD_SET"} :
           h = [op |-> "audit", commits |-> TRUE, entry |-> Note(action, r.who, 0, 0)]
    BY <1>2 DEF Afterwards
  <2>2. r.who \in Employee /\ 0 \in 0..MaxTokens
    BY AccountConstants DEF Revoking
  <2>3. Note(action, r.who, 0, 0) \in Entry
    BY <2>2 DEF Note, Entry
  <2>4. h \in Ending
    BY <2>1, <2>3 DEF Ending
  <2>5. h.op = "audit" /\ h.entry.about = 0 /\ h.entry.action # "TOKEN_RENEWED"
    BY <2>1 DEF Note
  <2>. QED
    BY <2>4, <2>5 DEF Act, Sound, Locks
<1>. QED
  BY <1>1, <1>2

LEMMA RevokeKeeps ==
    ASSUME AccountInv, NEW s \in Session, CommitRevoke(s)
    PROVE  AccountInv'
<1>1. PICK r : r = act[s]
  OBVIOUS
<1>2. /\ r \in Revoking /\ r # None /\ r.op = "revoke" /\ r.who \in Employee
      /\ Sound(r, place, owner, chain, account)
      /\ r.user \in BOOLEAN /\ Doing(s, "revoke")
  BY <1>1, HandTypes DEF AccountInv, CommitRevoke, Doing, Revoking, HandsSound
<1>3. /\ RevocationSound(r, place, owner, chain)
      /\ r.why = "deactivate" => r.user = account[r.who]
  BY <1>2 DEF Sound
<1>4. PICK h : h = Afterwards(r)
  OBVIOUS
<1>5. PICK entries : entries = Audited(r)
  OBVIOUS
<1>6. /\ working' = [working EXCEPT ![r.who] = @ /\ r.why # "deactivate"]
      /\ account' = [account EXCEPT ![r.who] = @ /\ ~(r.why = "deactivate" /\ r.user)]
      /\ trail' = trail \cup entries
      /\ act' = [act EXCEPT ![s] = h]
      /\ place' = place /\ owner' = owner
  BY <1>1, <1>4, <1>5 DEF CommitRevoke
<1>7. /\ chain' \in [Family -> Seq(TokenStatus)]
      /\ \A f \in Family :
            /\ DOMAIN chain'[f] = DOMAIN chain[f] /\ Len(chain'[f]) = Len(chain[f])
            /\ \A i \in DOMAIN chain[f] :
                  chain'[f][i] = IF <<f, i>> \in r.read THEN "revoked" ELSE chain[f][i]
  BY <1>1, RevokedFamilies
<1>8. /\ entries \subseteq Entry
      /\ \A n \in entries : /\ n.action # "TOKEN_RENEWED"
                            /\ n.about # 0 => owner[n.about] = n.who
      /\ \A t \in r.read : \/ Note("FAMILY_REVOKED", r.who, t[1], 0) \in entries
                           \/ Note("FAMILY_REVOKED", r.who, 0, 0) \in entries
      /\ r.why = "deactivate" => Note("FAMILY_REVOKED", r.who, 0, 0) \in entries
  BY <1>1, <1>2, <1>5, RevocationAudited
<1>9. /\ account \in [Employee -> BOOLEAN] /\ working \in [Employee -> BOOLEAN]
      /\ AccountFollowsEmployee
  BY TypeMeans DEF AccountInv, Books
<1>10. /\ r.why # "deactivate" => account' = account /\ working' = working
       /\ r.why = "deactivate" => /\ account' = [account EXCEPT ![r.who] = FALSE]
                                  /\ working' = [working EXCEPT ![r.who] = FALSE]
  BY <1>2, <1>3, <1>6, <1>9
<1>11. Grows(place, owner, chain, place', owner', chain')
  BY <1>6, <1>7 DEF Grows
<1>12. \A x \in Session \ {s} : \A e \in Employee :
          Locks(act[x], e) => account'[e] = account[e]
  <2>1. CASE r.why # "deactivate"
    BY <1>10, <2>1
  <2>2. CASE r.why = "deactivate"
    <3>1. Locks(act[s], r.who)
      BY <1>1, <1>2, <2>2 DEF Locks
    <3>. QED
      BY <1>2, <1>9, <1>10, <2>2, <3>1 DEF AccountInv, LocksHeldOnce
  <2>. QED
    BY <2>1, <2>2
<1>13. act' \in [Session -> Act \cup {None}] /\ HandsSound' /\ LocksHeldOnce'
  <2>1. h \in Act \cup {None} /\ \A e \in Employee : ~Locks(h, e)
    BY <1>2, <1>4, AfterwardsSound
  <2>2. Sound(h, place', owner', chain', account')
    BY <1>2, <1>4, AfterwardsSound
  <2>3. Takes(s, h)
    BY <1>6, <2>1 DEF Takes
  <2>. QED
    BY <1>11, <1>12, <2>2, <2>3, HandsKept DEF AccountInv
<1>14. AccountTypeOK'
  <2>1. account' \in [Employee -> BOOLEAN] /\ working' \in [Employee -> BOOLEAN]
    BY <1>9, <1>10
  <2>2. \A f \in Family : Len(chain'[f]) <= MaxTokens
    BY <1>7 DEF AccountInv, AccountTypeOK
  <2>. QED
    BY <1>6, <1>7, <1>8, <1>13, <2>1, <2>2 DEF AccountInv, AccountTypeOK, StaffTypeOK
<1>15. FamiliesInOrder'
  BY <1>6 DEF AccountInv, Books, FamiliesInOrder
<1>16. (\A g \in Family : owner[g] # None <=> chain[g] # <<>>)'
  <2>1. \A g \in Family : chain'[g] = <<>> <=> chain[g] = <<>>
    BY <1>7 DEF AccountInv, AccountTypeOK
  <2>. QED
    BY <1>6, <2>1 DEF AccountInv, Books
<1>17. (\A x \in trail : x.about # 0 => owner[x.about] = x.who)'
  BY <1>6, <1>8 DEF AccountInv, Books
<1>18. AccountFollowsEmployee'
  BY <1>2, <1>9, <1>10 DEF AccountFollowsEmployee
<1>19. RevocationsAndRenewalsAudited'
  <2>1. RevocationsAndRenewalsAudited
    BY DEF AccountInv, Books
  <2>2. \A g \in Family, i \in 2..MaxTokens :
           i \in DOMAIN chain'[g] <=> Note("TOKEN_RENEWED", owner'[g], g, i) \in trail'
    BY <1>6, <1>7, <1>8, <2>1 DEF RevocationsAndRenewalsAudited, Note
  <2>3. ASSUME NEW g \in Family, NEW i \in DOMAIN chain'[g], chain'[g][i] = "revoked"
        PROVE  \/ Note("FAMILY_REVOKED", owner'[g], g, 0) \in trail'
               \/ Note("FAMILY_REVOKED", owner'[g], 0, 0) \in trail'
    <3>1. CASE chain[g][i] = "revoked"
      BY <1>6, <1>7, <2>1, <3>1 DEF RevocationsAndRenewalsAudited
    <3>2. CASE chain[g][i] # "revoked"
      <4>1. <<g, i>> \in r.read
        BY <1>7, <2>3, <3>2
      <4>2. <<g, i>>[1] = g
        OBVIOUS
      <4>3. owner[g] = r.who
        BY <1>3, <4>1, <4>2 DEF RevocationSound
      <4>. QED
        BY <1>6, <1>8, <4>1, <4>2, <4>3
    <3>. QED
      BY <3>1, <3>2
  <2>4. \A e \in Employee :
           place'[e] # None /\ ~working'[e] => Note("FAMILY_REVOKED", e, 0, 0) \in trail'
    BY <1>2, <1>6, <1>8, <1>9, <1>10, <2>1 DEF RevocationsAndRenewalsAudited
  <2>. QED
    BY <2>2, <2>3, <2>4 DEF RevocationsAndRenewalsAudited
<1>. QED
  BY <1>13, <1>14, <1>15, <1>16, <1>17, <1>18, <1>19 DEF AccountInv, Books

LEMMA EndKeeps ==
    ASSUME AccountInv, NEW s \in Session, EndRequest(s)
    PROVE  AccountInv'
<1>1. PICK entries : entries = IF act[s].commits THEN {act[s].entry} ELSE {}
  OBVIOUS
<1>2. /\ trail' = trail \cup entries /\ act' = [act EXCEPT ![s] = None]
      /\ place' = place /\ working' = working /\ account' = account
      /\ owner' = owner /\ chain' = chain
  BY <1>1 DEF EndRequest, staffVars
<1>3. /\ act[s] \in Ending /\ act[s] # None /\ act[s].op = "audit"
      /\ act[s].entry \in Entry
  BY HandTypes DEF AccountInv, EndRequest, Doing, Ending
<1>4. /\ entries \subseteq Entry
      /\ \A n \in entries : n.about = 0 /\ n.action # "TOKEN_RENEWED"
  BY <1>1, <1>3 DEF AccountInv, HandsSound, Sound
<1>5. Grows(place, owner, chain, place', owner', chain')
  BY <1>2 DEF Grows
<1>6. act' \in [Session -> Act \cup {None}] /\ HandsSound' /\ LocksHeldOnce'
  BY <1>2, <1>5, HandsKept, NothingInHand DEF Takes, AccountInv
<1>7. AccountTypeOK'
  BY <1>2, <1>4, <1>6 DEF AccountInv, AccountTypeOK, StaffTypeOK
<1>8. FamiliesInOrder' /\ (\A g \in Family : owner[g] # None <=> chain[g] # <<>>)'
  BY <1>2 DEF AccountInv, Books, FamiliesInOrder
<1>9. (\A x \in trail : x.about # 0 => owner[x.about] = x.who)'
  BY <1>2, <1>4 DEF AccountInv, Books
<1>10. AccountFollowsEmployee'
  BY <1>2 DEF AccountInv, Books, AccountFollowsEmployee
<1>11. RevocationsAndRenewalsAudited'
  BY <1>2, <1>4 DEF AccountInv, Books, RevocationsAndRenewalsAudited, Note
<1>. QED
  BY <1>6, <1>7, <1>8, <1>9, <1>10, <1>11 DEF AccountInv, Books

-----------------------------------------------------------------------------
(* The invariant and the theorems it gives *)

(* Every step is one of eight kinds.                                          *)
LEMMA AccountSteps ==
    ASSUME AccountInv, AccountNext
    PROVE  \/ \E e \in Employee, w \in Workplace : HireEmployee(e, w)
           \/ \E s \in Session : \/ Continues(s) \/ CommitMove(s) \/ CommitReactivate(s)
                                 \/ IssueFamily(s) \/ CommitRenew(s) \/ CommitRevoke(s)
                                 \/ EndRequest(s)
<1>1. ASSUME NEW s \in Session, StaffingStep(s) PROVE Continues(s) \/ CommitMove(s)
  BY <1>1, MoveBegins DEF StaffingStep
<1>2. ASSUME NEW s \in Session, StatusStep(s) PROVE Continues(s) \/ CommitReactivate(s)
  BY <1>2, StatusBegins, EmployeeLocks, FamiliesListed, PasswordSet DEF StatusStep
<1>3. ASSUME NEW s \in Session, SignInStep(s) PROVE Continues(s) \/ IssueFamily(s)
  BY <1>3, SignInBegins DEF SignInStep
<1>4. ASSUME NEW s \in Session, TokenStep(s) PROVE Continues(s) \/ CommitRenew(s)
  <2>1. ASSUME NEW f \in Family, NEW i \in DOMAIN chain[f],
               BeginRenew(s, <<f, i>>) \/ Reuse(s, <<f, i>>) \/ Logout(s, <<f, i>>)
        PROVE  Continues(s)
    BY <2>1, RenewBegins, FamilyRevoked DEF Reuse, Logout
  <2>. QED
    BY <1>4, <2>1, UserChecked DEF TokenStep
<1>5. ASSUME NEW s \in Session, RevokeStep(s) PROVE Continues(s) \/ CommitRevoke(s)
  BY <1>5, FamilyRead DEF RevokeStep
<1>6. ASSUME NEW s \in Session, Abandon(s) PROVE Continues(s)
  BY <1>6, Abandoned
<1>. QED
  BY <1>1, <1>2, <1>3, <1>4, <1>5, <1>6 DEF AccountNext

LEMMA AccountInitInv == AccountInit => AccountInv
<1>. SUFFICES ASSUME AccountInit PROVE AccountInv
  OBVIOUS
<1>1. /\ place = [e \in Employee |-> None] /\ working = [e \in Employee |-> FALSE]
      /\ account = [e \in Employee |-> FALSE] /\ owner = [f \in Family |-> None]
      /\ chain = [f \in Family |-> <<>>] /\ trail = {} /\ act = [s \in Session |-> None]
  BY DEF AccountInit, StaffInit
<1>2. <<>> \in Seq(TokenStatus) /\ Len(<<>>) = 0 /\ DOMAIN <<>> = {} /\ 0 <= MaxTokens
  BY AccountConstants
<1>3. AccountTypeOK
  BY <1>1, <1>2 DEF AccountTypeOK, StaffTypeOK
<1>4. FamiliesInOrder
  <2>1. {f \in Family : owner[f] # None} = 1..0
    BY <1>1
  <2>. QED
    BY <2>1, AccountConstants DEF FamiliesInOrder
<1>5. RevocationsAndRenewalsAudited
  BY <1>1, <1>2 DEF RevocationsAndRenewalsAudited
<1>6. Books
  BY <1>1, <1>4, <1>5 DEF Books, AccountFollowsEmployee
<1>7. HandsSound /\ LocksHeldOnce
  BY <1>1 DEF HandsSound, LocksHeldOnce, Locks, Sound
<1>. QED
  BY <1>3, <1>6, <1>7 DEF AccountInv

LEMMA AccountNextInv == AccountInv /\ [AccountNext]_accountVars => AccountInv'
<1>. SUFFICES ASSUME AccountInv, [AccountNext]_accountVars PROVE AccountInv'
  OBVIOUS
<1>1. CASE UNCHANGED accountVars
  <2>1. /\ place' = place /\ working' = working /\ account' = account /\ owner' = owner
        /\ chain' = chain /\ trail' = trail /\ act' = act
    BY <1>1 DEF accountVars, staffVars
  <2>2. AccountTypeOK' /\ HandsSound' /\ LocksHeldOnce'
    BY <2>1 DEF AccountInv, AccountTypeOK, StaffTypeOK, HandsSound, LocksHeldOnce
  <2>3. Books'
    BY <2>1 DEF AccountInv, Books, FamiliesInOrder, AccountFollowsEmployee,
                RevocationsAndRenewalsAudited
  <2>. QED
    BY <2>2, <2>3 DEF AccountInv
<1>2. CASE AccountNext
  BY <1>2, AccountSteps, HireKeeps, ContinuesKeeps, MoveKeeps, ReactivateKeeps, IssueKeeps,
     RenewKeeps, RevokeKeeps, EndKeeps
<1>. QED
  BY <1>1, <1>2

LEMMA AccountInvariant == AccountSpec => []AccountInv
BY AccountInitInv, AccountNextInv, PTL DEF AccountSpec

(* Every reachable state of employees, accounts, tokens and trail is well     *)
(* typed; in particular no family outgrows the bound on all tokens.           *)
THEOREM AccountTypeCorrect == AccountSpec => []AccountTypeOK
<1>1. AccountInv => AccountTypeOK
  BY DEF AccountInv
<1>. QED
  BY <1>1, AccountInvariant, PTL

(* An account is active exactly while its employee is, however many status    *)
(* changes of any employees overlap (_set_employee_active).                   *)
THEOREM AccountsFollow == AccountSpec => []AccountFollowsEmployee
<1>1. AccountInv => AccountFollowsEmployee
  BY DEF AccountInv, Books
<1>. QED
  BY <1>1, AccountInvariant, PTL

(* The token rows and the audit trail agree, whatever the order in which      *)
(* renewals and revocations commit (rotate, _revoke_family,                   *)
(* revoke_all_for_user).                                                      *)
THEOREM TokensAreOnRecord == AccountSpec => []RevocationsAndRenewalsAudited
<1>1. AccountInv => RevocationsAndRenewalsAudited
  BY DEF AccountInv, Books
<1>. QED
  BY <1>1, AccountInvariant, PTL

(* None of the tokens that were there when a revocation listed the families   *)
(* is active when it has committed (revoke_all_for_user, _revoke_family).     *)
THEOREM RevocationsReach == AccountSpec => RevocationReachesWhatItFound
<1>1. ASSUME AccountInv, NEW s \in Session, CommitRevoke(s), NEW t \in act[s].known
      PROVE  StatusOf(t)' # "active"
  <2>1. /\ act[s] \in Revoking /\ act[s] # None /\ act[s].op = "revoke"
        /\ act[s].todo = {}
    BY <1>1, HandTypes DEF AccountInv, CommitRevoke, Doing
  <2>2. RevocationSound(act[s], place, owner, chain)
    BY <1>1, <2>1 DEF AccountInv, HandsSound, Sound
  <2>3. t \in Token /\ t[1] \in Family /\ t = <<t[1], t[2]>>
    BY <1>1, <2>1 DEF Revoking, Token
  <2>4. t[2] \in DOMAIN chain[t[1]] /\ (t \in act[s].read \/ chain[t[1]][t[2]] # "active")
    BY <1>1, <2>1, <2>2 DEF RevocationSound
  <2>5. chain'[t[1]][t[2]] # "active"
    BY <1>1, <2>3, <2>4, RevokedFamilies
  <2>. QED
    BY <2>5 DEF StatusOf
<1>2. AccountInv /\ [AccountNext]_accountVars =>
         [\A s \in Session : CommitRevoke(s) =>
             \A t \in act[s].known : StatusOf(t)' # "active"]_accountVars
  BY <1>1
<1>. QED
  BY <1>2, AccountInvariant, PTL DEF AccountSpec, RevocationReachesWhatItFound

-----------------------------------------------------------------------------
(* Employees as the other components see them *)

LEMMA AccountStepIsStaffStep ==
    AccountInv /\ [AccountNext]_accountVars => [StaffNext]_staffVars
<1>. SUFFICES ASSUME AccountInv, [AccountNext]_accountVars PROVE [StaffNext]_staffVars
  OBVIOUS
<1>1. CASE UNCHANGED accountVars
  BY <1>1 DEF accountVars
<1>2. ASSUME NEW e \in Employee, NEW w \in Workplace, HireEmployee(e, w) PROVE StaffNext
  BY <1>2 DEF HireEmployee, StaffNext
<1>3. ASSUME NEW s \in Session,
             \/ Continues(s) \/ IssueFamily(s) \/ CommitRenew(s) \/ EndRequest(s)
      PROVE  UNCHANGED staffVars
  BY <1>3 DEF Continues, IssueFamily, CommitRenew, EndRequest
<1>4. ASSUME NEW s \in Session, CommitMove(s) PROVE [StaffNext]_staffVars
  <2>1. PICK e, w : e = act[s].who /\ w = act[s].to
    OBVIOUS
  <2>2. act[s] \in Moving /\ act[s] # None /\ act[s].op = "move"
    BY <1>4, HandTypes DEF AccountInv, CommitMove, Doing
  <2>3. e \in Employee /\ w \in Workplace
    BY <2>1, <2>2 DEF Moving
  <2>4. place[e] # None
    BY <2>1, <2>2 DEF AccountInv, HandsSound, Sound
  <2>5. place' = [place EXCEPT ![e] = w] /\ working' = working
    BY <1>4, <2>1 DEF CommitMove
  <2>6. CASE place[e] = w
    <3>1. place' = place
      BY <2>3, <2>5, <2>6, TypeMeans DEF AccountInv
    <3>. QED
      BY <2>5, <3>1 DEF staffVars
  <2>7. CASE place[e] # w
    BY <2>3, <2>4, <2>5, <2>7 DEF StaffNext, Move
  <2>. QED
    BY <2>6, <2>7
<1>5. ASSUME NEW e \in Employee, NEW active \in BOOLEAN, place[e] # None, place' = place,
             working' = [working EXCEPT ![e] = active]
      PROVE  [StaffNext]_staffVars
  <2>1. working \in [Employee -> BOOLEAN]
    BY TypeMeans DEF AccountInv
  <2>2. CASE working[e] = active
    <3>1. working' = working
      BY <1>5, <2>1, <2>2
    <3>. QED
      BY <1>5, <3>1 DEF staffVars
  <2>3. CASE working[e] # active
    <3>1. working' = [working EXCEPT ![e] = ~working[e]]
      BY <1>5, <2>1, <2>3
    <3>. QED
      BY <1>5, <3>1 DEF StaffNext, SetActive
  <2>. QED
    BY <2>2, <2>3
<1>6. ASSUME NEW s \in Session, CommitReactivate(s) PROVE [StaffNext]_staffVars
  <2>1. act[s] \in Toggling /\ act[s] # None /\ act[s].op = "status"
    BY <1>6, HandTypes DEF AccountInv, CommitReactivate, Doing
  <2>2. act[s].who \in Employee /\ place[act[s].who] # None
    BY <2>1 DEF AccountInv, HandsSound, Sound, Toggling
  <2>. QED
    BY <1>5, <1>6, <2>2 DEF CommitReactivate
<1>7. ASSUME NEW s \in Session, CommitRevoke(s) PROVE [StaffNext]_staffVars
  <2>1. /\ act[s] \in Revoking /\ act[s] # None /\ act[s].op = "revoke"
    BY <1>7, HandTypes DEF AccountInv, CommitRevoke, Doing
  <2>2. act[s].who \in Employee /\ (act[s].why = "deactivate" => place[act[s].who] # None)
    BY <2>1 DEF AccountInv, HandsSound, Sound, RevocationSound, Revoking
  <2>3. /\ place' = place
        /\ working' = [working EXCEPT ![act[s].who] = @ /\ act[s].why # "deactivate"]
    BY <1>7 DEF CommitRevoke
  <2>4. CASE act[s].why = "deactivate"
    <3>1. working' = [working EXCEPT ![act[s].who] = FALSE]
      BY <2>3, <2>4
    <3>. QED
      BY <1>5, <2>2, <2>3, <2>4, <3>1
  <2>5. CASE act[s].why # "deactivate"
    <3>1. working' = working
      BY <2>2, <2>3, <2>5, TypeMeans DEF AccountInv
    <3>. QED
      BY <2>3, <3>1 DEF staffVars
  <2>. QED
    BY <2>4, <2>5
<1>. QED
  BY <1>1, <1>2, <1>3, <1>4, <1>6, <1>7, AccountSteps

(* The requests of the user module, however they overlap, are hires, moves    *)
(* and switches of one employee at a time: what the loan and asset components *)
(* suppose of employees.                                                      *)
THEOREM AccountsImplementStaff == AccountSpec => ImplementsStaff
<1>1. AccountInit => StaffInit
  BY DEF AccountInit
<1>. QED
  BY <1>1, AccountInvariant, AccountStepIsStaffStep, PTL
     DEF AccountSpec, ImplementsStaff, StaffSpec

-----------------------------------------------------------------------------
(* The life of families *)

LEMMA LifeOfHands ==
    ASSUME NEW f \in Family
    PROVE  Life(f) = IF chain[f] = <<>> THEN "unused"
                     ELSE IF \/ \E i \in DOMAIN chain[f] : chain[f][i] = "active"
                             \/ \E s \in Session : RenewsIn(act[s], f)
                          THEN "live" ELSE "dead"
BY DEF Life, RenewsIn, Doing

(* A step by which family f gains neither an active token nor a renewal       *)
(* unless it was live leaves its life as it is, or ends it.                   *)
LEMMA LifeKept ==
    ASSUME NEW s \in Session, NEW h, act' = [act EXCEPT ![s] = h],
           act \in [Session -> Act \cup {None}], NEW f \in Family,
           chain[f] = <<>> <=> chain'[f] = <<>>,
           (\E i \in DOMAIN chain'[f] : chain'[f][i] = "active") => Life(f) = "live",
           RenewsIn(h, f) => Life(f) = "live"
    PROVE  Life(f)' = Life(f) \/ (Life(f) = "live" /\ Life(f)' = "dead")
<1>1. Life(f)' = IF chain'[f] = <<>> THEN "unused"
                 ELSE IF \/ \E i \in DOMAIN chain'[f] : chain'[f][i] = "active"
                         \/ \E x \in Session : RenewsIn(act'[x], f)
                      THEN "live" ELSE "dead"
  BY DEF Life, RenewsIn, Doing
<1>2. act'[s] = h /\ \A x \in Session \ {s} : act'[x] = act[x]
  OBVIOUS
<1>. QED
  BY <1>1, <1>2, LifeOfHands

LEMMA LifeSame ==
    ASSUME NEW s \in Session, NEW h, act' = [act EXCEPT ![s] = h],
           act \in [Session -> Act \cup {None}], NEW f \in Family,
           chain'[f] = chain[f], ~RenewsIn(h, f), ~RenewsIn(act[s], f)
    PROVE  Life(f)' = Life(f)
<1>1. Life(f)' = IF chain'[f] = <<>> THEN "unused"
                 ELSE IF \/ \E i \in DOMAIN chain'[f] : chain'[f][i] = "active"
                         \/ \E x \in Session : RenewsIn(act'[x], f)
                      THEN "live" ELSE "dead"
  BY DEF Life, RenewsIn, Doing
<1>2. act'[s] = h /\ \A x \in Session \ {s} : act'[x] = act[x]
  OBVIOUS
<1>. QED
  BY <1>1, <1>2, LifeOfHands

LEMMA ActiveIsLive ==
    ASSUME NEW f \in Family, AccountTypeOK, \E i \in DOMAIN chain[f] : chain[f][i] = "active"
    PROVE  Life(f) = "live"
BY TypeMeans DEF Life

(* What a step other than a sign-in does to the lives of families.            *)
Ends ==
    \A f \in Family : Life(f)' = Life(f) \/ (Life(f) = "live" /\ Life(f)' = "dead")

LEMMA OtherStepsEnd ==
    ASSUME AccountInv, NEW s \in Session,
           \/ Continues(s) \/ CommitMove(s) \/ CommitReactivate(s)
           \/ CommitRenew(s) \/ CommitRevoke(s) \/ EndRequest(s)
    PROVE  Ends
<1>1. AccountTypeOK /\ act \in [Session -> Act \cup {None}]
  BY DEF AccountInv, AccountTypeOK
<1>2. \A f : ~RenewsIn(None, f)
  BY DEF RenewsIn
<1>3. CASE Continues(s)
  <2>1. PICK h : /\ act' = [act EXCEPT ![s] = h]
                 /\ \A f \in Family : RenewsIn(h, f) => Life(f) = "live"
    BY <1>3 DEF Continues, Takes
  <2>2. chain' = chain
    BY <1>3 DEF Continues
  <2>. QED
    BY <1>1, <2>1, <2>2, ActiveIsLive, LifeKept DEF Ends
<1>4. CASE CommitMove(s) \/ CommitReactivate(s) \/ EndRequest(s)
  <2>1. act' = [act EXCEPT ![s] = None] /\ chain' = chain
    BY <1>4 DEF CommitMove, CommitReactivate, EndRequest
  <2>. QED
    BY <1>1, <1>2, <2>1, ActiveIsLive, LifeKept DEF Ends
<1>5. CASE CommitRenew(s)
  <2>1. PICK f : f = act[s].token[1]
    OBVIOUS
  <2>2. act' = [act EXCEPT ![s] = None]
    BY <1>5 DEF CommitRenew
  <2>3. /\ Doing(s, "renew") /\ f \in Family /\ Len(chain[f]) > 0
        /\ Len(chain'[f]) > 0
        /\ \A g \in Family \ {f} : chain'[g] = chain[g]
    BY <1>5, <2>1, RenewedFamily
  <2>4. chain[f] # <<>> /\ chain'[f] # <<>>
    BY <2>3
  <2>5. Life(f) = "live"
    BY <2>1, <2>3, <2>4 DEF Life
  <2>6. \A g \in Family : /\ chain[g] = <<>> <=> chain'[g] = <<>>
                          /\ (\E i \in DOMAIN chain'[g] : chain'[g][i] = "active") =>
                                Life(g) = "live"
    BY <1>1, <2>3, <2>4, <2>5, ActiveIsLive
  <2>. QED
    BY <1>1, <1>2, <2>2, <2>6, LifeKept DEF Ends
<1>6. CASE CommitRevoke(s)
  <2>1. PICK h : act' = [act EXCEPT ![s] = h] /\ \A f : ~RenewsIn(h, f)
    <3>1. \A f : ~RenewsIn(Afterwards(act[s]), f)
      BY DEF Afterwards, RenewsIn
    <3>. QED
      BY <1>6, <3>1 DEF CommitRevoke
  <2>2. \A g \in Family : /\ chain[g] = <<>> <=> chain'[g] = <<>>
                          /\ (\E i \in DOMAIN chain'[g] : chain'[g][i] = "active") =>
                                \E i \in DOMAIN chain[g] : chain[g][i] = "active"
    <3>1. SUFFICES ASSUME NEW g \in Family
                   PROVE  /\ chain[g] = <<>> <=> chain'[g] = <<>>
                          /\ (\E i \in DOMAIN chain'[g] : chain'[g][i] = "active") =>
                                \E i \in DOMAIN chain[g] : chain[g][i] = "active"
      OBVIOUS
    <3>2. chain[g] \in Seq(TokenStatus) /\ chain'[g] \in Seq(TokenStatus)
          /\ Len(chain'[g]) = Len(chain[g])
      BY <1>1, <1>6, RevokedFamilies DEF AccountTypeOK
    <3>3. chain[g] = <<>> <=> chain'[g] = <<>>
      BY <3>2
    <3>4. (\E i \in DOMAIN chain'[g] : chain'[g][i] = "active") =>
             \E i \in DOMAIN chain[g] : chain[g][i] = "active"
      BY <1>6, RevokedFamilies
    <3>. QED
      BY <3>3, <3>4
  <2>. QED
    BY <1>1, <2>1, <2>2, ActiveIsLive, LifeKept DEF Ends
<1>. QED
  BY <1>3, <1>4, <1>5, <1>6

LEMMA EndsIsFamilyStep ==
    ASSUME Ends
    PROVE  Families!FamilyNext
<1>. DEFINE fs == {f \in Family : Life(f) = "live" /\ Life(f)' = "dead"}
<1>1. \A f \in fs : [g \in Family |-> Life(g)][f] = "live"
  OBVIOUS
<1>2. [f \in Family |-> Life(f)]' =
         [f \in Family |-> IF f \in fs THEN "dead" ELSE [g \in Family |-> Life(g)][f]]
  BY DEF Ends
<1>. HIDE DEF fs
<1>3. Families!End(fs)
  BY <1>1, <1>2 DEF Families!End
<1>4. fs \in SUBSET Family
  BY DEF fs
<1>. QED
  BY <1>3, <1>4 DEF Families!FamilyNext

LEMMA IssueIsFamilyStep ==
    ASSUME AccountInv, NEW s \in Session, IssueFamily(s)
    PROVE  Families!FamilyNext
<1>1. PICK f \in Family : chain[f] = <<>> /\ chain' = [chain EXCEPT ![f] = <<"active">>]
  BY IssueKeeps
<1>2. chain \in [Family -> Seq(TokenStatus)] /\ act \in [Session -> Act \cup {None}]
  BY DEF AccountInv, AccountTypeOK
<1>3. PICK h : act' = [act EXCEPT ![s] = h] /\ \A g : ~RenewsIn(h, g)
  <2>1. PICK entry : act' = [act EXCEPT ![s] = [op |-> "audit", commits |-> FALSE,
                                                entry |-> entry]]
    BY DEF IssueFamily
  <2>2. \A g : ~RenewsIn([op |-> "audit", commits |-> FALSE, entry |-> entry], g)
    BY DEF RenewsIn
  <2>. QED
    BY <2>1, <2>2
<1>4. \A g : ~RenewsIn(act[s], g)
  BY DEF IssueFamily, Doing, RenewsIn
<1>5. Life(f) = "unused"
  BY <1>1 DEF Life
<1>6. Life(f)' = "live"
  <2>1. chain'[f] = <<"active">>
    BY <1>1, <1>2
  <2>2. chain'[f] # <<>> /\ 1 \in DOMAIN chain'[f] /\ chain'[f][1] = "active"
    BY <2>1
  <2>. QED
    BY <2>2 DEF Life
<1>7. \A g \in Family \ {f} : Life(g)' = Life(g)
  BY <1>1, <1>2, <1>3, <1>4, LifeSame
<1>8. Families!Open(f)
  <2>1. [g \in Family |-> Life(g)]' = [[g \in Family |-> Life(g)] EXCEPT ![f] = "live"]
    BY <1>6, <1>7
  <2>. QED
    BY <1>5, <2>1 DEF Families!Open
<1>. QED
  BY <1>8 DEF Families!FamilyNext

(* A family is opened once, by a sign-in; a dead one is never live again,     *)
(* whatever tokens are presented late and however renewals, revocations and   *)
(* status changes overlap.                                                    *)
THEOREM AccountsImplementFamilyLife == AccountSpec => ImplementsFamilyLife
<1>1. AccountInit => Families!FamilyInit
  BY DEF AccountInit, Families!FamilyInit, Life
<1>2. AccountInv /\ [AccountNext]_accountVars =>
         [Families!FamilyNext]_([f \in Family |-> Life(f)])
  <2>. SUFFICES ASSUME AccountInv, [AccountNext]_accountVars
                PROVE  Families!FamilyNext \/ UNCHANGED [f \in Family |-> Life(f)]
    OBVIOUS
  <2>1. CASE chain' = chain /\ act' = act
    BY <2>1 DEF Life, Doing
  <2>2. CASE UNCHANGED accountVars
    BY <2>1, <2>2 DEF accountVars
  <2>3. ASSUME NEW e \in Employee, NEW w \in Workplace, HireEmployee(e, w)
        PROVE  chain' = chain /\ act' = act
    BY <2>3 DEF HireEmployee
  <2>4. ASSUME NEW s \in Session,
               \/ Continues(s) \/ CommitMove(s) \/ CommitReactivate(s) \/ IssueFamily(s)
               \/ CommitRenew(s) \/ CommitRevoke(s) \/ EndRequest(s)
        PROVE  Families!FamilyNext
    BY <2>4, OtherStepsEnd, EndsIsFamilyStep, IssueIsFamilyStep
  <2>. QED
    BY <2>1, <2>2, <2>3, <2>4, AccountSteps
<1>. QED
  BY <1>1, <1>2, AccountInvariant, PTL DEF AccountSpec, ImplementsFamilyLife, Families!FamilySpec
=============================================================================
