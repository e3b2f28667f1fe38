---------------------------- MODULE People_proofs ----------------------------
(***************************************************************************)
(* First Assets: the timeline of an asset tells its whole story, for any   *)
(* assets, serials, holders and sessions.  Then accounts, assets, grants   *)
(* and their administration together: each goes on as it does alone, with  *)
(* the requests of the user module in the place of Staff.                  *)
(***************************************************************************)
EXTENDS MCPeople, Accounts_proofs, Authorisation_proofs

(***************************************************************************)
(* Facts about one timeline h and one row.                                 *)
(***************************************************************************)
Transfers(h) == {i \in DOMAIN h : h[i].action \in {"assigned", "returned"}}
IsLast(h, i) == i \in Transfers(h) /\ \A j \in Transfers(h) : j <= i
Latest(S) == CHOOSE i \in S : \A j \in S : j <= i
Last(h) == Latest(Transfers(h))

(* What a row owes its timeline.                                              *)
Tells(r, h) ==
    /\ r.version = Len(h)
    /\ r.holder = IF Transfers(h) = {} THEN None ELSE h[Last(h)].to
    /\ r.live <=> \A i \in DOMAIN h : h[i].action # "retired"

Before(h, i) == {j \in 1..(i - 1) : h[j].action \in {"assigned", "returned"}}
Previous(h, i) == h[Latest(Before(h, i))]

AlternatesAt(h, i) ==
    CASE h[i].action = "assigned" ->
            Before(h, i) # {} => Previous(h, i).action = "returned"
      [] h[i].action = "returned" ->
            /\ Before(h, i) # {}
            /\ Previous(h, i).action = "assigned"
            /\ Previous(h, i).to = h[i].from
      [] OTHER -> TRUE

(* A timeline that can go on: it has a last transfer if it has any, an        *)
(* assignment names who got the asset and a return nobody.                    *)
CanGoOn(h) ==
    /\ Transfers(h) # {} => \E i \in DOMAIN h : IsLast(h, i)
    /\ \A i \in DOMAIN h : /\ h[i].action = "assigned" => h[i].to # None
                           /\ h[i].action = "returned" => h[i].to = None
                           /\ Before(h, i) # {} =>
                                 \E j \in Before(h, i) : \A m \in Before(h, i) : m <= j
                           /\ AlternatesAt(h, i)

(* What a session is going to write follows from the row it has locked.       *)
Follows(r, new, event) ==
    /\ new.version = r.version + 1
    /\ \/ /\ event.action = "updated"
          /\ new.holder = r.holder /\ new.live = r.live
       \/ /\ event.action = "retired"
          /\ new.holder = r.holder /\ ~new.live
       \/ /\ event.action = "assigned" /\ event.to # None
          /\ r.holder = None /\ new.holder = event.to /\ new.live = r.live
       \/ /\ event.action = "returned" /\ event.to = None
          /\ r.holder # None /\ event.from = r.holder
          /\ new.holder = None /\ new.live = r.live

LEMMA LastIsUnique ==
    ASSUME NEW h \in Seq(Event), NEW i \in DOMAIN h, IsLast(h, i)
    PROVE  Last(h) = i
<1>1. \A j \in Transfers(h) : (\A m \in Transfers(h) : m <= j) => j = i
  BY DEF IsLast, Transfers
<1>. QED  BY <1>1 DEF IsLast, Last, Latest

(* An entry more leaves the earlier ones as they are, and is judged by the    *)
(* last transfer before it.                                                   *)
LEMMA OneEntryMore ==
    ASSUME NEW h \in Seq(Event), NEW event \in Event
    PROVE  LET more == Append(h, event)
               n == Len(h) + 1
           IN  /\ more \in Seq(Event)
               /\ DOMAIN more = DOMAIN h \cup {n}
               /\ n \notin DOMAIN h
               /\ \A i \in DOMAIN h : i < n /\ more[i] = h[i]
               /\ more[n] = event
               /\ Transfers(more) =
                     Transfers(h) \cup (IF event.action \in {"assigned", "returned"}
                                        THEN {n} ELSE {})
               /\ Before(more, n) = Transfers(h)
               /\ \A i \in DOMAIN h : Before(more, i) = Before(h, i)
<1>. DEFINE more == Append(h, event)  n == Len(h) + 1
<1>1. /\ more \in Seq(Event)
      /\ DOMAIN more = DOMAIN h \cup {n}
      /\ n \notin DOMAIN h
      /\ \A i \in DOMAIN h : i < n /\ more[i] = h[i]
      /\ more[n] = event
  OBVIOUS
<1>2. Transfers(more) = Transfers(h) \cup (IF event.action \in {"assigned", "returned"}
                                           THEN {n} ELSE {})
  BY <1>1 DEF Transfers
<1>3. Before(more, n) = Transfers(h)
  BY <1>1 DEF Before, Transfers
<1>4. \A i \in DOMAIN h : Before(more, i) = Before(h, i)
  BY <1>1 DEF Before
<1>. QED  BY <1>1, <1>2, <1>3, <1>4

LEMMA EntryKeepsTimeline ==
    ASSUME NEW h \in Seq(Event), NEW event \in Event,
           NEW r \in AssetRow, NEW new \in AssetRow,
           Tells(r, h), CanGoOn(h), Follows(r, new, event)
    PROVE  Tells(new, Append(h, event)) /\ CanGoOn(Append(h, event))
<1>. DEFINE more == Append(h, event)  n == Len(h) + 1
            transfer == event.action \in {"assigned", "returned"}
<1>1. PICK i : Transfers(h) # {} => i \in DOMAIN h /\ IsLast(h, i) /\ Last(h) = i
  BY LastIsUnique DEF CanGoOn
<1>2. Transfers(h) # {} => /\ Last(h) \in DOMAIN h
                           /\ h[Last(h)].action \in {"assigned", "returned"}
                           /\ IsLast(h, Last(h))
  BY <1>1 DEF IsLast, Transfers
<1>3. \A j \in DOMAIN h : AlternatesAt(more, j)
  <2>. SUFFICES ASSUME NEW j \in DOMAIN h PROVE AlternatesAt(more, j)
    OBVIOUS
  <2>1. Before(h, j) # {} => Previous(more, j) = Previous(h, j)
    <3>. SUFFICES ASSUME Before(h, j) # {} PROVE Previous(more, j) = Previous(h, j)
      OBVIOUS
    <3>. DEFINE m == Latest(Before(h, j))
    <3>1. m \in Before(h, j)
      BY DEF CanGoOn, Latest
    <3>2. m \in DOMAIN h
      BY <3>1 DEF Before
    <3>3. Before(more, j) = Before(h, j) /\ more[m] = h[m]
      BY <3>2, OneEntryMore
    <3>. QED  BY <3>3 DEF Previous
  <2>2. AlternatesAt(h, j) /\ more[j] = h[j] /\ Before(more, j) = Before(h, j)
    BY OneEntryMore DEF CanGoOn
  <2>. QED  BY <2>1, <2>2 DEF AlternatesAt
<1>4. CASE transfer
  <2>1. n \in DOMAIN more /\ IsLast(more, n)
    BY <1>4, OneEntryMore DEF IsLast, Transfers
  <2>2. Last(more) = n
    BY <2>1, OneEntryMore, LastIsUnique
  <2>3. Tells(new, more)
    BY <1>4, <2>1, <2>2, OneEntryMore DEF Tells, Follows, IsLast, AssetRow
  <2>4. AlternatesAt(more, n)
    <3>1. Transfers(h) # {} => Previous(more, n) = h[Last(h)]
      BY <1>2, OneEntryMore DEF Previous, Last
    <3>2. Transfers(h) = {} => r.holder = None
      BY DEF Tells
    <3>3. Transfers(h) # {} => /\ r.holder = h[Last(h)].to
                               /\ h[Last(h)].action = "assigned" => r.holder # None
                               /\ h[Last(h)].action = "returned" => r.holder = None
      BY <1>2 DEF Tells, CanGoOn
    <3>4. Before(more, n) = Transfers(h) /\ more[n] = event
      BY OneEntryMore
    <3>5. CASE event.action = "assigned"
      BY <1>2, <3>1, <3>3, <3>4, <3>5 DEF AlternatesAt, Follows
    <3>6. CASE event.action = "returned"
      BY <1>2, <3>1, <3>2, <3>3, <3>4, <3>6 DEF AlternatesAt, Follows
    <3>. QED  BY <1>4, <3>5, <3>6
  <2>5. Before(more, n) # {} =>
           \E j \in Before(more, n) : \A m \in Before(more, n) : m <= j
    BY <1>2, OneEntryMore DEF IsLast
  <2>. QED  BY <1>3, <1>4, <2>1, <2>3, <2>4, <2>5, OneEntryMore DEF CanGoOn, Follows
<1>5. CASE ~transfer
  <2>1. Transfers(more) = Transfers(h)
    BY <1>5, OneEntryMore
  <2>2. Transfers(h) # {} => /\ IsLast(more, Last(h))
                             /\ Last(more) = Last(h)
                             /\ Last(h) \in DOMAIN more
                             /\ more[Last(h)] = h[Last(h)]
    BY <1>2, <2>1, OneEntryMore DEF IsLast, Last
  <2>3. Tells(new, more)
    BY <1>5, <2>1, <2>2, OneEntryMore DEF Tells, Follows, AssetRow
  <2>4. AlternatesAt(more, n)
    BY <1>5, OneEntryMore DEF AlternatesAt
  <2>5. Before(more, n) # {} =>
           \E j \in Before(more, n) : \A m \in Before(more, n) : m <= j
    BY <1>2, OneEntryMore DEF IsLast
  <2>. QED  BY <1>3, <1>5, <2>1, <2>2, <2>3, <2>4, <2>5, OneEntryMore DEF CanGoOn
<1>. QED  BY <1>4, <1>5
-----------------------------------------------------------------------------
(***************************************************************************)
(* The program.  What keeps a timeline true is the row lock: nobody else   *)
(* changes a row between the SELECT FOR UPDATE and the commit, so what a   *)
(* session is going to write follows from the committed row until then.    *)
(***************************************************************************)
OneAtATime ==
    \A s, t \in Session :
        work[s] # None /\ work[t] # None /\ work[s].a = work[t].a => s = t

WorkFollows ==
    \A s \in Session : work[s] # None =>
        /\ asset[work[s].a] # None
        /\ Follows(asset[work[s].a], work[s].row, work[s].event)

TimelinesHold ==
    \A a \in Asset : IF asset[a] = None THEN timeline[a] = <<>>
                     ELSE Tells(asset[a], timeline[a]) /\ CanGoOn(timeline[a])

AssetInv == AssetTypeOK /\ OneAtATime /\ WorkFollows /\ TimelinesHold

LEMMA AssetInvInit == AssetInit => AssetInv
<1>. SUFFICES ASSUME AssetInit PROVE AssetInv
  OBVIOUS
<1>1. AssetTypeOK
  BY DEF AssetInit, StaffInit, AssetTypeOK, StaffTypeOK
<1>. QED  BY <1>1 DEF AssetInit, AssetInv, OneAtATime, WorkFollows, TimelinesHold

LEMMA CreateKeeps ==
    ASSUME AssetInv, NEW a \in Asset, NEW n \in Serial, CreateAsset(a, n)
    PROVE  AssetInv'
<1>. DEFINE r == [serial |-> n, live |-> TRUE, holder |-> None, version |-> 1]
            h == <<Happened("created", None, None)>>
<1>1. /\ asset[a] = None /\ asset'[a] = r /\ timeline'[a] = h
      /\ \A b \in Asset \ {a} : asset'[b] = asset[b] /\ timeline'[b] = timeline[b]
      /\ work' = work
  BY DEF CreateAsset, AssetInv, AssetTypeOK
<1>2. r \in AssetRow /\ r # None
  <2>1. r \in AssetRow
    BY DEF AssetRow
  <2>. QED  BY <2>1, NoneIsNoAssetRow
<1>3. h \in Seq(Event)
  BY DEF Happened, Event
<1>4. AssetTypeOK'
  BY <1>2, <1>3 DEF CreateAsset, AssetInv, AssetTypeOK, StaffTypeOK, staffVars
<1>5. OneAtATime'
  BY <1>1 DEF AssetInv, OneAtATime
<1>6. WorkFollows'
  <2>. SUFFICES ASSUME NEW s \in Session, work[s] # None
                PROVE  /\ asset'[work[s].a] # None
                       /\ Follows(asset'[work[s].a], work[s].row, work[s].event)
    BY <1>1 DEF WorkFollows, Follows
  <2>1. work[s].a \in Asset \ {a}
    BY <1>1 DEF AssetInv, AssetTypeOK, Work, WorkFollows
  <2>. QED  BY <1>1, <2>1 DEF AssetInv, WorkFollows
<1>7. Tells(r, h) /\ CanGoOn(h)
  <2>1. DOMAIN h = {1} /\ h[1].action = "created" /\ Len(h) = 1
    BY DEF Happened
  <2>. QED  BY <2>1 DEF Tells, CanGoOn, Transfers, Before, AlternatesAt
<1>8. TimelinesHold'
  BY <1>1, <1>2, <1>7 DEF AssetInv, TimelinesHold
<1>. QED  BY <1>4, <1>5, <1>6, <1>8 DEF AssetInv

LEMMA TakeKeeps ==
    ASSUME AssetInv, NEW s \in Session, NEW a \in Asset, NEW row \in AssetRow,
           NEW event \in Event, NEW fit \in BOOLEAN,
           Take(s, a, row, event, fit),
           asset[a] # None,
           Follows(asset[a], [row EXCEPT !.version = asset[a].version + 1], event)
    PROVE  AssetInv'
<1>. DEFINE k == [a |-> a, event |-> event, fit |-> fit,
                  row |-> [row EXCEPT !.version = asset[a].version + 1]]
<1>1. /\ work' = [work EXCEPT ![s] = k]
      /\ asset' = asset /\ timeline' = timeline
      /\ ~RowLocked(a)
  BY DEF Take
<1>2. k \in Work /\ k # None
  <2>1. asset[a].version + 1 \in Nat
    BY DEF AssetRow, AssetInv, AssetTypeOK
  <2>2. [row EXCEPT !.version = asset[a].version + 1] \in AssetRow
    BY <2>1 DEF AssetRow
  <2>3. k \in Work
    BY <2>2 DEF Work
  <2>. QED  BY <2>3, NoneIsNoAssetRow
<1>3. AssetTypeOK'
  BY <1>1, <1>2 DEF Take, AssetInv, AssetTypeOK, StaffTypeOK, staffVars
<1>4. OneAtATime'
  BY <1>1, <1>2 DEF AssetInv, AssetTypeOK, OneAtATime, RowLocked
<1>5. WorkFollows'
  BY <1>1, <1>2 DEF AssetInv, AssetTypeOK, WorkFollows, Follows
<1>6. TimelinesHold'
  BY <1>1 DEF AssetInv, TimelinesHold
<1>. QED  BY <1>3, <1>4, <1>5, <1>6 DEF AssetInv

(* A session that has its holder, or that is rolled back.                     *)
LEMMA WorkerKeeps ==
    ASSUME AssetInv, NEW s \in Session, FindHolder(s) \/ Drop(s)
    PROVE  AssetInv'
<1>. PICK k : /\ k = None \/ (k \in Work /\ k.a = work[s].a /\ k.row = work[s].row
                                        /\ k.event = work[s].event)
              /\ work' = [work EXCEPT ![s] = k]
              /\ work[s] # None
              /\ UNCHANGED <<staffVars, asset, timeline>>
  <2>1. CASE FindHolder(s)
    <3>1. work[s] \in Work
      BY <2>1 DEF FindHolder, AssetInv, AssetTypeOK
    <3>2. [work[s] EXCEPT !.fit = TRUE] \in Work
      BY <3>1 DEF Work
    <3>3. work' = [work EXCEPT ![s] = [work[s] EXCEPT !.fit = TRUE]]
      BY <2>1 DEF FindHolder
    <3>. QED  BY <2>1, <3>1, <3>2, <3>3 DEF FindHolder, Work
  <2>2. CASE Drop(s)
    BY <2>2 DEF Drop
  <2>. QED  BY <2>1, <2>2
<1>1. /\ asset' = asset /\ timeline' = timeline
      /\ \A t \in Session : work'[t] # None =>
            /\ work[t] # None
            /\ work'[t].a = work[t].a /\ work'[t].row = work[t].row
            /\ work'[t].event = work[t].event
  BY DEF AssetInv, AssetTypeOK
<1>2. AssetTypeOK'
  BY DEF AssetInv, AssetTypeOK, StaffTypeOK, staffVars
<1>3. OneAtATime' /\ WorkFollows' /\ TimelinesHold'
  BY <1>1 DEF AssetInv, OneAtATime, WorkFollows, TimelinesHold, Follows
<1>. QED  BY <1>2, <1>3 DEF AssetInv

LEMMA CommitKeeps ==
    ASSUME AssetInv, NEW s \in Session, CommitWork(s)
    PROVE  AssetInv'
<1>. DEFINE k == work[s]
<1>1. /\ k \in Work /\ k # None /\ k.a \in Asset
      /\ k.row \in AssetRow /\ k.row # None /\ k.event \in Event
      /\ asset[k.a] # None /\ asset[k.a] \in AssetRow
      /\ Follows(asset[k.a], k.row, k.event)
      /\ timeline[k.a] \in Seq(Event)
      /\ Tells(asset[k.a], timeline[k.a]) /\ CanGoOn(timeline[k.a])
  BY NoneIsNoAssetRow
  DEF CommitWork, AssetInv, AssetTypeOK, WorkFollows, TimelinesHold, Work
<1>2. /\ asset'[k.a] = k.row /\ timeline'[k.a] = Append(timeline[k.a], k.event)
      /\ \A b \in Asset \ {k.a} : asset'[b] = asset[b] /\ timeline'[b] = timeline[b]
      /\ work'[s] = None
      /\ \A t \in Session \ {s} : work'[t] = work[t]
  BY <1>1 DEF CommitWork, AssetInv, AssetTypeOK
<1>3. AssetTypeOK'
  <2>1. Append(timeline[k.a], k.event) \in Seq(Event)
    BY <1>1
  <2>. QED  BY <1>1, <2>1 DEF CommitWork, AssetInv, AssetTypeOK, StaffTypeOK, staffVars
<1>4. OneAtATime'
  BY <1>2 DEF AssetInv, OneAtATime
<1>5. WorkFollows'
  <2>. SUFFICES ASSUME NEW t \in Session, work'[t] # None
                PROVE  /\ asset'[work'[t].a] # None
                       /\ Follows(asset'[work'[t].a], work'[t].row, work'[t].event)
    BY DEF WorkFollows, Follows
  <2>1. t # s /\ work'[t] = work[t] /\ work[t].a \in Asset \ {k.a}
    BY <1>1, <1>2 DEF AssetInv, AssetTypeOK, OneAtATime, Work
  <2>. QED  BY <1>2, <2>1 DEF AssetInv, WorkFollows
<1>6. TimelinesHold'
  <2>1. Tells(k.row, timeline'[k.a]) /\ CanGoOn(timeline'[k.a])
    BY <1>1, <1>2, EntryKeepsTimeline
  <2>. QED  BY <1>1, <1>2, <2>1 DEF AssetInv, TimelinesHold
<1>. QED  BY <1>3, <1>4, <1>5, <1>6 DEF AssetInv

LEMMA StaffKeepsAssets ==
    ASSUME AssetInv, StaffNext, UNCHANGED <<asset, timeline, work>>
    PROVE  AssetInv'
<1>1. StaffTypeOK'
  BY DEF StaffNext, Hire, Move, SetActive, AssetInv, AssetTypeOK, StaffTypeOK
<1>. QED  BY <1>1 DEF AssetInv, AssetTypeOK, OneAtATime, WorkFollows, TimelinesHold, Follows

(* The four changes take the row of an asset and write what follows from it.  *)
LEMMA ChangesKeep ==
    ASSUME AssetInv, NEW s \in Session, NEW a \in Asset,
           \/ \E n \in Serial : UpdateAsset(s, a, n)
           \/ RetireAsset(s, a)
           \/ \E h \in Holder : AssignAsset(s, a, h)
           \/ ReturnAsset(s, a)
    PROVE  AssetInv'
<1>1. CASE asset[a] = None
  BY <1>1 DEF UpdateAsset, RetireAsset, AssignAsset, ReturnAsset, Take
<1>2. CASE asset[a] # None
  <2>. DEFINE r == asset[a]
  <2>1. r \in AssetRow
    BY <1>2 DEF AssetInv, AssetTypeOK
  <2>2. ASSUME NEW n \in Serial, UpdateAsset(s, a, n) PROVE AssetInv'
    <3>. DEFINE row == [r EXCEPT !.serial = n]  event == Happened("updated", None, None)
    <3>1. row \in AssetRow /\ event \in Event
      BY <2>1 DEF AssetRow, Happened, Event
    <3>2. Follows(r, [row EXCEPT !.version = r.version + 1], event)
      BY <2>1 DEF Follows, AssetRow, Happened
    <3>3. Take(s, a, row, event, TRUE)
      BY <2>2 DEF UpdateAsset
    <3>. QED  BY <1>2, <3>1, <3>2, <3>3, TakeKeeps
  <2>3. ASSUME RetireAsset(s, a) PROVE AssetInv'
    <3>. DEFINE row == [r EXCEPT !.live = FALSE]  event == Happened("retired", None, None)
    <3>1. row \in AssetRow /\ event \in Event
      BY <2>1 DEF AssetRow, Happened, Event
    <3>2. Follows(r, [row EXCEPT !.version = r.version + 1], event)
      BY <2>1 DEF Follows, AssetRow, Happened
    <3>3. Take(s, a, row, event, TRUE)
      BY <2>3 DEF RetireAsset
    <3>. QED  BY <1>2, <3>1, <3>2, <3>3, TakeKeeps
  <2>4. ASSUME NEW h \in Holder, AssignAsset(s, a, h) PROVE AssetInv'
    <3>. DEFINE row == [r EXCEPT !.holder = h]  event == Happened("assigned", None, h)
                fit == h \in Location
    <3>1. row \in AssetRow /\ event \in Event /\ fit \in BOOLEAN
      BY <2>1 DEF AssetRow, Happened, Event
    <3>2. h # None
      BY AssetConstants
    <3>3. Follows(r, [row EXCEPT !.version = r.version + 1], event)
      BY <2>1, <2>4, <3>2 DEF Follows, AssetRow, Happened, AssignAsset
    <3>4. Take(s, a, row, event, fit)
      BY <2>4 DEF AssignAsset
    <3>. QED  BY <1>2, <3>1, <3>3, <3>4, TakeKeeps
  <2>5. ASSUME ReturnAsset(s, a) PROVE AssetInv'
    <3>. DEFINE row == [r EXCEPT !.holder = None]
                event == Happened("returned", r.holder, None)
    <3>1. row \in AssetRow /\ event \in Event
      BY <2>1 DEF AssetRow, Happened, Event
    <3>2. Follows(r, [row EXCEPT !.version = r.version + 1], event)
      BY <2>1, <2>5 DEF Follows, AssetRow, Happened, ReturnAsset
    <3>3. Take(s, a, row, event, TRUE)
      BY <2>5 DEF ReturnAsset
    <3>. QED  BY <1>2, <3>1, <3>2, <3>3, TakeKeeps
  <2>. QED  BY <2>2, <2>3, <2>4, <2>5
<1>. QED  BY <1>1, <1>2

LEMMA AssetStepKeeps == AssetInv /\ [AssetNext]_assetVars => AssetInv'
<1>. SUFFICES ASSUME AssetInv, [AssetNext]_assetVars PROVE AssetInv'
  OBVIOUS
<1>1. ASSUME NEW a \in Asset, NEW n \in Serial, CreateAsset(a, n) PROVE AssetInv'
  BY <1>1, CreateKeeps
<1>2. ASSUME NEW s \in Session, NEW a \in Asset,
             \/ \E n \in Serial : UpdateAsset(s, a, n)
             \/ RetireAsset(s, a)
             \/ \E h \in Holder : AssignAsset(s, a, h)
             \/ ReturnAsset(s, a)
      PROVE  AssetInv'
  BY <1>2, ChangesKeep
<1>3. ASSUME NEW s \in Session, FindHolder(s) \/ Drop(s) PROVE AssetInv'
  BY <1>3, WorkerKeeps
<1>4. ASSUME NEW s \in Session, CommitWork(s) PROVE AssetInv'
  BY <1>4, CommitKeeps
<1>5. CASE StaffNext /\ UNCHANGED <<asset, timeline, work>>
  BY <1>5, StaffKeepsAssets
<1>6. CASE UNCHANGED assetVars
  BY <1>6 DEF assetVars, staffVars, AssetInv, AssetTypeOK, StaffTypeOK, OneAtATime,
              WorkFollows, TimelinesHold, Follows
<1>. QED  BY <1>1, <1>2, <1>3, <1>4, <1>5, <1>6 DEF AssetNext, AssetStep

LEMMA AssetInvAlways == AssetSpec => []AssetInv
BY AssetInvInit, AssetStepKeeps, PTL DEF AssetSpec
-----------------------------------------------------------------------------
(* Rows, histories and the work in hand stay well formed: in particular every *)
(* history row has an action the list of asset_service knows.                 *)
THEOREM AssetTypeCorrect == AssetSpec => []AssetTypeOK
<1>1. AssetInv => AssetTypeOK
  BY DEF AssetInv
<1>. QED  BY <1>1, AssetInvAlways, PTL

(* The history tells who holds an asset, whether it is retired and how often  *)
(* its row was changed: asset_service writes the row and its history entry in *)
(* one transaction, from a row that stays locked until it commits.            *)
THEOREM TimelineIsTrue == AssetSpec => []TimelineTellsAsset
<1>1. AssetInv => TimelineTellsAsset
  <2>. SUFFICES ASSUME AssetInv, NEW a \in Asset, asset[a] # None
                PROVE  /\ asset[a].version = Len(timeline[a])
                       /\ asset[a].holder = IF LastTransfer(a) = 0 THEN None
                                            ELSE timeline[a][LastTransfer(a)].to
                       /\ asset[a].live <=> \A i \in DOMAIN timeline[a] :
                                               timeline[a][i].action # "retired"
    BY DEF AssetInv, TimelinesHold, TimelineTellsAsset
  <2>. DEFINE h == timeline[a]
  <2>1. Tells(asset[a], h) /\ CanGoOn(h) /\ h \in Seq(Event)
    BY DEF AssetInv, TimelinesHold, AssetTypeOK
  <2>2. LastTransfer(a) = IF Transfers(h) = {} THEN 0 ELSE Last(h)
    BY DEF LastTransfer, Transfers, Last, Latest
  <2>3. Transfers(h) # {} => Last(h) \in DOMAIN h
    BY <2>1, LastIsUnique DEF CanGoOn
  <2>4. Transfers(h) # {} => Last(h) # 0
    BY <2>1, <2>3
  <2>. QED  BY <2>1, <2>2, <2>4 DEF Tells
<1>. QED  BY <1>1, AssetInvAlways, PTL

(* An asset goes from one holder to the next only through a return that names *)
(* the holder it comes from: assign_asset refuses an asset that has one, and  *)
(* of two assignments at once the second waits for the lock and is refused.   *)
THEOREM CustodyIsKept == AssetSpec => []CustodyAlternates
<1>1. AssetInv => CustodyAlternates
  <2>. SUFFICES ASSUME AssetInv, NEW a \in Asset, NEW i \in DOMAIN timeline[a]
                PROVE  AlternatesAt(timeline[a], i)
    BY DEF CustodyAlternates, AlternatesAt, Previous, Before, Latest
  <2>1. CASE asset[a] = None
    BY <2>1 DEF AssetInv, TimelinesHold
  <2>2. CASE asset[a] # None
    BY <2>2 DEF AssetInv, TimelinesHold, CanGoOn
  <2>. QED  BY <2>1, <2>2
<1>. QED  BY <1>1, AssetInvAlways, PTL
-----------------------------------------------------------------------------
(* Together *)

assetOnly == <<asset, timeline, work>>
accountOnly == <<account, owner, chain, trail, act>>

(* The four components in one program, in any order and without the bounds of *)
(* MCPeople: each works on its own tables, Assets and Grants read those of    *)
(* the employees.                                                             *)
TogetherNext ==
    \/ AccountNext /\ UNCHANGED <<assetOnly, grantVars, administrationVars>>
    \/ AssetStep /\ UNCHANGED <<accountOnly, grantVars, administrationVars>>
    \/ GrantStep /\ UNCHANGED <<accountVars, assetOnly, administrationVars>>
    \/ AdministrationNext /\ UNCHANGED <<accountVars, assetOnly, grantVars>>

TogetherSpec == PeopleInit /\ [][TogetherNext]_peopleVars

LEMMA TogetherParts ==
    ASSUME [TogetherNext]_peopleVars
    PROVE  /\ [AccountNext]_accountVars
           /\ AssetStep \/ UNCHANGED assetOnly
           /\ (GrantStep /\ UNCHANGED staffVars) \/ UNCHANGED grantVars
           /\ [AdministrationNext]_administrationVars
           /\ UNCHANGED accountVars \/ UNCHANGED <<assetOnly, grantVars>>
<1>1. ASSUME NEW a \in Asset, NEW n \in Serial, CreateAsset(a, n)
      PROVE  UNCHANGED staffVars
  BY <1>1 DEF CreateAsset
<1>2. ASSUME AssetStep PROVE UNCHANGED staffVars
  BY <1>1, <1>2 DEF AssetStep, UpdateAsset, RetireAsset, AssignAsset, ReturnAsset, Take,
                    FindHolder, CommitWork, Drop
<1>3. CASE AccountNext /\ UNCHANGED <<assetOnly, grantVars, administrationVars>>
  BY <1>3
<1>4. CASE AssetStep /\ UNCHANGED <<accountOnly, grantVars, administrationVars>>
  <2>1. UNCHANGED accountVars
    BY <1>2, <1>4 DEF accountVars, accountOnly
  <2>. QED
    BY <1>4, <2>1
<1>5. CASE GrantStep /\ UNCHANGED <<accountVars, assetOnly, administrationVars>>
  BY <1>5 DEF accountVars
<1>6. CASE AdministrationNext /\ UNCHANGED <<accountVars, assetOnly, grantVars>>
  BY <1>6
<1>7. CASE UNCHANGED peopleVars
  BY <1>7 DEF peopleVars, assetOnly
<1>. QED
  BY <1>3, <1>4, <1>5, <1>6, <1>7 DEF TogetherNext

(* What employees do to assets and grants.                                    *)
LEMMA TogetherStaff ==
    ASSUME AccountInv, [TogetherNext]_peopleVars
    PROVE  [AssetNext]_assetVars
           /\ [\/ GrantStep /\ UNCHANGED staffVars
               \/ StaffNext /\ UNCHANGED grantVars]_<<staffVars, grantVars>>
<1>1. [StaffNext]_staffVars
  BY TogetherParts, AccountStepIsStaffStep
<1>2. UNCHANGED staffVars \/ UNCHANGED <<assetOnly, grantVars>>
  BY TogetherParts DEF accountVars
<1>3. AssetStep \/ UNCHANGED assetOnly
  BY TogetherParts
<1>4. (GrantStep /\ UNCHANGED staffVars) \/ UNCHANGED grantVars
  BY TogetherParts
<1>5. [AssetNext]_assetVars
  BY <1>1, <1>3, <1>2 DEF AssetNext, assetVars, assetOnly
<1>6. CASE GrantStep /\ UNCHANGED staffVars
  BY <1>5, <1>6
<1>7. CASE UNCHANGED grantVars
  BY <1>1, <1>5, <1>7
<1>. QED
  BY <1>4, <1>6, <1>7

(* Assets and grants were specified over Staff, employees that are hired,     *)
(* moved and switched in one step each.  The whole goes on as each part does  *)
(* with the overlapping requests of users.service in its place, so what is    *)
(* proved of a part holds of the whole.                                       *)
THEOREM PartsGoOnTogether ==
    TogetherSpec => AccountSpec /\ AssetSpec /\ GrantSpec /\ AdministrationSpec
<1>1. PeopleInit => /\ AccountInit /\ AssetInit /\ AdministrationInit
                    /\ StaffInit /\ GrantInit
  BY DEF PeopleInit, AccountInit
<1>2. [TogetherNext]_peopleVars => /\ [AccountNext]_accountVars
                                   /\ [AdministrationNext]_administrationVars
  BY TogetherParts
<1>3. TogetherSpec => AccountSpec /\ AdministrationSpec
  BY <1>1, <1>2, PTL DEF TogetherSpec, AccountSpec, AdministrationSpec
<1>4. AccountInv /\ [TogetherNext]_peopleVars =>
         /\ [AssetNext]_assetVars
         /\ [\/ GrantStep /\ UNCHANGED staffVars
             \/ StaffNext /\ UNCHANGED grantVars]_<<staffVars, grantVars>>
  BY TogetherStaff
<1>. QED
  BY <1>1, <1>3, <1>4, AccountInvariant, PTL DEF TogetherSpec, AssetSpec, GrantSpec

(* So with real accounts too, the timeline of every asset is true, custody    *)
(* goes through returns, and all the checks of a caller's scope agree.        *)
THEOREM TogetherSound ==
    TogetherSpec => [](TimelineTellsAsset /\ CustodyAlternates /\ ScopeRulesAgree)
BY PartsGoOnTogether, TimelineIsTrue, CustodyIsKept, ChecksAgree, PTL

(* What MCPeople checks is a part of that, a behaviour having one subject.    *)
LEMMA PeopleStepIsTogether == PeopleNext => TogetherNext
<1>. SUFFICES ASSUME PeopleNext PROVE TogetherNext
  OBVIOUS
<1>1. ASSUME AccountStep PROVE AccountNext
  <2>1. CASE StaffSubject
    BY <2>1, FirstOnes DEF StaffSubject, AccountNext
  <2>2. CASE TokenSubject
    BY <2>2 DEF TokenSubject, AccountNext
  <2>3. CASE OneSwitch
    BY <2>3, FirstOnes DEF OneSwitch, AccountNext, StatusStep
  <2>4. CASE \E s \in Session :
                \/ LockEmployee(s) \/ CommitReactivate(s) \/ ListFamilies(s)
                \/ RevokeStep(s) \/ EndRequest(s) \/ Abandon(s)
    BY <2>4 DEF AccountNext, StatusStep
  <2>. QED
    BY <1>1, <2>1, <2>2, <2>3, <2>4 DEF AccountStep
<1>2. CASE AccountStep /\ UNCHANGED <<asset, timeline, work, grantVars>>
           /\ UNCHANGED administrationVars
  BY <1>1, <1>2 DEF TogetherNext, assetOnly
<1>3. CASE AssetStep /\ UNCHANGED <<account, owner, chain, trail, act, grantVars>>
           /\ UNCHANGED administrationVars
  BY <1>3 DEF TogetherNext, accountOnly
<1>4. CASE GrantStep /\ UNCHANGED <<accountVars, asset, timeline, work>>
           /\ UNCHANGED administrationVars
  BY <1>4 DEF TogetherNext, assetOnly
<1>5. CASE AdministrationNext /\ UNCHANGED <<accountVars, asset, timeline, work, grantVars>>
  BY <1>5 DEF TogetherNext, assetOnly
<1>. QED
  BY <1>2, <1>3, <1>4, <1>5 DEF PeopleNext

(* Rows, tokens, histories, grants and the work in hand of all components     *)
(* stay well formed, whoever else is at work.                                 *)
THEOREM PeopleTypeCorrect == PeopleSpec => []PeopleTypeOK
<1>1. PeopleSpec => TogetherSpec
  BY PeopleStepIsTogether, PTL DEF PeopleSpec, TogetherSpec
<1>2. AccountTypeOK /\ AssetTypeOK /\ AdministrationTypeOK => PeopleTypeOK
  BY DEF PeopleTypeOK
<1>. QED
  BY <1>1, <1>2, PartsGoOnTogether, AccountTypeCorrect, AssetTypeCorrect,
     AdministrationTypeCorrect, PTL
=============================================================================
