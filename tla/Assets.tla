------------------------------- MODULE Assets -------------------------------
(***************************************************************************)
(* Assets, who has them, and the timeline the program keeps of each.       *)
(*                                                                         *)
(* Every change of an asset selects its row FOR UPDATE and compares the    *)
(* caller's version under the lock, so a caller either works on the row it *)
(* has seen or is refused: the version is not a guard here but counts the  *)
(* changes.  The serial of an asset in service is unique (partial index),  *)
(* and the holder is read without a lock.                                  *)
(***************************************************************************)
EXTENDS Staff, Naturals, Sequences, FiniteSets

CONSTANTS
    Asset, Serial,
    Location,     (* places that may hold an asset                            *)
    MaxTimeline   (* bound on the entries about an asset                      *)

Holder == Employee \cup Location

ASSUME AssetConstants == None \notin Holder /\ MaxTimeline \in Nat

VARIABLES
    asset,     (* asset[a]: the committed row, None until it is registered    *)
    timeline,  (* timeline[a]: the committed history rows of a, oldest first  *)
    work       (* work[s]: the change session s has in hand, or None          *)

assetVars == <<staffVars, asset, timeline, work>>

AssetRow == [serial: Serial, live: BOOLEAN, holder: Holder \cup {None}, version: Nat]
Event == [action: {"created", "updated", "assigned", "returned", "retired"},
          from: Holder \cup {None}, to: Holder \cup {None}]
Work == [a: Asset, row: AssetRow, event: Event, fit: BOOLEAN]

ASSUME NoneIsNoAssetRow == None \notin AssetRow \cup Work

AssetTypeOK ==
    /\ StaffTypeOK
    /\ asset \in [Asset -> AssetRow \cup {None}]
    /\ timeline \in [Asset -> Seq(Event)]
    /\ work \in [Session -> Work \cup {None}]

AssetInit ==
    /\ StaffInit
    /\ asset = [a \in Asset |-> None]
    /\ timeline = [a \in Asset |-> <<>>]
    /\ work = [s \in Session |-> None]

InService(a) == asset[a] # None /\ asset[a].live

(* The partial unique index on serials.                                       *)
SerialIsFree(n, a) == \A b \in Asset \ {a} : InService(b) => asset[b].serial # n

RowLocked(a) == \E s \in Session : work[s] # None /\ work[s].a = a

Happened(action, from, to) == [action |-> action, from |-> from, to |-> to]
-----------------------------------------------------------------------------
CreateAsset(a, n) ==
    /\ asset[a] = None
    /\ SerialIsFree(n, a)
    /\ asset' = [asset EXCEPT ![a] = [serial |-> n, live |-> TRUE, holder |-> None,
                                      version |-> 1]]
    /\ timeline' = [timeline EXCEPT ![a] = <<Happened("created", None, None)>>]
    /\ UNCHANGED <<staffVars, work>>

(* Variant: the row is read without FOR UPDATE.                               *)
TakeUnlocked(s, a, row, event, fit) ==
    /\ work[s] = None
    /\ asset[a] # None
    /\ Len(timeline[a]) < MaxTimeline
    /\ work' = [work EXCEPT ![s] =
                    [a |-> a, event |-> event, fit |-> fit,
                     row |-> [row EXCEPT !.version = asset[a].version + 1]]]
    /\ UNCHANGED <<staffVars, asset, timeline>>

(* get_asset_for_update; row is what the session is going to write.           *)
Take(s, a, row, event, fit) ==
    /\ work[s] = None
    /\ asset[a] # None
    /\ ~RowLocked(a)
    /\ Len(timeline[a]) < MaxTimeline
    /\ work' = [work EXCEPT ![s] =
                    [a |-> a, event |-> event, fit |-> fit,
                     row |-> [row EXCEPT !.version = asset[a].version + 1]]]
    /\ UNCHANGED <<staffVars, asset, timeline>>

UpdateAsset(s, a, n) ==
    Take(s, a, [asset[a] EXCEPT !.serial = n], Happened("updated", None, None), TRUE)

RetireAsset(s, a) ==
    /\ InService(a)
    /\ asset[a].holder = None
    /\ Take(s, a, [asset[a] EXCEPT !.live = FALSE], Happened("retired", None, None), TRUE)

(* Variant: an assigned asset may be assigned again.                          *)
AssignAssetAgain(s, a, h) ==
    /\ asset[a] # None
    /\ Take(s, a, [asset[a] EXCEPT !.holder = h], Happened("assigned", None, h),
            h \in Location)

(* Retirement is not looked at: a retired asset may be assigned.              *)
AssignAsset(s, a, h) ==
    /\ asset[a] # None
    /\ asset[a].holder = None
    /\ Take(s, a, [asset[a] EXCEPT !.holder = h], Happened("assigned", None, h),
            h \in Location)

ReturnAsset(s, a) ==
    /\ asset[a] # None
    /\ asset[a].holder # None
    /\ Take(s, a, [asset[a] EXCEPT !.holder = None],
            Happened("returned", asset[a].holder, None), TRUE)

(* get_employee_holder                                                        *)
FindHolder(s) ==
    /\ work[s] # None
    /\ ~work[s].fit
    /\ working[work[s].event.to]
    /\ work' = [work EXCEPT ![s].fit = TRUE]
    /\ UNCHANGED <<staffVars, asset, timeline>>

CommitWork(s) ==
    LET k == work[s]
    IN  /\ k # None
        /\ k.fit
        /\ k.row.live => SerialIsFree(k.row.serial, k.a)
        /\ asset' = [asset EXCEPT ![k.a] = k.row]
        /\ timeline' = [timeline EXCEPT ![k.a] = Append(@, k.event)]
        /\ work' = [work EXCEPT ![s] = None]
        /\ UNCHANGED staffVars

Drop(s) ==
    /\ work[s] # None
    /\ work' = [work EXCEPT ![s] = None]
    /\ UNCHANGED <<staffVars, asset, timeline>>

AssetStep ==
    \/ \E a \in Asset, n \in Serial : CreateAsset(a, n)
    \/ \E s \in Session :
        \/ \E a \in Asset :
            \/ \E n \in Serial : UpdateAsset(s, a, n)
            \/ RetireAsset(s, a)
            \/ \E h \in Holder : AssignAsset(s, a, h)
            \/ ReturnAsset(s, a)
        \/ FindHolder(s) \/ CommitWork(s) \/ Drop(s)

AssetNext == AssetStep \/ (StaffNext /\ UNCHANGED <<asset, timeline, work>>)

AssetSpec == AssetInit /\ [][AssetNext]_assetVars
-----------------------------------------------------------------------------
(* Properties *)

(* The last entry of a timeline that says where the asset went, 0 if none.    *)
LastTransfer(a) ==
    LET moves == {i \in DOMAIN timeline[a] :
                    timeline[a][i].action \in {"assigned", "returned"}}
    IN  IF moves = {} THEN 0 ELSE CHOOSE i \in moves : \A j \in moves : j <= i

(* The timeline tells the whole story of an asset: every change of the row    *)
(* has its entry (the version counts them: no change is overwritten, one of   *)
(* two callers with the same version wins), the last transfer says who has it *)
(* and it is out of service exactly when a retirement is on record.           *)
TimelineTellsAsset ==
    \A a \in Asset :
        IF asset[a] = None THEN timeline[a] = <<>>
        ELSE /\ asset[a].version = Len(timeline[a])
             /\ asset[a].holder = IF LastTransfer(a) = 0 THEN None
                                  ELSE timeline[a][LastTransfer(a)].to
             /\ asset[a].live <=> \A i \in DOMAIN timeline[a] :
                                     timeline[a][i].action # "retired"

(* An asset goes from one holder to another only through a return, and each   *)
(* return names the holder the assignment before it named.                    *)
CustodyAlternates ==
    \A a \in Asset : \A i \in DOMAIN timeline[a] :
        LET earlier == {j \in 1..(i - 1) :
                            timeline[a][j].action \in {"assigned", "returned"}}
            last == timeline[a][CHOOSE j \in earlier : \A m \in earlier : m <= j]
        IN  CASE timeline[a][i].action = "assigned" ->
                    earlier # {} => last.action = "returned"
              [] timeline[a][i].action = "returned" ->
                    /\ earlier # {}
                    /\ last.action = "assigned"
                    /\ last.to = timeline[a][i].from
              [] OTHER -> TRUE
=============================================================================
