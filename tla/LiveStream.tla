----------------------------- MODULE LiveStream -----------------------------
(***************************************************************************)
(* The live notification streams (app/common/bus.py, the stream route of   *)
(* notification/router.py, useNotificationStream.ts), composed with the    *)
(* outbox.                                                                 *)
(*                                                                         *)
(* A browser page holds one stream, which is served by one process; the    *)
(* bus of that process keeps a bounded queue of frames for it and drops    *)
(* what does not fit.  A relay publishes on the bus of its own process.    *)
(* Whatever frame arrives, the page only marks its queries stale and       *)
(* fetches the inbox anew.  A broken EventSource connects again by itself, *)
(* and that fetches nothing.                                               *)
(***************************************************************************)
EXTENDS Outbox, Sequences

CONSTANTS
    Viewer,        (* the users with an open page                          *)
    Unsteady,      (* those whose connection may break                     *)
    QueueSize,     (* maxsize of a stream's queue                          *)
    FirstStreams   (* FirstStreams[u]: the process of u's first stream     *)

ASSUME StreamConstants ==
    /\ Viewer \subseteq User
    /\ Unsteady \subseteq Viewer
    /\ QueueSize \in Nat \ {0}
    /\ FirstStreams \in [Viewer -> Relay \cup {None}]
    /\ None \notin Relay

VARIABLES
    stream,   (* stream[u]: the process that serves u's stream, or None       *)
    queue,    (* queue[u]: the frames that wait in it                         *)
    shown     (* shown[u]: the notifications u's page shows                   *)

streamVars == <<stream, queue, shown>>
liveVars == <<outboxVars, streamVars>>

StreamTypeOK ==
    /\ OutboxTypeOK
    /\ stream \in [Viewer -> Relay \cup {None}]
    /\ queue \in [Viewer -> Seq(Event)]
    /\ \A u \in Viewer : Len(queue[u]) <= QueueSize
    /\ shown \in [Viewer -> SUBSET Event]

LiveInit ==
    /\ OutboxInit
    /\ stream = FirstStreams
    /\ queue = [u \in Viewer |-> <<>>]
    /\ shown = [u \in Viewer |-> {}]

Inbox(u) == {e \in Event : u \in inbox[e]}

-----------------------------------------------------------------------------
(* The page *)

(* The queries fetch: the page is loaded, or the reader opens the panel.      *)
Load(u) ==
    /\ shown' = [shown EXCEPT ![u] = Inbox(u)]
    /\ UNCHANGED <<outboxVars, stream, queue>>

(* The EventSource connects, at first or again: bus.subscribe.                *)
Connect(u, r) ==
    /\ stream[u] = None
    /\ r \in running
    /\ stream' = [stream EXCEPT ![u] = r]
    /\ UNCHANGED <<outboxVars, queue, shown>>

(* The connection breaks: bus.unsubscribe.                                    *)
Disconnect(u) ==
    /\ u \in Unsteady
    /\ stream[u] # None
    /\ stream' = [stream EXCEPT ![u] = None]
    /\ queue' = [queue EXCEPT ![u] = <<>>]
    /\ UNCHANGED <<outboxVars, shown>>

(* Variant: the page adds the notification the frame carries to its list.     *)
RefreshedByFrame(u) == shown[u] \cup {Head(queue[u])}

(* invalidateQueries: the page fetches its inbox again.                       *)
Refreshed(u) == Inbox(u)

Receive(u) ==
    /\ queue[u] # <<>>
    /\ queue' = [queue EXCEPT ![u] = Tail(@)]
    /\ shown' = [shown EXCEPT ![u] = Refreshed(u)]
    /\ UNCHANGED <<outboxVars, stream>>

-----------------------------------------------------------------------------
(* The bus *)

(* Variant: the queue has no bound.                                           *)
PutAlways(q, e) == Append(q, e)

(* put_nowait, with QueueFull suppressed                                      *)
Put(q, e) == IF Len(q) < QueueSize THEN Append(q, e) ELSE q

(* Variant: the frame goes to every stream of the process.                    *)
BroadcastAll(r, e) == {u \in Viewer : stream[u] = r}

(* The streams in process r of those who have a notification of e.            *)
Subscribers(r, e) == {u \in Viewer : stream[u] = r /\ u \in inbox[e]}

PublishLive(r, e) ==
    /\ Publish(r, e)
    /\ queue' = [u \in Viewer |-> IF u \in Subscribers(r, e)
                                  THEN Put(queue[u], e)
                                  ELSE queue[u]]
    /\ UNCHANGED <<stream, shown>>

(* The streams of a process end with it.                                      *)
CrashLive(r) ==
    /\ Crash(r)
    /\ stream' = [u \in Viewer |-> IF stream[u] = r THEN None ELSE stream[u]]
    /\ queue' = [u \in Viewer |-> IF stream[u] = r THEN <<>> ELSE queue[u]]
    /\ UNCHANGED shown

-----------------------------------------------------------------------------

(* The steps of the outbox that no stream takes part in.                      *)
Offstage ==
    \/ \E e \in Event : Record(e)
    \/ \E u \in User : SetActive(u)
    \/ \E r \in Relay : \/ Claim(r)
                        \/ Commit(r)
                        \/ Restart(r)
                        \/ PollFails(r)
                        \/ \E e \in Event : Deliver(r, e) \/ DeliveryFails(r, e)

LiveNext ==
    \/ Offstage /\ UNCHANGED streamVars
    \/ \E r \in Relay : \/ CrashLive(r)
                        \/ \E e \in Event : PublishLive(r, e)
    \/ \E u \in Viewer : \/ Load(u)
                         \/ Disconnect(u)
                         \/ Receive(u)
                         \/ \E r \in Relay : Connect(u, r)

LiveWork(r) ==
    \/ (Claim(r) \/ Commit(r) \/ Restart(r)) /\ UNCHANGED streamVars
    \/ \E e \in Event : \/ Deliver(r, e) /\ UNCHANGED streamVars
                        \/ PublishLive(r, e)

LiveSpec == LiveInit /\ [][LiveNext]_liveVars

(* Relays keep polling, and the stream route and the page take what is        *)
(* queued.  Nobody need reload a page.                                        *)
FairLiveSpec ==
    /\ LiveSpec
    /\ \A r \in Relay : WF_liveVars(LiveWork(r))
    /\ \A u \in Viewer : WF_liveVars(Receive(u))

-----------------------------------------------------------------------------
(* Properties *)

(* A stream carries notifications of its own user only (FR-007), and never    *)
(* one that is not committed, so that the fetch it causes finds it.           *)
OwnFramesOnly ==
    \A u \in Viewer : \A i \in DOMAIN queue[u] : u \in inbox[queue[u][i]]

(* A frame that is dropped because the queue is full is not missed: after any *)
(* frame the page shows the whole inbox, or the stream is broken.             *)
DroppedFramesAreSeen ==
    \A u \in Viewer :
        queue[u] # <<>> ~> (Inbox(u) \subseteq shown[u] \/ stream[u] = None)

(* "Given an open authenticated stream, when a notification for that user is  *)
(* delivered, then the browser receives it promptly" (008 spec.md:95).        *)
OpenStreamShowsInbox ==
    \A u \in Viewer, e \in Event :
        (stream[u] # None /\ u \in inbox[e])
            ~> (e \in shown[u] \/ stream[u] = None)
=============================================================================
