------------------------------- MODULE Outbox -------------------------------
(***************************************************************************)
(* The event outbox and the relays that turn its events into notification  *)
(* rows (app/modules/notification).                                        *)
(*                                                                         *)
(* A business transaction records an event in its own commit; a critical   *)
(* event is delivered in that commit too.  Every application process runs  *)
(* one relay.  A poll of a relay is one database transaction: it claims    *)
(* the oldest pending events that no other relay has locked, decides them  *)
(* one after the other, and only then commits, all of them together: the   *)
(* loop that commits per event first lets the whole batch be decided.      *)
(* What a relay has claimed and decided before its commit is todo and      *)
(* results, which nobody else sees; status, attempts and inbox are the     *)
(* committed rows.  After the commit the relay pushes the delivered events *)
(* to the open streams of its process (module LiveStream).                 *)
(*                                                                         *)
(* Events are numbered by their created_at, which is the time their        *)
(* transaction began: they may be committed in another order.  An event    *)
(* type the relay does not know cannot be recorded (record_event refuses   *)
(* it), so the branch that fails such an event is not modelled.            *)
(***************************************************************************)
EXTENDS Naturals, FiniteSets

CONSTANTS
    Event,        (* events, numbered by created_at                        *)
    Critical,     (* the critical ones (InventoryLowStock)                 *)
    User,
    Audience,     (* Audience[e]: whom e names, or whose scope covers it   *)
    Relay,        (* application processes                                 *)
    BatchSize,    (* RELAY_BATCH_SIZE                                      *)
    MaxAttempts,  (* MAX_ATTEMPTS                                          *)
    MaxFaults,    (* bound on failures and crashes, for TLC                *)
    None

ASSUME OutboxConstants ==
    /\ Event \subseteq Nat
    /\ Critical \subseteq Event
    /\ Audience \in [Event -> SUBSET User]
    /\ BatchSize \in Nat \ {0}
    /\ MaxAttempts \in Nat \ {0}
    /\ MaxFaults \in Nat

VARIABLES
    status,     (* status[e]: of the committed row, "none" before it        *)
    attempts,   (* attempts[e]: failed deliveries that were committed       *)
    inbox,      (* inbox[e]: the users with a notification of e             *)
    active,     (* the users whose account is active                        *)
    running,    (* the relays whose process is up                           *)
    todo,       (* todo[r]: claimed by r and not yet decided                *)
    results,    (* results[r][e]: r's uncommitted decision on e, or None    *)
    publish,    (* publish[r]: delivered by r and still to be pushed        *)
    faults      (* how many failures and crashes have happened              *)

outboxVars == <<status, attempts, inbox, active, running, todo, results,
                publish, faults>>

Ended == {"delivered", "failed", "skipped"}
Status == Ended \cup {"pending", "processing"}
Outcome == [status: Status, attempts: Nat, rows: SUBSET User]

ASSUME NoneIsNoOutcome == None \notin Outcome

OutboxTypeOK ==
    /\ status \in [Event -> Status \cup {"none"}]
    /\ attempts \in [Event -> Nat]
    /\ inbox \in [Event -> SUBSET User]
    /\ active \subseteq User
    /\ running \subseteq Relay
    /\ todo \in [Relay -> SUBSET Event]
    /\ results \in [Relay -> [Event -> Outcome \cup {None}]]
    /\ publish \in [Relay -> SUBSET Event]
    /\ faults \in 0..MaxFaults

Undecided == [e \in Event |-> None]

OutboxInit ==
    /\ status = [e \in Event |-> "none"]
    /\ attempts = [e \in Event |-> 0]
    /\ inbox = [e \in Event |-> {}]
    /\ active = User
    /\ running = Relay
    /\ todo = [r \in Relay |-> {}]
    /\ results = [r \in Relay |-> Undecided]
    /\ publish = [r \in Relay |-> {}]
    /\ faults = 0

Decided(r) == {e \in Event : results[r][e] # None}
Claimed(r) == todo[r] \cup Decided(r)

Fault == faults < MaxFaults /\ faults' = faults + 1

-----------------------------------------------------------------------------
(* The business transactions and the accounts *)

(* record_event, and for a critical event deliver_critical with the holders   *)
(* of its scope, in the commit of the caller.                                 *)
Record(e) ==
    /\ status[e] = "none"
    /\ IF e \in Critical
       THEN /\ status' = [status EXCEPT ![e] = "delivered"]
            /\ inbox' = [inbox EXCEPT ![e] = Audience[e] \cap active]
       ELSE /\ status' = [status EXCEPT ![e] = "pending"]
            /\ UNCHANGED inbox
    /\ UNCHANGED <<attempts, active, running, todo, results, publish, faults>>

(* An employee is deactivated or activated again, and the account with it.    *)
SetActive(u) ==
    /\ active' = IF u \in active THEN active \ {u} ELSE active \cup {u}
    /\ UNCHANGED <<status, attempts, inbox, running, todo, results, publish,
                   faults>>

-----------------------------------------------------------------------------
(* One poll of a relay *)

Idle(r) ==
    /\ r \in running
    /\ Claimed(r) = {}
    /\ publish[r] = {}

(* Variant: the rows are read without FOR UPDATE SKIP LOCKED.                 *)
ClaimableUnlocked == {e \in Event : status[e] = "pending"}

(* FOR UPDATE SKIP LOCKED: the pending rows that no relay has claimed.        *)
Claimable ==
    {e \in Event : /\ status[e] = "pending"
                   /\ \A r \in Relay : e \notin Claimed(r)}

(* ORDER BY created_at LIMIT BatchSize *)
Oldest(events) ==
    {e \in events : Cardinality({x \in events : x < e}) < BatchSize}

Claim(r) ==
    /\ Idle(r)
    /\ Claimable # {}
    /\ todo' = [todo EXCEPT ![r] = Oldest(Claimable)]
    /\ UNCHANGED <<status, attempts, inbox, active, running, results, publish,
                   faults>>

(* Variant: an event is given up only after one attempt more than the bound.  *)
RetriedLate(e) ==
    LET n == attempts[e] + 1
    IN  [status |-> IF n > MaxAttempts THEN "failed" ELSE "pending",
         attempts |-> n, rows |-> {}]

(* Variant: the event keeps the status its claim gave it.                     *)
RetriedUnreset(e) ==
    LET n == attempts[e] + 1
    IN  [status |-> IF n >= MaxAttempts THEN "failed" ELSE "processing",
         attempts |-> n, rows |-> {}]

(* mark_retry *)
Retried(e) ==
    LET n == attempts[e] + 1
    IN  [status |-> IF n >= MaxAttempts THEN "failed" ELSE "pending",
         attempts |-> n, rows |-> {}]

(* Variant: only an empty audience is skipped, not a deactivated one.         *)
DeliveredAnyway(e) ==
    [status |-> IF Audience[e] = {} THEN "skipped" ELSE "delivered",
     attempts |-> attempts[e], rows |-> Audience[e] \cap active]

(* deliver_event when nothing fails: a row for each active recipient.         *)
Delivered(e) ==
    LET rows == Audience[e] \cap active
    IN  [status |-> IF rows = {} THEN "skipped" ELSE "delivered",
         attempts |-> attempts[e], rows |-> rows]

Decide(r, e, outcome) ==
    /\ e \in todo[r]
    /\ \A x \in todo[r] : e <= x
    /\ todo' = [todo EXCEPT ![r] = @ \ {e}]
    /\ results' = [results EXCEPT ![r][e] = outcome]
    /\ UNCHANGED <<status, attempts, inbox, active, running, publish>>

Deliver(r, e) == Decide(r, e, Delivered(e)) /\ UNCHANGED faults

(* The recipients cannot be resolved or the rows not built; the transaction   *)
(* is still usable.                                                           *)
DeliveryFails(r, e) == Decide(r, e, Retried(e)) /\ Fault

(* The first commit of the loop, after the whole batch has been decided.      *)
Commit(r) ==
    /\ todo[r] = {}
    /\ Decided(r) # {}
    /\ status' = [e \in Event |-> IF e \in Decided(r) THEN results[r][e].status
                                  ELSE status[e]]
    /\ attempts' = [e \in Event |-> IF e \in Decided(r)
                                    THEN results[r][e].attempts
                                    ELSE attempts[e]]
    /\ inbox' = [e \in Event |-> IF e \in Decided(r)
                                 THEN inbox[e] \cup results[r][e].rows
                                 ELSE inbox[e]]
    /\ publish' = [publish EXCEPT
                     ![r] = {e \in Decided(r) :
                               results[r][e].status = "delivered"}]
    /\ results' = [results EXCEPT ![r] = Undecided]
    /\ UNCHANGED <<active, running, todo, faults>>

(* _publish_delivered for the next delivered event; LiveStream says where the *)
(* frames go.                                                                 *)
Publish(r, e) ==
    /\ e \in publish[r]
    /\ \A x \in publish[r] : e <= x
    /\ publish' = [publish EXCEPT ![r] = @ \ {e}]
    /\ UNCHANGED <<status, attempts, inbox, active, running, todo, results,
                   faults>>

(* The rest of the poll is lost and what was not committed rolled back.       *)
Lose(r) ==
    /\ todo' = [todo EXCEPT ![r] = {}]
    /\ results' = [results EXCEPT ![r] = Undecided]
    /\ publish' = [publish EXCEPT ![r] = {}]
    /\ UNCHANGED <<status, attempts, inbox, active>>

(* A statement fails at the database: mark_retry cannot flush either, and     *)
(* _poll_once ends in its handler.                                            *)
PollFails(r) ==
    /\ r \in running
    /\ ~Idle(r)
    /\ Fault
    /\ Lose(r)
    /\ UNCHANGED running

(* The process ends at any point, by a crash or because it is stopped.        *)
Crash(r) ==
    /\ r \in running
    /\ Fault
    /\ Lose(r)
    /\ running' = running \ {r}

(* It is started again, and _reclaim_orphans returns "processing" rows.       *)
Restart(r) ==
    /\ r \notin running
    /\ running' = running \cup {r}
    /\ status' = [e \in Event |-> IF status[e] = "processing" THEN "pending"
                                  ELSE status[e]]
    /\ UNCHANGED <<attempts, inbox, active, todo, results, publish, faults>>

OutboxNext ==
    \/ \E e \in Event : Record(e)
    \/ \E u \in User : SetActive(u)
    \/ \E r \in Relay : \/ Claim(r)
                        \/ Commit(r)
                        \/ PollFails(r)
                        \/ Crash(r)
                        \/ Restart(r)
                        \/ \E e \in Event : \/ Deliver(r, e)
                                            \/ DeliveryFails(r, e)
                                            \/ Publish(r, e)

OutboxSpec == OutboxInit /\ [][OutboxNext]_outboxVars

-----------------------------------------------------------------------------
(* Properties *)

(* The status of an event and its notifications agree whatever was retried,   *)
(* rolled back or crashed: only a delivered event has notification rows, and  *)
(* one the relay delivered has at least one, for otherwise it is skipped.     *)
DeliveredMeansNotified ==
    \A e \in Event :
        /\ inbox[e] # {} => status[e] = "delivered"
        /\ status[e] = "delivered" /\ e \notin Critical => inbox[e] # {}

(* mark_retry counts to its bound and no further: an event is failed exactly  *)
(* when MaxAttempts deliveries of it have failed.                             *)
FailedAfterLastAttempt ==
    \A e \in Event : /\ attempts[e] <= MaxAttempts
                     /\ status[e] = "failed" <=> attempts[e] = MaxAttempts

(* Exactly once: an event that was delivered, skipped or failed is never      *)
(* taken up again, by any relay, and nobody gets a notification of it later,  *)
(* for instance a recipient activated since.                                  *)
EndedStaysEnded ==
    [][\A e \in Event :
          status[e] \in Ended => /\ status'[e] = status[e]
                                 /\ inbox'[e] = inbox[e]
                                 /\ attempts'[e] = attempts[e]]_outboxVars

(* Every recorded event is delivered, skipped or failed in the end, whichever *)
(* relay dies with it claimed, as long as failures are finitely many: again   *)
(* and again, and so for good after the last record, nothing is left over.    *)
EveryEventEnds ==
    []<>(\A e \in Event : status[e] # "none" => status[e] \in Ended)
=============================================================================
