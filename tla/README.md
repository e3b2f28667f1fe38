# Verification of ZCES

ZCES is the enterprise system of the Zarand coking plant: a FastAPI and
PostgreSQL back end (`src/backend/app`) for warehouses, item requests, assets,
loans, employees and notifications, and a Next.js front end
(`src/frontend/src`). This directory holds TLA+ models of the back end's
protocols, the TLC configurations that check them, and proofs checked by TLAPS.

## The system

Every HTTP request runs one synchronous service function in one database
session (`core/database.py:52`): READ COMMITTED, `expire_on_commit=False`, one
`commit()` at the end, and a `close()` without commit on every error. Three
facts about this shape everything below.

* A row that was read is not read again: what a handler compares (versions,
  statuses, `deleted_at`) is what the row held when it was first loaded, unless
  the read was a `SELECT ... FOR UPDATE` with `populate_existing`.
* Versions are plain columns compared in Python. The `UPDATE` writes literal
  values, so of two sessions that read the same version both succeed; the second
  waits for the first one's commit and then overwrites it.
* A row lock, and a row inserted but not committed, block other sessions until
  the transaction ends. PostgreSQL aborts one session of a cycle of waiters.

### Components

| Component | State | Operations | Interacts with | What makes it correct |
|---|---|---|---|---|
| Stock ledger (`warehouse/service.py`, `contracts.py`) | placements, movements, alerts | receive, issue, adjust, `apply_fulfillment_issue` | catalogue (liveness, thresholds), requests, outbox, audit | no lost update, the ledger explains the stock, no overdraw, one active alert per placement |
| Catalogue and places (`warehouse/service.py`) | items, warehouses, shelves | create, update, retire | stock (blocking, alerts) | a retired place is empty, a retired item has no open alert |
| Item requests (`warehouse/request_service.py`) | requests, lines | create, approve, reject, fulfil | stock ledger, audit, outbox | one decision, one fulfilment, all or nothing |
| Assets (`warehouse/asset_service.py`) | asset rows, custody history | register, update, assign, return, retire | employees | one holder at a time, the history replays to the row |
| Loans (`loan/service.py`) | policies, requests | submit, activate, settle, cancel; policy create, update, retire | employees | count limits and caps hold under concurrent submissions; a request is ended once |
| Outbox and relay (`notification/`) | events, notifications | record, claim, deliver, retry, reclaim | every module that records events; the bus | every event is delivered at most once to a user and eventually; one bad event does not stop the rest |
| Bus and streams (`common/bus.py`, `notification/router.py`) | per-stream queues | subscribe, publish, receive | relay | a delivered notification is pushed, or found by the next query |
| Sessions (`user/auth_service.py`) | refresh-token families | sign in, rotate, sign out, revoke all | employees, the front end's cookie refresh | a dead family stays dead; a revocation reaches every token it finds |
| Employees (`user/employee_service.py`) | employees, users | create, update, (de)activate, set password | sessions, assets, loans | the account follows the employee; nobody is out of service with the revocation missing |
| Authorisation (`common/scope.py`, the role and scope routes) | role grants, scopes | `can`, `allowed_units`; assign, revoke | all | list filters, single-target checks and recipients agree |
| Settings (`settings/service.py`) | key, value, version | read, update | loans | the audit trail tells the value |
| Audit (`audit/service.py`) | entries | append | all | an entry commits with what it describes |
| Calendar (`common/jalali.py`) | none | conversions | loans | the year of a date |
| Administration and seed (`user/router.py`, `seeds/seed_dev.py`) | permissions, roles, assignments, units | create role, assign, revoke; seed | authorisation, audit | a seed adds what is missing and nothing else; no change without an entry |
| Reports, application shell, front end | none of their own | queries, forms, wiring | | |

### What is hard here

Handlers of overlapping requests interleave between any two SQL statements; the
hard behaviours are the check-then-act reads, the row locks taken one after
another, failures after some lines of several were done, the two-process relay,
and overlapping revocation and rotation of tokens. `PROJECT.json` lists each
hazard at the line where it bites with the properties that would catch it.

## Modules

| Module | What it is |
|---|---|
| `StockBook` | what the warehouse promises about stock: balances and an append-only journal, moved by atomic postings |
| `StockLedger` | placements, movements, alerts and retirements at the level of transactions: unlocked reads, row locks, savepoint insert, flushed drafts, commit or rollback |
| `StockLedger_proofs` | theorems about `StockLedger` for any constants |
| `ItemRequests_proofs` | theorems about `ItemRequests` for any constants |
| `RequestFlow` | the documented life cycle of an item request |
| `ItemRequests` | extends `StockLedger`: requests, decisions and fulfilments by the same sessions |
| `Outbox` | events, the relays that deliver them and the accounts of their recipients |
| `LiveStream` | extends `Outbox`: the bus, the streams and the pages that show an inbox |
| `LiveStream_proofs` | theorems about `Outbox` and `LiveStream` for any constants |
| `Catalogue` | items, warehouses, shelves and settings as versioned rows with unique names and audit entries |
| `Staff` | what the other components rely on about employees: hired, moved, switched on and off |
| `FamilyLife` | what refresh-token families promise: opened once, dead for good |
| `Accounts` | extends `Staff`: employees, their accounts, sign-ins, refresh tokens and the revocations |
| `Assets` | extends `Staff`: assets, custody and timelines under the row lock |
| `Grants` | extends `Staff`: roles and scopes, and every place that decides who may do what |
| `Administration` | roles, grants and revocations with their deferred audit entries, beside the seed |
| `Loans` | extends `Staff`: policies, submissions under the policy's lock, transitions |
| `Catalogue_proofs`, `Accounts_proofs`, `Loans_proofs` | theorems about `Catalogue`, `Accounts` and `Loans` for any constants |
| `Authorisation_proofs` | theorems about `Grants` and `Administration` for any constants |
| `People_proofs` | theorems about `Assets`, and about `Accounts`, `Assets`, `Grants` and `Administration` together, for any constants |
| `Calendar` | the Jalali arithmetic of `common/jalali.py` against a clock |
| `MCStockLedger`, `MCItemRequests`, `MCLiveStream`, `MCWarehouse`, `MCPeople`, `MCLoans` | instances for TLC |

`Assets`, `Grants` and `Loans` are written on `Staff`, the abstract specification
that `Accounts` implements (`ImplementsStaff`), so what they assume of employees
is what the user module does. `MCPeople` composes `Accounts`, `Assets` and
`Grants` over the same employees: there the detailed module replaces the
abstract one; `Administration` is beside them. `MCLoans` puts `Loans` beside
`Calendar`, `MCWarehouse` the stock ledger beside `Catalogue`.

### StockLedger

A *slot* is a (shelf, item) pair, the unique key of a placement. The committed
tables are `placed`, `quantity`, `movements`, `alerts`; the catalogue is
`minQuantity`, `itemLive`, `shelfState`, `warehouseLive`. A session's transaction
is `tx[s]` (its operation, lines, program counter and what it has read),
`draft[s]` (what it has flushed and nobody else sees) and the row locks it holds.

One transaction is several steps, split wherever another session's commit can
come in between:

| Step | Code |
|---|---|
| `BeginReceive`, `BeginIssue`, `BeginAdjust`, `BeginFulfill` | the unlocked reads and checks of `receive_stock`, `_load_stock_bundle`, `fulfill_request` |
| `LookupHit`, `LookupMiss`, `InsertRow`, `InsertConflict` | `lock_placement_for_stock` and the savepoint of `receive_stock` |
| `FulfillLine`, `RefuseLine`, `LockRow` | the per-line checks of `fulfill_request`, `lock_placement` |
| `Refuse`, `Post` | the comparison with the stock; the new quantity, the movement and `_evaluate_alert`, flushed |
| `Commit` | `session.commit()` |
| `Crash`, `DeadlockVictim` | anything that closes the session without commit |
| `BeginRetire...`, `CollectAlerts`, `CommitRetirement` | the stock count, `_resolve_alerts_for_retirement`, the commit |
| `BeginCreateShelf`, `CommitCreateShelf`, `DuplicateShelf` | `create_shelf` with its unique index |
| `UpdateMinQuantity` | `update_item` with a new threshold |

Details that are easy to miss and are in the model: `receive_stock` does not
look at the warehouse's `deleted_at`; a fulfilment looks neither at the item's
nor at the warehouse's, and a shelf it loaded for an earlier line is not read
again; an amount below half a thousandth passes validation and moves zero; a
retirement of a warehouse ignores stock on shelves that are already retired;
the threshold used is the one read at the start.

Left out: authorisation (callers are those `can()` lets through), names, codes
and versions of catalogue rows, timestamps, audit rows and outbox events (each
is written in the same transaction as the movement it describes, so it commits
or rolls back with it), and the row locks of alerts (an alert is updated by the
last statement of its transaction that can wait, so waiting for it only delays
the commit).

### ItemRequests

Extends `StockLedger` by `request` (the rows), `trail` (the committed audit
actions about each request) and `held[s]` (what session `s` has read of a
request). A decision is two steps, the read with its checks and the commit,
because nothing locks the row in between. A fulfilment begins by reading the
request, runs as a `StockLedger` transaction over its lines, and commits the
stock and the request together (`CommitFulfill`). A rollback in any line drops
what was held. A request whose version or status is not what the caller needs is
refused without effect and so is no step.

### Outbox and LiveStream

`status`, `attempts` and `inbox` (the users with a notification row) are the
committed tables. A poll of relay `r` is one transaction: `Claim` takes the
oldest pending events nobody has locked (`claim_pending`), `Deliver` or
`DeliveryFails` decides one of them (`deliver_event`), and `Commit` is the first
commit of the loop in `_poll_once`. That loop iterates over a list that
`deliver_claimed_batch` has already filled, so the first commit takes the whole
batch, which is why `Commit` writes everything decided; the later commits have
nothing left to write. `PollFails` is an error that leaves the transaction
unusable (`mark_retry` cannot flush either) and rolls the batch back, `Crash` the
end of the process, `Restart` its start with `_reclaim_orphans`. A critical event
is delivered by `Record` itself.

`LiveStream` adds what happens after the commit: `PublishLive` puts a frame in the
queue of every stream of the recipients in the relay's own process, unless the
queue is full; `Receive` is a frame arriving at the page, which fetches its
inbox; `Connect` is an `EventSource` connecting, at first or again, which fetches
nothing. Events are numbered by `created_at`; their commits come in any order.

Left out: the read marks, payloads, and event types the relay does not know
(`record_event` refuses them). The steps between `call_soon_threadsafe` and the
fan-out are one with the publication: both are of one process, in order.

### Catalogue

`row[r]` is a committed row (its name, the key the unique index keeps apart,
one value for the other columns, whether it is in service, its version),
`book[r]` the audit entries about it, `pen[s]` the change a session has in hand.
`BeginUpdate` and `BeginRetire` are the unlocked load, the version check and the
changes in memory; `WriteRow` is the flush, which writes the changed columns
only (`Merged`), and the commit. Between them another session may do the same
from the same version: both are let through, and the version is then smaller
than the number of changes. `AuditTellsRow` says exactly how much survives:
while the version counts every change, entries chain, the last one tells the row
and an item's key is the one of its name. Retiring again writes an entry and
nothing else (`RetireAgain`). Settings are seeded, have a value only, and are
never retired. That a retirement may be refused because of stock is in
`StockLedger`; here it is a `PutDown`.

### Staff, Accounts and FamilyLife

`place` and `working` are the employee's workplace and whether `deleted_at` is
unset; `account` is `user.is_active`, `owner` and `chain` are the token families
and the statuses of their members, `trail` the committed audit entries, and
`act[s]` what session `s` has in hand.

| Step | Code |
|---|---|
| `HireEmployee` | `create_employee_with_user`, one insert of both rows |
| `BeginMove`, `CommitMove` | `update_employee` with another workplace |
| `BeginStatus`, `LockEmployee`, `CommitReactivate`, `ListFamilies` | `_set_employee_active`: the unlocked checks; the autoflush of the employee's UPDATE by the query for the account; then the reactivation's commit or the start of `revoke_all_for_user` |
| `SetPassword` | `set_user_password` up to the list of families |
| `BeginSignIn`, `IssueFamily` | `authenticate`, `issue_family` and its commit |
| `BeginRenew`, `CheckUser`, `CommitRenew` | `rotate`: the token's status, the account's, the insert and the UPDATE |
| `Reuse`, `Logout`, `ReadFamily`, `CommitRevoke` | `_revoke_family` and `revoke_all_for_user`, a family a statement |
| `EndRequest` | the last audit entry: committed by a deactivation or a new password, lost by a sign-in |
| `Abandon` | a refusal, an integrity error, a crash |

`AccountFollowsEmployee` holds for a reason nobody wrote down: nothing locks the
employee, but the query for the account flushes the employee's UPDATE first, so
the account is read under the lock of the employee's row. Without that autoflush
(the mutant `LockEmployeeNot`) a deactivation and a reactivation leave an active
account to an employee who is out of service.

What the families do *not* promise is as important. Two renewals with one token
both succeed, and a renewal in flight survives a revocation and may write
`rotated` over `revoked`. So neither "one active member" nor "no token after a
deactivation" is stated; what holds is that a revocation leaves none active of
the tokens that were there when it began (`RevocationReachesWhatItFound`), that
token rows and audit entries agree (`RevocationsAndRenewalsAudited`), and that a
family without an active token and without a renewal under way stays so
(`ImplementsFamilyLife`).

Left out: row versions (the comparisons are on unlocked rows and keep no two
requests apart), passwords, expiry and access tokens (they decide refusals),
`LOGIN_FAILED` entries (written by refusals), descriptive columns.

### Assets

Every change takes the row FOR UPDATE (`Take`) and reads the rest under the
lock; `FindHolder` is `get_employee_holder`, read without a lock, so the employee
may be out of service when `CommitWork` writes. Neither `assign_asset` nor
`return_asset` looks at `deleted_at`, so a retired asset can be assigned: the
properties are those that survive it. `timeline` is `asset_history`.

### Grants

`roles` and `scope` are the committed grants. `Can` and `AllowedUnits` translate
`common/scope.py`; `Listed` is the filter of warehouses, assets, requests and
loans; `OpensEmployee`, `ListsComplex` and `MayUsePolicy` are the places that
decide for themselves, `Recipients` is the query for the recipients of an event.
`ScopeRulesAgree` compares them for every set of grants within the bound, with
accounts switched on and off by `Accounts`. Two of them are narrower than the
rest: `get_employee_in_scope` looks for a UUID among strings, so a caller
without a global scope lists employees and cannot open one, and loan policies
are checked with their workplace alone, so a holder of the complex lists them
and cannot open them. A scope assigned twice is two rows; revoking one leaves
the other.

### Administration

`there` is the set of committed rows (of permissions, roles, assignments, units,
settings), `diary` the audit entries of the routes, `lost` the number of those
that could not be written, `units` the sum of the `records_created` of the
seed's entries, `desk[s]` a transaction.

| Step | Code |
|---|---|
| `BeginAdd`, `BeginRemove` | `create_role`, `assign_role`, `assign_scope`; `revoke_role`, `revoke_scope` up to their checks |
| `FlushWrite`, `Record`, `CommitWrite` | the flush; `write_audit`, which commits in a session of its own or only logs; the commit |
| `BeginSeed`, `Look`, `Insert`, `CommitSeed` | `run_seed`: a look and perhaps an insert for each base row, one commit with the entry `ORG_SEEDED` |
| `Refuse`, `Die` | the unique index, an end of the process |

An entry is on record before the change it tells of, so a change that then fails
leaves an entry about nothing; the other order is excluded
(`ChangesAreOnRecord`). Assignments of scopes have no unique index: two
overlapping seeds that both miss one both add it. What keeps a repeated seed
from adding them is its own look (`SeedCompletes`). A grant that was revoked comes back with the next seed.
`Grants` says what the rows decide, and changes them in one step each.

### Loans and Calendar

`policy`, `loan` and `diary` (audit actions) are committed; `ask[s]`, `turn[s]`
and `edit[s]` are a submission, a transition and a policy change in hand.
`BeginSubmit` reads the requester and the year, `LockPolicy` is `_policy_for`
with the counts, `SumActive` the cap, `CommitAsk` the insert and commit;
`RefuseAsk` is `_refuse` with any of its five rules. Counting already with the
lock is the same as counting after it: counts only grow, and a submission for
the same policy cannot commit in between. Policy changes and transitions are
two steps, the unlocked read with its checks and the write of the changed
columns with literal values. `From` and `To` are the transition table.

`Calendar` translates the arithmetic of `jalali.py`, `TehranDate` the offset. The
reference is not another formula for the conversion but the successor of a date:
months of 31, 30 and 29 days and the leap years of the 33-year cycle, which is
the calendar from 1210 to 1634.

## Runs

| Run | Instance | Question | Result |
|---|---|---|---|
| `stock_ledger` | 2 sessions, 1 shelf not yet created, 1 item (the spec without the deadlock that needs two placements), quantities 0..1, thresholds 0 and 1, 3 movements; or 2 editors, 2 items and a setting, names that meet in lower case, 4 audit entries | type, balance, drafts under lock, one alert, alert follows movement; all operations and retirements; what the audit trail tells of an edited row, retired for good | holds, 1.4 million states |
| `item_requests` | 2 sessions, 2 requests, 1 shelf, 2 items, lines in both orders, quantities 0..2, 3 movements per placement | versions and statuses, approval before fulfilment, whole fulfilments, the refinement of `StockBook`, deadlocks, termination | holds, 230 thousand states |
| `requests_alone` | the same with 1 session | the refinement of `RequestFlow` | holds |
| `retired_place` | 2 sessions, 1 shelf | FR-008: a retired shelf or warehouse is empty | violated |
| `retired_item` | 2 sessions, 1 shelf | FR-017: a retired item has no open alert | violated |
| `request_decided_once` | 2 sessions, 1 request | concurrent decisions have one winner | violated |
| `request_fulfilled_once` | 2 sessions, 1 request | FR-011: a request is fulfilled once | violated |
| `live_stream` | 2 processes, 3 events (the second critical, the first for one user only), 2 users, 1 page with a queue of 1, batches of 2, 2 attempts, 2 failures or crashes | type and queue bound; status and rows agree; attempts; frames; an ended event stays ended; every event ends; dropped frames are seen | holds, 390 thousand states |
| `critical_not_pushed` | 1 process, 1 steady stream, no failures | FR-007 of 008: what is delivered while a stream is open reaches it | violated |
| `people` | 2 sessions, 2 employees who are one person, 2 workplaces, 2 families, 3 tokens; 2 assets, 2 serials, 1 location, 4 history rows; 2 roles that overlap, 2 operations, 2 scope assignments, 2 complexes; a seed of a role, its assignment, a scope and a unit on new, older and current databases, another role, 2 audit entries, 1 lost | accounts and tokens, their refinements, custody, agreement of the scope checks, thorough and repeatable seeds, changes on record | holds, 970 thousand states |
| `sign_in_audited` | 1 session, 1 employee | a sign-in is audited | violated |
| `loans` | 2 sessions, 1 employee, 2 workplaces, 2 years, 2 requests, 2 policies; a clock around two centuries' ends and over 2023 to 2030, at both sides of midnight in Tehran | one policy, limits at each submission, transitions, exposure, termination; the calendar | holds, 380 thousand states |

The bounds: the races are between two sessions over one row, or over two rows in
opposite orders, so two sessions, one or two placements and two requests show
them; a third session only repeats one of the first two. Quantities 0..1 contain
empty, below threshold, at threshold and overflow of the column (a second
receipt); 0..2 lets two fulfilments of one unit both succeed, which is what the
one-winner claims are about. `MaxMoves` is checked when a request begins and
bounds the journal; `MaxLines` is 2, the fewest with which a fulfilment can
deadlock or stop half way. Shelves start absent in `stock_ledger` so that creation races
are included. In `live_stream` two relays suffice for every conflict over a claim;
two events that are not critical make a batch that can be half decided and a queue
that overflows; two failures exhaust two attempts, or spend one attempt and crash.

In `people` a behaviour is about staffing, tokens, assets, grants or the seed, and in `loans`
about policy changes or transitions: the subjects share only employees, who are
switched on and off in each, so their product adds no new interleaving. Two
records of one person make the national id collide when one is reactivated. Two
families and three tokens contain two renewals of one token, a reuse during a
renewal, and a revocation over two families with a renewal between its reads.
Four history rows are a registration and custody there and back, or with a
retirement in between. Two scopes are what two levels can contradict each other
with. Two workplaces and years make two policies whose locks do not exclude each
other; two requests fill a yearly count, pass a cap when both are activated, and
be overwritten by one another. In `stock_ledger` stock and catalogue take turns
likewise; four entries are a creation, two overlapping changes and one more.

The seed wants one
row of each kind that differs: unique and never revoked, unique and revocable,
without index, counted. Two sessions can each have half of them done; two
entries are a revocation twice, or a grant and a revocation. An entry is lost
only while nobody seeds, since a seed does not look at entries.

Deadlock is not checked: once the movements are used up, or everything is
retired, the model has nothing left to do.

The six violated runs are disagreements between the documents and the code, and
`PROJECT.json` quotes both sides under `findings`:

* `retired_place`: a receipt reads the shelf as active, the shelf's retirement
  counts no stock and commits, the receipt commits. (A retired warehouse needs no
  overlap: its shelves go on receiving.)
* `retired_item`: a movement reads the item as live, the retirement resolves the
  alerts, the movement commits a new one.
* `request_decided_once`: an approval and a rejection both read `pending`,
  version 1, and both commit. No lock is taken on the request row.
* `request_fulfilled_once`: two fulfilments both read `approved`, version 2; the
  placement's lock makes them take turns, and both take the stock.
* `critical_not_pushed`: a low-stock alert is written and marked delivered in the
  business transaction; only the relay publishes, and it never sees the event.
  With no critical event the same instance satisfies the property. So the page
  shows the alert at the next frame of another event or the next load.
* `sign_in_audited`: `issue_family` commits, the audit entry written after it is
  rolled back by the session's close.

Further remarks in the sources do not match the code and have no run of their
own. `relay.py:8` says each event "is delivered and committed on its own so one
failure never blocks the rest": a failure at the database rolls back every event
of the batch (`PollFails`), without counting an attempt, so an event that always
fails that way would block its batch at every poll. `EveryEventEnds` holds since
the model's failures are finitely many. And `useNotificationStream.ts:11` says
that what was missed while disconnected "is recovered by the refetch"; a reconnect
triggers none (`Connect`), and the queries have no interval of their own.
Concurrent transitions of a loan request do not "resolve to exactly one winner"
(`specs/007` FR-010): two that read the same version both commit, as for item
requests, and the version may go back. `specs/004` says `name_norm` is maintained
as the lower case of the name: two changes of one version, one of them of
capitals only, leave the key of one and the name of the other (`AuditTellsRow`
excludes it only while versions count every change). `FAMILY_REVOKED` says
"user_deactivated" after a new password too, and a sign-out writes no entry of
its own. The lifetime count holds per workplace and year, not over several:
their submissions lock different policies. The entries that follow
`revoke_all_for_user` are in a transaction of their own and are lost by a crash
in between.

The type invariants of `Accounts`, `Assets` and `Administration` are checked
together as `PeopleTypeOK`; that of `ItemRequests` is proved and in no run.

`requests_alone` shows the other half: the guards themselves are right, and
without overlap the code implements `RequestFlow`.

### Fairness

`FairFlowSpec` assumes weak fairness of a session's own steps: a worker thread
that has begun a request goes on with it, and PostgreSQL resolves a deadlock
after `deadlock_timeout`. It assumes strong fairness of taking a lock: the lock
may be free and taken again many times, and PostgreSQL queues its waiters. No new
request, crash or abandonment is assumed to happen.

`LoansSpec` (like `FairLoanSpec`) assumes strong fairness of a submission's own
steps, for the same two reasons; no submission has to begin, and nothing makes
transitions or policy changes end.

`FairLiveSpec` assumes weak fairness of each relay's own steps (it polls every
`RELAY_POLL_SECONDS`, and a process that ended is started again) and of `Receive`
(the stream route and the page take what is queued). Recording, connecting and
loading a page are not assumed. Failures are bounded by `MaxFaults`, that is,
finitely many; that is an assumption of the liveness properties.

## Proofs

`StockLedger_proofs` proves, for any finite or infinite sets of sessions, shelves
and items and any bounds that satisfy `LedgerConstants`:

* `TypeCorrect`: `Spec => []TypeOK`
* `DraftsAreLocked`: `Spec => []LockedDrafts`
* `LedgerAlwaysBalanced`: `Spec => []LedgerBalanced`
* `AtMostOneActiveAlert`: `Spec => []OneActiveAlert`
* `LedgerImplementsBook`: `Spec => ImplementsBook`
* `MovementsNeverDeadlock`: `Spec => []OnlyFulfillmentsDeadlock`
* `AlertsFollow`: `Spec => AlertFollowsMovement`

None of these is inductive alone. `TypeInv` adds to `TypeOK` what a program
counter says about the rest of the record (a session in the middle of a stock
operation has a current line, only stock operations hold drafts). `HoldsRow` says
that a session past its `FOR UPDATE` holds that row, and every row it has a draft
of. With it `LockedDrafts` is inductive: only the holder of `lock[x]` writes
`quantity[x]`, so a draft computed from it cannot go stale. The balance follows:
`Commit` appends a movement whose delta is the difference between the draft's
result and the committed quantity. The alert proof needs that a draft that raises
an alert was decided when no alert was active, and that nobody else raises one
while the row is locked; a retirement running meanwhile only closes alerts. For
the refinement each commit maps to one posting of `StockBook` over the drafted
slots and every other step to a stutter; it needs the sign of each kind of draft.
Deadlocks need only `HoldsInv`: a request that asks for a row while it holds one
has further lines, and only a fulfilment has. That alerts follow movements is
`FollowInv`: what a draft decided about alerts stays right until it commits,
because alerts of a placement are raised under its row lock and closed only by
that lock's holder or by a retirement. A retirement takes the placement out of
service, and it never comes back: a shelf that a request has come to has been
created, and creation is the only way into service.

`ItemRequests_proofs` builds on it, for any requests and any orders that satisfy
`RequestConstants`:

* `RequestsKeepLedger`: `RequestSpec => Spec`. Every step of the composition is a
  step of the ledger or none, so everything above holds with requests on top.
* `RequestTypeCorrect`: `RequestSpec => []RequestTypeOK`
* `VersionsTellStatus`: `RequestSpec => []VersionTellsStatus`
* `FulfilledOnlyAfterApproval`: `RequestSpec => []FulfilledAfterApproval`
* `FulfillmentsAreWhole`: `RequestSpec => FulfillmentIsWhole`
* `FlowWhenAlone`: `OnlyOneSession /\ RequestSpec => ImplementsFlow`

A session's knowledge of a request may be stale when it writes, so the version
proofs rest on the part of it that cannot become false (`HeldVersions`): a
decision was guarded by version 1 and writes 2, a fulfilment by 2 and writes 3,
and an approval once in the trail stays there. For whole fulfilments `LineInv`
says that a session's drafts are those of the lines it has passed, each taking
what its line says, and `CarryInv` that the lines of a fulfilment are those of
the request it holds; the commit then takes one slot per line, and the slots are
distinct because the items are. With one session what was read is still true at
the write (`HeldIsFresh`), which gives the refinement.

`LiveStream_proofs` proves, for any events, users, relays, audiences and bounds
that satisfy `OutboxConstants` and `StreamConstants`:

* `LiveKeepsOutbox`: `LiveSpec => OutboxSpec`; the streams only watch.
* `NotifiedIffDelivered`: `LiveSpec => []DeliveredMeansNotified`
* `RetriesAreBounded`: `LiveSpec => []FailedAfterLastAttempt`
* `ClaimsAreExclusive`: `LiveSpec => []ClaimsHold`
* `EndedForGood`: `LiveSpec => EndedStaysEnded`
* `StreamTypeCorrect`: `LiveSpec => []StreamTypeOK`
* `FramesAreOwn`: `LiveSpec => []OwnFramesOnly`

A commit overwrites rows with values decided earlier, so the properties need two
facts about the time in between: what a relay has claimed is still pending and
claimed by nobody else (`ClaimsHold`), and what it decided fits the committed row,
its attempts included (`DecisionsFit`). `NeverProcessing` says that no committed
row is ever `processing`: the reclaim at the start of a relay, written for such
rows, never finds one. Frames stay committed notifications because the inbox only
grows (`InboxGrows`).

`Catalogue_proofs` proves, for any rows, names, values, editors and bounds that
satisfy `CatalogueConstants`:

* `CatalogueTypeCorrect`: `CatalogueSpec => []CatalogueTypeOK`
* `AuditTells`: `CatalogueSpec => []AuditTellsRow`
* `RetiredForGood`: `CatalogueSpec => RetiredStaysRetired`

`CatalogueInv` counts. The version of a row never exceeds the number of its
recorded changes plus one, and while it equals that, the entries chain and end in
the row. A change in hand that still counts all changes was loaded from the row
as it is (`PenSound`); once another change commits in between, it counts one too
few, and so does the row after it (`OvertakenSound`). So the invariant needs no
lock, and there is none.

`Accounts_proofs` proves, for any employees who may be one person, workplaces,
sessions and bounds that satisfy `AccountConstants`:

* `AccountTypeCorrect`: `AccountSpec => []AccountTypeOK`
* `AccountsFollow`: `AccountSpec => []AccountFollowsEmployee`
* `TokensAreOnRecord`: `AccountSpec => []RevocationsAndRenewalsAudited`
* `RevocationsReach`: `AccountSpec => RevocationReachesWhatItFound`
* `AccountsImplementStaff`: `AccountSpec => ImplementsStaff`
* `AccountsImplementFamilyLife`: `AccountSpec => ImplementsFamilyLife`

`AccountInv` has three parts beside the types. `Books`: families are opened in
their order, an entry about a family names its owner, and the two invariants
above. `HandsSound`: what each request has in hand is true of the rows now, in
particular every token a revocation found is revoked, or read, or in a family it
has still to read. `LocksHeldOnce`: one status change has the row of an employee,
which is what makes account and employee change together. For `FamilyLife` a
family is live while it has an active token or a renewal under way; each step
leaves that as it is, opens a family or ends it (`LifeKept`).

`Loans_proofs` proves, for any employees, workplaces, years, terms, requests and
sessions that satisfy `LoanConstants`:

* `LoanTypeCorrect`: `LoanSpec => []LoanTypeOK`
* `PoliciesStayApart`: `LoanSpec => []OnePolicyInForce`
* `SubmissionsStayWithinLimits`: `LoanSpec => SubmissionWithinLimits`
* `ExposureStaysBounded`: `LoanSpec => []ExposureBounded`
* `VersionTells`: `LoanSpec => []VersionTellsLoanStatus`
* `SettlementsAreRemembered`: `LoanSpec => []SettlementIsRemembered`

`LoanInv` has a part for each. `PolicyInv`: policies in force are apart, and their
terms are ones somebody may write. `AskInv`: a submission that has its policy has
the lock of it alone, so the policy is in force, and what it counted is still the
count. `BoundInv`: the amount of every request and the count of every employee,
workplace and year are below a limit that some terms have; exposure is their
product, proved with cardinalities (`Units`) since a sum would need an induction.
`TurnInv`: a transition was let through by the status its version stands for, so
what it writes fits its version whatever was written meanwhile, and the diary,
which only grows, has what it has.

`Authorisation_proofs` proves, for any employees, roles, units and any number of
assignments, `ChecksAgree`: `GrantSpec => []ScopeRulesAgree`. `GrantSpec` is
`Grants` on top of `Staff`. The agreement needs of the state only that every
assignment is well formed (`GrantTypeOK`), which `assign_scope` checks. And for
any rows, clerks, releases and any order of the seed that satisfy
`AdministrationConstants`:

* `AdministrationTypeCorrect`: `AdministrationSpec => []AdministrationTypeOK`
* `ChangesStayOnRecord`: `AdministrationSpec => ChangesAreOnRecord`
* `SeedsComplete`: `AdministrationSpec => SeedCompletes`

`AdministrationInv` says of each transaction what its program counter promises
(`JobsInv`: a change whose entry is written or was lost, a seed that has seen to
every row up to where it is), that no two transactions insert or delete the same
row (`IdsInv`), and that no two rows say the same, uncommitted ones included, but
assignments of scopes, which have no unique index (`RowsInv`).

`People_proofs` proves, for any assets, serials, sessions, employees and places that
satisfy `AssetConstants`:

* `AssetTypeCorrect`: `AssetSpec => []AssetTypeOK`
* `TimelineIsTrue`: `AssetSpec => []TimelineTellsAsset`
* `CustodyIsKept`: `AssetSpec => []CustodyAlternates`

What makes them inductive is the row lock: `OneAtATime` says that no two sessions
have the same asset in hand, and `WorkFollows` that what a session is going to
write still follows from the committed row, because nobody can have changed it
since. `EntryKeepsTimeline` is the step on one timeline: a row and its history that
tell the same story (`Tells`, `CanGoOn`) do so after a change that follows and its
entry. The proof does not use the uniqueness of serials or what is known about the
holder.

It then puts four components together. `TogetherSpec` lets `Accounts`, `Assets`,
`Grants` and `Administration` take their steps in any order:

* `PartsGoOnTogether`: `TogetherSpec` implies the specification of each part.
* `TogetherSound`: `TogetherSpec => [](TimelineTellsAsset /\ CustodyAlternates /\ ScopeRulesAgree)`
* `PeopleTypeCorrect`: `PeopleSpec => []PeopleTypeOK`

Assets and grants were specified over `Staff`, which changes one employee in one
step; here that is discharged by `AccountsImplementStaff`. `PeopleSpec`, which TLC
checks, is `TogetherSpec` with bounds, so what is proved of the parts holds there.

The assumptions are the types and signs of the constants, that `None` (`Blank`,
`Nothing`) is none of the values it stands in for, that there are terms a policy
may have, that the seed has rows in an order, and that roles, grants and units are
different rows.

Model-checked only:

* the liveness properties `EverySessionEnds`, `EveryEventEnds`,
  `DroppedFramesAreSeen` and `EverySubmissionEnds`, since fairness is out of the
  prover's reach;
* `JalaliFollowsClock`: `Calendar` has its arithmetic compared day by day with a
  clock; a proof for every day would be an induction over data.

## Plan

All components with a protocol are modelled, and every safety invariant, action
property and refinement that a run checks is a theorem, but for the calendar.
What is left are further compositions: the requests of the user module below
`Loans`, as they are below `Assets`, and `Catalogue` beside `StockLedger`, whose
retirements are the same handlers.

## Not modelled

* Reports, dashboard, spreadsheets: queries and layout without state.
* The password checks of the seed, configuration, logging, tracing, the error
  envelope, masking, cryptography, and the user interface: wiring, input and
  output. The front end's cookie refresh is covered as a caller: `Accounts` lets
  any token be presented at any moment, which includes two tabs presenting one.
* The read marks of notifications, which only their owner sets: single rows
  without a protocol.
* List and page queries, the shapes of requests and responses (`schemas.py`, the
  read models of `contracts.py`) and the console pages of the front end: a read
  of one statement, or data without transitions. Together with the tool scripts
  they are most of the source lines that no definition is mapped to.
* The tool scripts under `.opencode`, which are not part of the system.
* Quantities inside audit entries: `request_service.py:321` computes the quantity
  before a fulfilment from a placement that is already lowered. It is wrong in
  every fulfilment, so a test finds it.
