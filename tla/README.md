# Verification of patima-ss-management

TLA+ models of Patima Naver SS, a profit management application for Naver Smart
Stores, with TLC configurations that check them on small instances and TLAPS
proofs that hold for every instance. Paths are relative to `src/`; `B/` stands
for `apps/backend/src/`, `F/` for `apps/frontend/`.

## 1. The system

A Next.js frontend (`apps/frontend`) forwards requests to one backend process
(`apps/backend`), which keeps all its data in memory as one `DatabaseShape`
snapshot and persists it to PostgreSQL (one row per record) or to a JSON file.
Long work is done by *operations*, rows of a durable queue that a worker in the
same process leases and runs. The most important of them, `ORDER_SYNC`, collects
orders from the Naver Commerce API.

| Component | State | Operations | Correct when | Model |
|---|---|---|---|---|
| Operation queue (`B/operation.service.ts`, `B/operation-worker.service.ts`, lease queries of `B/database.service.ts`) | operation rows, advisory locks, heartbeats in flight | enqueue, cleanup, acquire, lock, run, heartbeat, progress, chunk and final commit, requeue, fail, release | one run per store and type; late runs cannot write; attempts are bounded; a finished row is final; every operation ends; a store's syncs are saved in order | `OperationQueue` |
| Order sync batches (`B/order-sync-batch.service.ts`, commits of `B/operation.service.ts`) | batches, items, states of stores | enqueue, retry-failed, retry of an operation, acknowledge a gap, derive the status | only failures are retried; over means over and stays so; the watermark is earned; no change goes missing silently | `OrderSyncBatch` |
| Execution of a synchronisation (`B/order-sync.service.ts`) | orders, items, signatures, affected dates in `progressJson` | read payments, known orders and changes, commit chunks, refresh summaries, retry-summary | what the watermark has passed is saved; every affected date is refreshed; items end where a whole recalculation puts them | `OrderStream`, `ProfitSummary`, `SalesMappings` |
| Snapshot persistence (`B/database.service.ts`) | memory, committed rows, the queue of transactions | `writeCommitted`, `commitOrderSync`, row-level commits, cleanup, reads beside the queue, shutdown and start | a change is stored as a whole or not at all, and stays once its caller was told so | `SnapshotPersistence`, in `Maintenance`, refines `CommittedStore` |
| Maintenance scripts (`scripts/*.mjs`) | export files, archives, tables | export, import, prune, trim, correct costs | an import brings back what was stored when its export began; nothing is deleted that is not archived; chains of retries stay whole | `Maintenance`, `RetryChains` |
| Naver requests (`B/naver-request.ts`, `B/naver-commerce.service.ts`) | token cache, renewals under way | request with retries, renewal, abort | one renewal serves all; nobody pays for another caller | `SellerRequests` |
| Provider of the browser (`F/components/orders/order-sync-provider.tsx`) | followed batches, stored request, timers, events between tabs | submit, poll, wake, select, reload | a lost answer does not submit twice; no older state replaces a newer one; a tab catches up | `SyncPolling` |
| Profit summaries (`B/profit-summary.service.ts`, `B/helpers.ts`, `B/profit.service.ts`, `B/cost.service.ts`) | stored rows and summaries per store and day, cost tables | calculate, refresh, invalidate, retry, filter, import costs | a stale row is owed to somebody; stored rows are those that would be calculated; a cost table does not reach back | `ProfitSummary`, `DailyProfit` |
| Sales units, groups, mappings, ads (`B/sales-unit.service.ts`, `B/order-mapping.service.ts`, `B/sales-unit-auto-mapper.ts`, `B/campaign-mapping.service.ts`, `B/ad-mapping-engine.ts`, `B/ads.service.ts`) | units, signatures, items, rules, uploads and costs | create, update, switch, group, attach, map, upload, recalculate | nothing is counted twice or dropped; what a user confirmed stays | `SalesMappings` |

How they interact: the controller admits a batch through `enqueue`, which stores
batch, items and operations in one `commitOrderSync`. The worker polls every
three seconds, leases the oldest runnable operation, takes the execution lock
and calls the executor. `performSync` reads the snapshot once at the beginning,
streams orders from the API, commits chunks under the fence (lease owner and
attempt), refreshes the summaries of the dates it touched and returns a result;
the commit of the outcome sets operation, store status, batch and watermark
together. Requests that change mappings, units, costs or ads commit their change
first and refresh summaries after it. The browser polls `get` until the batch
has a `finishedAt`. The cleanup of expired leases happens in its own
transaction, and writes the operation only.

Hard behaviours: a run that outlives its lease; a restart that overlaps the
process it replaces; calls to the database that happen although the caller is
told of an error; heartbeats that arrive late; settling on a snapshot that was
read long before; gaps acknowledged out of order; lists that move while they are
read; checks made before a commit takes its turn; refreshes that cross changes;
answers to polls that arrive late. `PROJECT.json` lists them as hazards, each at
its line with the properties that watch it.

## 2. The models

Each module takes what it needs of another part as actions of its own (a run of
`ProfitSummary` is leased, aborted and expires; its batches are those of
`OrderSyncBatch`), so that each stays small enough to be checked. Two abstract
specifications tie them together. `CommittedStore` is what `SnapshotPersistence`
promises, and what `Maintenance` has to keep beside it. `OperationLife` is the life of an operation: `OperationQueue`
implements it with leases, takeovers, heartbeats, deferrals and cleanups, and
`OrderSyncBatch`, which takes a run as two steps, implements it too, so what it
assumes of operations is no more than what the queue gives. TLC checks the
three refinements; the two of `OperationLife` are proved as well.

### OperationQueue

The queue of `pollOnce` and `runOperation`, with any number of processes.

| Model | Code |
|---|---|
| `ops` | the rows of the operations table; `lease` and `delay` are the ticks left until `leaseExpiresAt` and `runAfter` |
| `worker` | what each process is doing: `idle`, `cleaned`, `selected` (the row is locked by `FOR UPDATE SKIP LOCKED`), `leased`, `running`, `failing`, `failed`, `releasing`, `down` |
| `lock` | the advisory lock of a store and type; `Ghost` is one held by the session of a dead process |
| `beats` | heartbeats of the interval timer on their way, each with the expiry computed when it was sent |
| `Enqueue`, `Cleanup`, `Select`, `CommitLease`, `NothingRunnable` | `insertOperation`, `releaseExpiredOperationLeases`, `acquireNextOperation` |
| `LockExecution`, `DeferBusy`, `ReleaseLock` | `tryAcquireOperationExecutionLock`, `deferOperationLease`, the `finally` of `pollOnce` |
| `SendBeat`, `DeliverBeat`, `Watchdog`, `Progress` | the timer and the progress callback of `runOperation` |
| `SaveChunk`, `Finish`, `Throw`, `RecordError`, `PersistFailure` | `commitOrderSync` and `markOperation…` as `runOperation` calls them |
| `LoseLeaseReply`, `AbortSelect`, `FailLock`, `LoseBeat`, `LoseFinishReply`, `LoseFailure`, `LoseRelease`, `Crash`, `DropSession` | one call or one process fails; each takes one of `MaxFaults` |

`runs`, `lastWriter`, `staleWrite`, and the fields `superseded` and `unlocked` of
a process, record history for the properties and guard nothing.

Abstractions: payloads, log lines and the error texts; the choice among several
operations that may be taken first, which the code settles by `runAfter`; a
lease owner is a token that nobody else carries. File mode, where the lock is
an entry of a map in memory, is the same model without the session steps.
`LoseRelease` is an unlock that fails because its connection is cut: PostgreSQL
ends the session, and the lock with it, a while later. An unlock that fails on a
connection that lives returns the session to the pool with its lock, which then
lasts until the pool closes it; that is outside the model.

`OperationLife` is what a row promises to those who asked for the operation:
admitted once, started at most `MaxAttempts` times unless a start is given back,
ended once. The queue implements it under `status <- LifeStatus`, `attempt <-
LifeAttempt`, where a row whose lease ran out counts as what the next cleanup
makes of it.

### OrderSyncBatch

Batches above the queue: here a run is two steps, `Begin`, which reads the
watermark and whether the store is active, and one of `Complete`, `Fail`,
`Requeue` and `Expire`, which ends it.

| Model | Code |
|---|---|
| `batches`, `jobs` | `orderSyncBatches`; the item and the operation of a store together. Batch 0 holds operations from before batches were introduced |
| `coverage` | `orderSyncStates`: `lastSuccessfulChangedTo`, `changedCoverageBaselineAt`, acknowledged gaps, `historicalCoverageGap` |
| `shown` | `lastOrderSyncStatus` of a store |
| `Request`, `Retry`, `RetryOld` with `Insert` | `enqueue` from its three callers |
| `Begin`, `HasGap`, `ChangedFrom`, `Readable` | what `performSync` and the change stream do with the watermark and the cutoff |
| `Complete`, `Fail`, `Requeue` with `End` | the commits of `runOperation`, with `finishBatchIfTerminal` |
| `Expire` | `recoverExpiredOperationLease`: the operation changes and nothing else |
| `Acknowledge` | `acknowledgeCoverageGap` |
| `BatchStatus`, `Done` | the status and the `finishedAt` that `get` derives |

`read` and `origin` are history: which change times finished runs have read, and
from where the reading of a store began. A request replayed under a known key
changes nothing, so only new keys are steps. Time is a number; the changes of an
interval are those after its beginning up to its end; the five minutes that a
run reads twice, and the orders that a run with a gap asks for, are in `OrderStream`. The lease that `activate` and `deactivate` look
at can expire, or appear between the look and the write, so they are not held
back by a run.

The single steps `Begin` and its end are the leases, beats and takeovers of the
queue seen from above. Both modules are mapped to `OperationLife`: here the
operation of a store in a batch, if it has one, is the one that lives, and those
of a store also start in turn (`OrderedSpec`).

### CommittedStore, SnapshotPersistence and Maintenance

`CommittedStore` is the promise made to the callers of the database service. A
row is the set of changes that went into it; a change is stored in all its rows
by one step; what its caller was told is stored is never removed, except by the
import of a backup that was not bound to hold it; a change its caller was told
had failed may be stored all the same, or be taken away again.
`SnapshotPersistence` is what `B/database.service.ts` does, and `Maintenance`
adds what the scripts do to the same rows. `Maintenance` implements
`CommittedStore`, with a row being what the database or an archive file holds.

| Model | Code |
|---|---|
| `up`, `mem`, `db`, `hash` | the backend runs; `this.database`; the committed rows and their `payload_hash` |
| `queue`, `running` | `persistenceQueue` and the call whose turn it is |
| `Submit`, `StartSnapshot`, `StartFenced`, `StartPlain`, `StartDirect`, `StartOperation`, `StartCleanup` | `writeCommitted`; `commitOrderSync` with and without a fence; commits of mappings, summaries, units and fake purchases; `insertOperation`, leases, heartbeats and outcomes; `releaseExpiredOperationLeases` |
| `Commit`, `PublishDraft`, `PublishRows` | the transaction ends; a draft replaces the memory, or rows are copied into it |
| `Fetch`, `Deliver` | `getOperationById`, which reads beside the queue |
| `Rollback`, `LoseReply`, `Crash`, `Stop`, `Start` | a commit fails, or happens without an answer; the process dies, is shut down after its queue, or starts and loads the tables |
| `StartExport`, `ReadTable`, `WriteBackup` | `scripts/db-export.mjs`: one statement per table, then the file |
| `StartImport`, `CommitImport` | `scripts/db-import.mjs`: the backend is sought once, then all tables are replaced in one transaction |
| `StartPrune`, `WriteArchive`, `DeletePruned` | `prune-audit-logs.mjs`, `prune-operations.mjs`: read, archive, delete by the ids that were read |
| `StartEdit`, `CommitTrim`, `CommitCost`, `EndEdit` | the scripts that trim order payloads and clear their hashes, and those that correct costs and leave them |
| `Die` | a script ends before its commit |

A snapshot writes the rows whose hash differs from its draft (`Differing`), so a
row that a script changed without its hash is skipped until the backend changes
it. Scripts other than the import only warn of a running backend, so `Maintenance`
lets them run beside it; what an edit does then is promised to nobody. Left out:
the file mode, whose only commit is one rename; the synchronous `write`, which
the PostgreSQL mode refuses; and the change that `retry-summary` makes to an
operation that has ended, which no kind of commit above makes.

### RetryChains

`Protected` is `getProtectedCandidateIds` of `scripts/prune-operations.mjs`: the
old operations that an operation which stays retries, directly or through others.
It is stated as the least closed set, so that it can be reasoned about;
`MCMaintenance` checks for four operations and every relation between them that
it is what the loop of the script collects.

### SellerRequests

| Model | Code |
|---|---|
| `pc`, `token`, `attempt`, `tries` | where a `requestSellerJson` awaits, the token it sends, and how often it failed |
| `cached`, `pending`, `renewal` | `tokenCache`, `tokenRequests` and the phases of `issueAccessToken` |
| `Call`, `Succeed`, `Refuse`, `FailOnce`, `Retry`, `Reject`, `Abort` | the request loop and its retries, a 401 that drops the token, `waitForSharedPromise` |
| `Issue`, `IssueRetry`, `Recorded`, `IssueFails`, `Age`, `Revoke` | the renewal, the buffer before the expiry, and the API |

Pacing and backoff decide when a request is sent and nothing else, so a timer is
a step that may happen.

### OrderStream

One store, its orders and the API's lists: `Change` and `Publish` are the API,
which lists each order at its latest change and some time after it.

| Model | Code |
|---|---|
| `BeginCurrent`, `BeginManual` | the days of `enqueue`, and what `performSync` decides as it begins: from where to read changes (`ChangedFrom`), whether the store has lost touch (`LostTouch`, `coverageGap`), and the orders to ask for by their ids (`Existing`) |
| `ListPaid`, `ListKnown`, `BeginChanges`, `ListChanged` | a page of a day, those ids, the wait before the changes, a page of a window of changes behind a cursor |
| `FetchDetails`, `Deliver` | the details, with a second try for what was missing; a chunk is saved |
| `Complete` | the final commit: a run with a gap fails and leaves `gaps` as a result to acknowledge, any other moves the watermark |
| `Acknowledge` | `acknowledgeCoverageGap`: the baseline moves past the gap, and `unread` (`historicalCoverageGap`) is widened by it |
| `Break` | the stream throws, is aborted or loses its lease |

Windows are of `Window` ticks, read from `Overlap` before the watermark, and
changes are read `Settle` after the cutoff. `Lookback` and `Recent` are the 30
days that a run may look back for changes and the 29 for payments. `watermark` is
the later of `lastSuccessfulChangedTo` and the baseline. `readFrom` and `owed` are
history.

### ProfitSummary

A change and the refresh of its dates are two commits. `request` is a request
between them; `op` and `exec` are a synchronisation whose `dates` travel through
`progressJson`.

| Model | Code |
|---|---|
| `row`, `item`, `adjusted` | a stored summary, the saved items and the changes of requests, as what a summary is made of |
| `ChangeDates`, `ChangeSince`, `CollectDates`, `RefreshAfter`, `InvalidateAfter` and their failures | the requests of the controller and `refreshAfterChange`, `refreshSince` of `B/profit-summary.service.ts` |
| `SaveChunk`, `ReportChunk`, `RunRefreshes`, `RunInvalidates`, `Succeed` | the chunks, the progress and the end of `performSync` |
| `Abort`, `NoticeAbort`, `Break`, `RecordError`, `PersistFailure`, `ErrorIsLost`, `Expire`, `Crash` | how a run ends otherwise; the heartbeat with the error and the commit of the failure are two steps |
| `RetrySummary`, `RetryInvalidates` | `retrySummary` of `B/order-sync-batch.service.ts` |

`lost` names the dates that nobody refreshes any more, and why.

### SyncPolling

`poll` holds the states of the provider's `poll` function: the timer, the
active list, the recent list, the details of followed batches, asleep.
`Submit`, `TakeAnswer`, `TakeRefusal` and `PostFails` are `submit` with its key
in `sessionStorage`, and `settled` the keys whose outcome it has learnt; `Handle`
and `RefuseRequest` are the server behind the proxy, which may refuse a request
that is sent again for a batch it has made; `Progress` and `Elsewhere` batches that go on or are made by somebody else;
`Resume` the events of visibility and of other tabs; `Select` and `Reload` the
user. The pages of the active list are read as one; `sessionStorage` is assumed
to work; two changes of a batch never have the same `updatedAt`.

### SalesMappings

| Model | Code |
|---|---|
| `unit`, `rule`, `sig`, `campaign` | sales units and their groups, campaign mappings, the mappings of item signatures and of the campaign |
| `item`, `cost` | the unit of each order item and of the campaign's cost in each upload |
| `pending` | requests that passed their checks and wait for their turn to commit |
| `AskX` and `X` | the check of a request and its commit; a request whose check cannot be undone is one step |
| `SaveItem`, `RecalculateOrders`, `RecalculateAds`, `Restart` | a synchronisation and the recalculations of stores, and the one of the start |
| `Resolved`, `Assigned`, `Inferred` | the unit of an item: what a user confirmed, else the ids of the unit, else the signature; and the unit a signature takes from its items |
| `AdTarget`, `Promoted` | the unit of the campaign by rule, keyword and alias, and the group in place of its child |
| `used`, `campaign.used` | `usageCount`: counted step by step, and counted anew at the start (`Usage`, `Normalized`) or after a deletion |
| `seeding`, `SeedClears`, `SeedCreates` | the two commits of `generateInitialMappings`; units it removes are `"gone"`, and what was confirmed goes on pointing to them |
| `ChildRow`, `GroupRow`, `ShownRow` | the daily row that an item or a cost is counted in |

Abstractions: one campaign with one pattern and one day of ads; the three kinds
of product ids as one, the unit created last winning; alias text as the signatures it matches, the names
that keywords stand for as the units that bear them; the day of deactivation is `Today`. Left
out: units of store level, the status of a sale, filters of the views.

### DailyProfit

| Model | Code |
|---|---|
| `Rows`, `Row`, `ChildRows`, `CostOf`, `Promoted`, `Wanted` | `calculateDailyProfitRows`: items by unit, groups from their children, ads on groups, the cost table of the day, filters |
| `Summary` | `calculateDashboardSummary`: rows, what is left out, packages, the delivery cost |
| `item`, `sig`, `link`, `Remap` | items and signatures as `recalculateOrderMappings` leaves them: a user's mapping, else the ids of the unit, and signatures inferred from their items |
| `SaveItem` ... `RecalculateAds` | each request with the dates it refreshes, or removes if that fails |
| `Answer` | `listDailySalesUnitRows`: stored rows and their children where a day has a summary, a calculation where it has none |

Request and refresh are one step here, so that a stored row differs from a
calculated one only if the request chose the wrong dates. Abstractions: sums are
sets of what is added up; each item is its own package; units stay active (a
deactivation is in `SalesMappings`) and aliases match no signature, so that a
signature is mapped by a user or by the ids of its items; rules and aliases
decide on a campaign as they please.

## 3. The runs

| Run | Instance | What it shows |
|---|---|---|
| `overlap` | 2 processes, 2 syncs of one store, 2 attempts, leases of one tick, one fault; tokens and processes symmetric | type correctness, the budget of attempts, no poisoned head, exclusive execution, no stale write, finished rows are final |
| `process` | 1 process, otherwise the same, with fairness | saves in order, every operation ends, locks are freed, rows live as `OperationLife` promises, the operations of a key start in turn |
| `admission` | 2 stores, 2 batches, 2 attempts, stores switched on and off, with fairness | retries take failures only, a batch is finished once and for all of its operations, what is over stays as it was shown, every batch ends |
| `coverage` | 1 store with an old failed operation, 3 batches, a window of 1 in 7 units of time | the watermark is earned, no change is missed silently, operations live as `OperationLife` promises |
| `shown` | 1 store, 1 batch, 2 attempts | a violation, see [Findings](#5-findings) |
| `promise` | 3 changes of any kind, or 2 beside scripts; one row of each class in three tables; 2 faults or scripts, one script at a time; changes symmetric | memory serves what is stored, and commits, restarts and scripts keep the promise of `CommittedStore` |
| `tokens` | 2 callers, 4 renewals, 3 failures, with fairness | one renewal per token, nobody pays for another, every call ends |
| `stream` | 2 orders, pages of one, 6 ticks, a look-back of one, 2 runs, with fairness | what the watermark has passed is saved or lies in a gap that was acknowledged, what was owed is saved, every run ends |
| `execution` | 2 dates, 1 item, 2 requests, 1 synchronisation with 2 attempts and 2 chunks, 2 faults, with fairness | a stale summary is owed to somebody or lost in one of three known ways, and is settled |
| `polling` | 1 tab, 2 batches with 3 stamps, 2 faults, 1 action of the user, with fairness | nothing is asked twice, no older state replaces a newer one, the tab catches up |
| `desk` | 2 plain units, 1 group, 1 signature, 2 items, 1 upload, 2 requests waiting, 3 commands | items are where a recalculation puts them, nothing is counted twice or dropped, ads belong to groups, what was confirmed stays; signatures are used as often as they are counted |
| `days` | 2 days, 2 items of one signature, 2 units, 1 group, 1 campaign, 4 requests; units symmetric | stored rows are those that would be calculated, filters included, each ad cost is accounted for, a cost table does not reach back |

Why the bounds are enough. Two operations of one store are what the FIFO rule
and the lock are about; two processes are a restart that overlaps, and the third
token lets a stale run, its successor and a heartbeat on its way carry different
ones. Two attempts make one that is retried and one that is the last. One fault
at a time meets every step; the proofs below do not depend on the number. For
batches, two stores make a batch that ends in parts, and three batches make two
gaps and the run between them: windows of one unit and seven units of time leave
room for both. Three changes make one that fails, one that is stored beside it
and one that is stored after it; an export and its import, or a prune and a
fault, are two of `MaxFaults`, and a hand run with three passed as well. Two callers share a renewal, and with three
failures and four renewals each can meet two rejections. Two orders of pages of
one make a list that moves under its reader, and a look-back of one tick in six lets a
run come too late, end with a gap and have it acknowledged. One item moves between two dates
while another change falls on either. One tab follows its own batch and one
that another made; a hand run with two tabs passed as well, but is too long for
every check. Three commands are a request, what is changed under it and what is
built on both; four requests leave a stored day, two changes that meet on it and
a page that asks. A larger instance repeats these situations.

Fairness. It is weak everywhere: requests are answered or time out, timers fire,
streams and executors return, leases expire. In the queue and the batches the
worker polls on an interval and never gives up, requests and statements have
timeouts so that executors return, a process that died is started again, the
database ends the sessions of clients that are gone, and time passes. No
fairness is assumed of requests, saves, progress or heartbeats being sent, nor
of faults, which are bounded by `MaxFaults`. `EveryOperationEnds` and
`EveryBatchEnds` therefore say nothing of an executor that ignores its abort
signal and never returns: its interval would renew the lease for ever.

`SavesInOrder` and `StartedInTurn` hold for one process, the supported
deployment (`README.md:113` of the repository). With two processes both fail: a
poll that takes over an expired lease has its row locked but not yet committed,
`SKIP LOCKED` hides it from a second poll, and that one leases the next
operation of the same store. The execution lock still keeps the runs apart.

Every property has a mutant in `PROJECT.json`: a variant of a definition, kept
in the module before the definition and marked `Variant`, under which TLC finds
the property violated.

## 4. The proofs

`OperationQueueProofs` proves about `Spec`, for every set of operations, keys,
processes and tokens and every length of leases, delays and fault budget:

| Theorem | Property |
|---|---|
| `TypeCorrect` | `TypeOK` |
| `QueueNeverPoisoned` | `NoPoisonedHead` |
| `OneRunPerKey` | `ExclusiveExecution` |
| `LateRunsNeverWrite` | `NoStaleWrite` |
| `FinishedIsFinal` | `TerminalIsFinal` |
| `QueueKeepsOperationsAlive` | `OperationsLive` |
| `AttemptsAreBounded` | `AttemptBudget` |
| `OneProcessStartsInTurn` | `StartedInTurn`, for one process |
| `OneProcessSavesInOrder` | `SavesInOrder`, for one process |

The assumptions are the named ones of the module: operations are positive
numbers, the operations of one key are of one type, null values are not members
of the sets they stand beside, and durations are natural numbers, the lease and
the attempts at least one; the processes are finitely many.

The argument is one inductive invariant `IInv`. `NoStaleWrite` alone is not
inductive: that the fence rejects a run whose lease was taken needs that the
token of a superseded run is gone from its row (`StaleInv`), which needs that
tokens are carried by one process each (`ProcessInv`), that a row with a
process's token was leased by the acquisition this process is working on
(`OwnerInv`), and that a selected row stays as it was found until the lease is
committed (`SelectInv`). `LockInv` says that a run whose session was not cut
holds the lock of its key, from which exclusive execution follows, and `RowInv`
relates status, lease and attempts. There is one lemma per action; the actions
that change a row or a process without giving it a lease share `SimpleStep`.
`FinishedIsFinal` is a property of steps: each step out of a state of `IInv`
leaves terminal rows alone, because a terminal row has no owner and no lease.

`QueueKeepsOperationsAlive` is the refinement of `OperationLife`. `RowLives` says
what one step of the queue may do to one row; `RowsLive` shows it action by
action, and `LivesAsPromised` that such a change of the row is a step of the life.
A row whose lease has run out counts as what the next cleanup makes of it
(`Settled`), so that a life stops when the lease does: the cleanup itself is then
no step of it, and a tick that ends several leases stops several operations at
once, which is why a step of `OperationLife` is one of every operation.

`AttemptsAreBounded` counts. A lease is charged to the row when it is committed
and to `runs` when its executor begins, so the invariant `BudgetInv` adds to the
runs of an operation the processes that hold a lease of it and have not begun
(`Owing`): together they are at most the attempts of the row. A deferral gives an attempt back and takes its process out of that set.

The last two theorems assume `Alone`: there is one process, as `README.md:113` of the
repository deploys it and the run `process` has it. With two, the order of saves is broken, since
an operation is chosen in one step and leased in another. The invariant `TurnInv`
says why one process keeps it: rows appear in the order of their numbers
(`KnownInv`); of the operations of a key one at most runs or will be taken up again,
and none that it had to wait for is queued (`ActiveInv`); this holds already of the
operation that is selected and not leased yet (`ChosenInv`), because the only other
actor that could take a turn would be a second process; and what was asked for
before the operation that saved last is over (`WriterInv`), so that nothing older
is left that could still save.

`OrderSyncBatchProofs` proves about the other `Spec`, for every set of stores
and keys, every number of batches and attempts, and every window and clock:

| Theorem | Property |
|---|---|
| `TypeCorrect` | `TypeOK` |
| `RetriesTakeFailures` | `RetryTakesFailedOnly` |
| `FinishedBatchesAreOver` | `FinishedMeansOver` |
| `WatermarksAreEarned` | `WatermarkIsEarned` |
| `GapsAreShown` | `NoSilentGap` |
| `OverIsFinal` | `DoneIsFinal` |
| `BatchesUseTheQueue` | `OperationsLive` |

Its assumptions are that `NoKey` is not a key, that the old operations have a
mode, and that the window is a natural number smaller than the last time, so
that the clock can start late enough for a run to look back.

`NoSilentGap` is what its invariant is made for. Nothing in the property says
why a run that settles late may still advance the watermark, nor why an
acknowledgement may jump over a gap. `SeenInv` says that the watermark has not
fallen behind what a run saw when it began, and that a run which saw no
watermark at all runs while there is still none: so the changes a run reads
begin at or before the watermark it moves. `GapInv` keeps for a failed run with
a gap that the gap begins where changes were read up to and that the run read
everything behind the gap: so widening the historical gap names exactly what is
missing below the acknowledged baseline. `OneRunInv`, one run of a store at a
time, is what makes the first run of a store the only one without a watermark;
`OriginInv` ties the watermark to the beginning of reading, `CutoffInv` keeps
every window inside time, `FreeInv` and `SourceInv` say that numbers not yet
admitted hold nothing and are not retried. Steps of a single operation share
`JobStepInv`; a run that completes is split by whether it found a gap, moved the
watermark, or had another mode.

`BatchesUseTheQueue` needs no further invariant: every step of the batches is a step of
the life of each operation, and an operation starts in its turn. So what the
theorems about batches take from the queue is the interface `OperationLife`, the
one the queue is proved to implement. The turn is what the
queue gives with one process (`OneProcessStartsInTurn`).

`RequestsProofs` is about the requests at both ends of the backend. Of
`SellerRequests`, for any number of callers, failures and renewals:

| Theorem | Property |
|---|---|
| `TypeCorrect` | `TypeOK` |
| `RenewalsAreShared` | `RenewedOnce` |
| `CausesAreOwn` | `FailsForItsOwnCause` |

`RenewalInv`: renewals start in order and one at a time, and the one under way is
the one that is shared. `CacheInv`: what is cached and usable has been rejected
before no call that goes on. `CallInv`: a call never sends a token it has seen
rejected, and has seen as many rejections as it counts; so a second rejection is
that of a second token.

Of `SyncPolling`, for any number of tabs, batches, changes, faults and clicks:

| Theorem | Property |
|---|---|
| `TabsTypeCorrect` | `TabsTypeOK` |
| `NothingIsAskedTwice` | `NothingAskedTwice` |
| `OlderIsNeverShown` | `NeverShowsOlder` |
| `OnlyWhatWasSaidIsShown` | no tab shows what the server never said |
| `NoWakeIsLost` | a tab that shows an active batch, or owes a reading of one it follows, is not asleep |

`PostInv`, what a tab sends is what it has stored, makes `NothingAskedTwice`
inductive. `SaidOK` and `AnswersOK` bound what is shown, received and answered by
the batch itself, whose numbers only grow (`Grows`). `WakeOK` carries the last
theorem: what a tab was told of, and its poll has not read yet, has asked for
another poll, unless the batch is over and behind the recent ones (`Past`), in no
list any more; `Past` is for ever, since a batch that is over stays so and newer
ones are only added. It is the safety that `TabsCatchUp` rests on.

`MaintenanceProofs`, for any tables, rows, calls, backups and faults:

| Theorem | Property |
|---|---|
| `TypeCorrect` | the shape of the state |
| `StoredIsServed` | `MemoryServesTheStored` |
| `PromiseIsKept` | `KeepsThePromise`, the refinement of `CommittedStore` |
| `KeptChainsAreWhole` | a prune keeps what the operations that stay retry |
| `NothingIsKeptInVain` | it keeps nothing else |

The invariant follows a change on its way. `FreshInv`: before its commit it is
nowhere but in the draft of the call whose turn it is. `TurnInv`: this draft
holds, in the rows the call may write, all that is promised. `MemoryInv`: memory
and database differ by what was refused, by what went into an archive, and by one
change that is committed and not yet published. `KeptInv`: what a caller was told
is stored is in the database or an archive. `BackupInv`: the tables that an
export has read hold what was stored for good when it began, although each table
is read at a time of its own. `PruneInv`: rows that a prune has read are written
by nobody any more, which is what allows it to delete them by their ids later.
`SourceInv` says that rows hold changes of their own calls only, and `CallInv`
where calls may be. The refinement maps a commit to `Store`, a publication to
`Confirm`, a rollback to `Refuse`, a lost answer to both, the deletion of a prune
to `Waver`, the file of an export to `BackUp`, the commit of an import to
`Restore`; every other step stutters.

About the prune of operations the last two theorems say, for every set of operations
and every relation between them, that an operation that stays keeps the one it
retries, and that nothing else is kept. Neither needs induction, since what
`RetryChains` calls protected is the least set that the walk is closed in.

`OrderStreamProofs`, for any orders, pages, windows, overlaps and delays, the
last two not both zero:

| Theorem | Property |
|---|---|
| `TypeCorrect` | `TypeOK` |
| `NoChangeIsMissed` | `NothingMissed` |
| `OwedOrdersAreSaved` | `OwedIsSaved` |

For the first, `LateInv` (a change that is not listed yet is younger than the
overlap and the delay) and `PastInv` (cutoffs and watermarks are in the past, by
the delay where changes are read) give `DueIsListed`: a change that a run is bound
to read is listed before the run begins. `AheadInv` then says of each of them
that it is saved, on the page whose details are asked for, or ahead of the
cursor, and `GotInv` that what was fetched is not older than the list. Orders
move to the end of the list when they change, and one that moves is not due any
more. `PlanInv` says from where a run reads: at or before the watermark that it
moves, unless it has lost touch. `GapsInv` keeps for a gap that everything behind
it, up to its cutoff, is saved, which is what allows the operator to move the
watermark past it at any time, during another run too. What falls into the range
given up (`GivenAway`) is excepted. For the second, `OwedInv` keeps what a run owes saved or still to come
(`ToCome`): on a later day, or on a later page of the day, since the rank of an
order in the list of its day only grows while orders are added.

`ProfitSummaryProofs`, for any dates, items, requests, runs, attempts, chunks and
faults:

| Theorem | Property |
|---|---|
| `TypeCorrect` | `TypeOK` |
| `StaleIsNeverForgotten` | `StaleIsOwedOrLost` |

`RunInv` says that the run and its operation know the same dates, so that what an
attempt leaves is taken over by the next; `FinalInv` that what is stale after a
run has refreshed its dates is owed by somebody else, so that its success drops
nothing; `RequestInv` that a request owes no date it has not changed, so that a
crash loses what it owed and no more.

`DailyProfitProofs`, for any days, items, signatures, units, groups and costs:

| Theorem | Property |
|---|---|
| `TypeCorrect` | the shape of the state |
| `StoredRowsAreLive` | `RowsAsLive` |
| `PagesAgree` | `AnswersAgree` |
| `AdCostsAreShownOnce` | `AdsAccounted` |
| `CostsLeaveThePast` | `PastCostsStay` |

`RowsAsLive` is all but inductive: `StoredIsLive` adds the ads that are left out,
which `RowsAsLive` does not compare. The argument is that each request refreshes
every date its change reaches: the rows of a day are those of the same groups,
items, costs and ads (`SameRows`), and each request is shown to leave these alone
on the days it does not refresh (`OtherItems`, `OtherAds`, `EarlierCosts`). That a
signature is mapped exactly if it has a unit is what items left out hang on.
`PickedRows` says that to pick from all rows is to calculate with the filter,
group or unit, and `OneRow` that an ad is in one row or among what is left out.

`SalesMappingsProofs`, for any units, groups, signatures, items, days, names, ids
and requests:

| Theorem | Property |
|---|---|
| `TypeCorrect` | `TypeOK` |
| `NothingIsLeftBehind` | `AsRecalculated` |
| `ShownOnce` | `CountedOnce` |
| `AdsGoToGroups` | `AdsBelongToParents` |
| `DecisionsStay` | `ConfirmedStays` |

`RequestInv` is what a check leaves for the commit that trusts it: a request to
map names a unit that once existed and is no group, two requests never create the
same group, an update of a group makes no child of it. `MappingInv` says that
nothing is mapped to a unit that was never created, that a user confirms no
group, and that an item comes to a group by its linked ids only (`Linking`).
`PlaceInv`, unless a recalculation is owed, puts each item where a recalculation
of the whole store would. It is kept by partial recalculations because matching
names again forgets what signatures took from their items (`NamedAgain`), so that
an item depends on its own signature and on the units only; `PlaceAlike` says that
joins and detachments move nothing, `PlaceWithout` which items a dissolved group
leaves behind. Commits that recalculate the store share `Settles`. `CountInv`
keeps the usage counts, `AdInv` the campaign; of a restart, `NormalizedIs` shows
that what is read from the campaign's last row does not outlive the recalculation
behind it. `CountedOnce` follows from `Linking` and the shape of groups, for items
(`ItemShownOnce`) and ad costs (`CostShownOnce`) alike: a group that no id is
linked to has no row of its own that could hide its children's.

The assumptions of these modules are again the named ones. Those that are more
than the sorts of the constants: no content has the hash that stands for a
missing one; orders, items, requests and processes are finite sets; the overlap
and the delay of an order stream are not both zero; units are numbers in the
order of their creation; items and uploads have different names; the marks for
keys of other tabs, and of none, are no tabs.

What stays with TLC:

- Liveness under fairness, which is beyond the prover: `EveryOperationEnds`,
  `LocksAreFreed`, `EveryBatchEnds`, `EveryCallEnds`, `EveryRunEnds`,
  `StaleIsSettled`, `TabsCatchUp`.
- That the operators of the models compute what the loops of the code do, where
  this needs induction over the data, such as the walk of `RetryChains`.

## 5. Findings

`StoreShowsLastOutcome` (run `shown`). When the lease of the last attempt of a
synchronisation expires, `recoverExpiredOperationLease`
(`B/database.service.ts:2082`) sets the operation to `FAILED` and returns; no
later code sets the `lastOrderSyncStatus` of the store, and none sets the
`finishedAt` of the batch. The header of the application
(`F/components/layout/top-header.tsx:172`) goes on showing the outcome of an
earlier run. The missing `finishedAt` does no harm, since `get` derives one.
`document/ORDER_SYNC_RELIABILITY_IMPLEMENTATION_REPORT.md:24` says that final
result, store state and watermark are settled consistently.

### Observations

Met while modelling. The first five are behaviours of the models: TLC found a
trace to each when its opposite was stated as an invariant.

- A run that is aborted after the commit of a chunk and before its progress
  report writes, in its error path (`B/operation.service.ts:479`), a list of
  affected dates that lacks those of the chunk. The next attempt finds the order
  at its new date only, and the summary of the old date keeps an item that is no
  longer there. It is one of the three losses `StaleIsOwedOrLost` allows.
- `update` of `B/store.service.ts:137` sets the delivery cost and refreshes
  nothing: stored days keep the old margin and net profit, although
  `F/components/stores/store-settings-view.tsx:636` says that the margin is
  calculated automatically.
- A synchronised item changes the status of its signature, and the status decides
  whether items of other days are left out; those days are not among the affected
  dates (`B/order-sync.service.ts:347`, `:419`).
- Rows count an item by its own unit, what is left out is counted by the status
  of its signature (`B/helpers.ts:764`, `:1057`): two items of one signature with
  different units are counted in both, although
  `F/components/dashboard/dashboard-view.tsx:113` says conflicts are left out.
- One mapped item makes its signature `MAPPED` while others have no unit
  (`B/sales-unit-auto-mapper.ts:335`); those are then in no row and not among
  what was left out.
- A failed `CURRENT` batch that is retried after a newer one succeeded, or after
  a gap with a later cutoff was acknowledged, can only fail, since its changes
  would begin after its cutoff (`INVALID_ORDER_RANGE`).
- After a unit is deactivated a confirmed signature stays `MAPPED` and confirmed
  without a unit; the update of a unit writes back the copy its request found
  (`B/sales-unit.service.ts:230`), over a deactivation or a join committed since.
- Dissolving a group unmaps its ad costs but leaves the campaign's mapping.
- A default rule that a user switched off is added again at the next start; if
  the old one is switched on as well, costs become `MULTIPLE_RULES`.
- A unit created for a signature is created without a recalculation of the store.
- A deactivation is compared by its UTC day with payment dates in Korean time
  (`B/helpers.ts:368`).
- After a lost answer to a COMMIT the next whole-snapshot write may take the rows
  of a chunk away again while its operation keeps the progress.
- `excludedAdCost` adds an ad that is unmapped on purpose twice
  (`B/helpers.ts:1083` and `:1093`), while the count of such ads in the page of
  unmapped data is always 0 (`B/profit.service.ts:591`).
- A filter on a child gives the child's row where the day is stored and none, or
  a row of the group, where it is not (`B/profit-summary.service.ts:404`), so
  `AnswersAgree` is stated for groups and units without one.
- A cost import changes the linked ids of units and does not map items anew.
- A batch id in the address that no batch has makes every poll of the tab fail
  (`F/components/orders/order-sync-provider.tsx:297`).
- The mapping seed says it clears the automatically created units
  (`B/mapping-seed.service.ts:89`) and removes every unit of the store, those made
  by hand and groups too; confirmed signatures, rules and ads go on pointing at
  them, and a crash between its two commits leaves the store without units.
- Two ad uploads of one day can both pass the check for overlapping campaigns
  before either takes its turn (`B/ads.service.ts:104`).
- Two first requests to create a store can both pass the check for a duplicate
  (`B/store.service.ts:39`).
- A page of order items takes its snapshot of the memory before it awaits the
  query it is joined with (`B/order-sync.service.ts:544`).
- The import looks for a running backend once and then replaces the tables
  (`scripts/db-import.mjs:226`); audit logs that were pruned beside a running
  backend come back with its next snapshot.
- Settings of a store: the credential of the store selected before may arrive
  after the selection changed (`F/components/stores/store-settings-view.tsx:91`),
  and the effect on `selectedStore` clears messages whenever the page is
  refreshed (`:81`). A late detail of a row replaces that of the row selected
  last (`F/components/profits/profits-view.tsx:385`).
- An operation that the page of operations finds ended at its first poll does not
  refresh the list (`F/components/operations/operations-view.tsx:108`).
- The dashboard always shows the date of `MOCK_SELECTED_DATE`
  (`F/lib/api/services.ts:876`).

## Not modelled

Routing and validation of requests, rendering, text normalisation, query
builders and log entries keep no state that a property is about. Several backend
processes writing domains other than order synchronisation are not supported by
the program. `performConfirm` of `B/ads.service.ts` waits for an upload in the
state `PREVIEW_PARSED`, which no code sets any more. A large share of the lines
of the repository is of these kinds: tests, pages, parsing of spreadsheets and
product texts, SQL and its row types, example data. `PROJECT.json` lists each
part with its reason.
