# MAX-API: a verification development

MAX-API is a gateway in Go that relays requests to AI providers over
configured channels and charges them to its users. What it must never get
wrong is the money: a request is estimated, pre-consumed, perhaps raised while
it runs, and settled or refunded when it ends, by several goroutines, on
several nodes, over a database that can fail at any statement, with retries
after a crash. This directory models that core in TLA+, checks it with TLC and
proves what matters most with TLAPS. Around the core it models what
administrators do to stuck settlements, on the server and in the web console,
the life of an asynchronous task, the cleanup of old logs under a lease, and
the cache that must not outlive a balance.

Paths below are relative to `src/`; `S` is `model/billing_settlement.go`, `B`
is `service/billing_session.go`.

## 1. Inventory

| Component | State | Operations | Hard behaviours | What makes it correct |
|---|---|---|---|---|
| **Settlement store** (`S`) | table `billing_settlements`: one row per operation key with its intent (deltas, task binding, claim), status `pending/applied/manual`, applied deltas, revision; the pre-consume selection of a request | `ApplyBillingSettlementOnce`, `EnsureBillingSettlement`, `markBillingSettlementFailure` | commit without acknowledgement, crash between insert and apply, caller and runners on one row, one key used for two different operations | each operation takes effect at most once, together with its row; a caller told of success got its own operation; rows at an end stay |
| **Effect projection** (`S`, `model/log.go`) | effect status of the row, billing log with a receipt (perhaps in another database), usage counters | `ProcessBillingSettlementEffect`, `RecordTaskBillingLogOnce` | two databases, retried by anyone | at most one log row and one count, never ahead of the funds, eventually |
| **Retry runner** (`S`) | none of its own; a ticker per node | `processPendingBillingSettlements`, `...Effects` | several nodes, crashes | a pending row is eventually resolved; nothing is applied twice |
| **Settlement review** (`S`, `controller/billing.go`) | review metadata, blocking override, revision of a row | review with a revision, blocking admission check, manual completion of a task | a review of a snapshot that has changed; a failure recorded from a row that another recorder has updated since; admission read before the pre-consume | a review replaces only what its author had read; manual completion is applied once and by approval only |
| **Billing session** (`B`, `service/billing.go`, `service/violation_fee.go`) | per request, behind a mutex: `preConsumedQuota`, `consumed`, `tokenConsumed`, `reserveRevision`, `settled`, `refunded`, two in-flight flags | `NewBillingSession`, `Reserve`, `Settle*`, `Refund` | store called without the mutex, retries after an unknown outcome, settle racing refund, a reservation the session believes to have failed | a request pays its metered quota or nothing; settle and refund exclude each other; usage is not lost |
| **Subscription funding** (`model/subscription.go`) | subscriptions with `amount_used` and a period, pre-consume records | pre-consume, refund, post-consume delta, period reset | a reset between pre-consume and refund | usage is given back to the period it was taken from |
| **Task lifecycle** (`model/task.go`, `service/task_billing.go`, `service/task_polling.go`) | status, quota, billing evidence of a task | submit, poll, time out, finish, each with a settlement or a hold | poller, sweeper and realtime read race; unknown outcome of a submission | one terminal status and one financial outcome |
| **User and token quota** (`model/user.go`, `model/token.go`) | balances, used quota | guarded increments and decrements, deletion | concurrent charges, a token deleted under a pending settlement | no overdraft; what was used is what was charged |
| **Caches, invalidation outbox** (`model/user_cache.go`, `model/token_cache.go`, `model/cache_invalidation_task.go`, `pkg/cachex`) | Redis entries with a version, the outbox table | read-through, invalidate, replay | stale refill racing an invalidation, crash after commit | after the outbox is empty no entry is older than the database |
| **System tasks** (`model/system_task.go`, `service/system_task.go`) | rows with a lease and a state; the one registered handler deletes old logs | create, claim, renew, save progress, finish | lease expiry with a live goroutine, crash between a batch and its count, a save the database does not count | a cleanup that succeeds is complete and counted; a loser stops writing |
| **Console: log maintenance** (`web/default/.../maintenance/log-settings-section.tsx`) | the task shown, a polling effect, GETs that are joined | start, first look, poll | answers out of order or lost | polls never take the page back; an ended cleanup is shown ended |
| **Console: reconciliation** (`web/default/.../features/smart-ops`) and its batch endpoints (`service/smart_ops_alert.go`) | a polled list, a selection by revision, a dialog, a mutation | select, close, settle at zero, type quotas | a list replaced under a selection, lost answers and repeated requests, a batch that fails half-way | nothing is asked that was not shown; what the page reports is so |
| **Channel cache, selection, affinity** | tables refreshed by polling | weighted choice | stale table | disabled channels disappear |
| **Channel health** (`pkg/channelhealth`) | per-channel windows in Redis under WATCH | evaluate, recover, restore | concurrent evaluations, duplicated evidence | one demotion per window, recovery possible |
| **Rate limiters** (`common/limiter`, `common/rate-limit.go`) | sliding windows | allow | concurrency | no more than the limit per window |
| **Redemption, top-up, payment callbacks** | orders and codes with a status | redeem, complete, expire | duplicated callbacks | credited at most once |
| **Authentication flows** (`model/auth_flow.go`) | one-time records | create, consume | two consumers | consumed once |
| Relay and adaptors, realtime frames, options, authorization, billing expressions, task plugins, alerts, metrics, the rest of the web console | configuration and data transformation | | | out of scope, see section 7 |

How they interact. A request's goroutine (`controller/relay.go`) opens a
session through `service.PreConsumeBilling`. The session submits operations to
the store under keys derived from the request id
(`request:<id>:pre-consume`, `...:reserve:<n>`, `...:finalize`; settle and
refund share the last one). The store moves the balances of user, token and
task in the row's own transaction, stages cache invalidations in it, and
projects the effect afterwards. The runners of all nodes work on the same
rows at any time. Asynchronous tasks submit operations of their own keys,
bound to the quota the task must still have; one that cannot be applied is
held, and leaves the hold through an administrator or a later poll. The console
names rows by the revision it was shown. Every mutation of a balance stages a
cache invalidation, which readers ask for before they trust Redis.

The hazards these behaviours expose the code to, each at its line, with the
properties that watch them, are listed in `PROJECT.json`.

## 2. Plan

Done, in this order:

1. `BillingSettlement`, the store and its runners, with the ledger
   `OnceLedger` it implements; its proofs in `BillingSettlementProofs`.
2. `BillingSession` over the store: one request of a wallet.
3. `ManualCompletion` and `BillingReview`: what administrators do to a row that
   is held or pending; `TaskQuota`, the promise both task modules implement.
4. `TaskLifecycle`: polls, sweeps, realtime reads and retries of one task.
5. `LogCleanup` under `LogCleanupConsole`: a leased system task and its page.
6. `SettlementConsole`: the reconciliation page and its batch endpoints.
7. `CacheFence`: versioned refills against the invalidation outbox.
8. The proofs of the modules around the store: `BillingSessionProofs`,
   `BillingReviewProofs`, `ManualCompletionProofs`, `TaskLifecycleProofs`,
   `CacheFenceProofs`, `LogCleanupProofs`, `SettlementConsoleProofs`.

Next, by what they would add:

1. `SubscriptionFunding`: period reset against refund and post-consume delta;
   the session over the subscription source.
2. The effect store and the log cleanup in one model (the receipt that keeps a
   log row from being written twice may be cleaned up before the retry).

## 3. Modules

| Module | What it is |
|---|---|
| `OnceLedger` | abstract: an amount is proposed under a key once, then committed in one step or held |
| `BillingSettlement` | the store, the effect projection, the runners, the funds |
| `BillingSettlementProofs` | its inductive invariant, the theorems about rows, processes, balances and the books, and the refinement of `OnceLedger` |
| `BillingSession` | EXTENDS the store with one request's session |
| `BillingSessionProofs` | EXTENDS both it and the store's proofs: a session is a client of the store, has one outcome, charges what was asked, and knows its rows |
| `TaskQuota` | abstract: a task's reservation is settled once, a part of it given back or more charged |
| `ManualCompletion` | a held settlement of a task: approval, child settlement, resolution, reviews of its alert, and the poll that reopens it |
| `ManualCompletionProofs` | its safety, and the refinement of `TaskQuota` |
| `BillingReview` | a user's stuck settlements: retries that record failures, single and batch reviews |
| `BillingReviewProofs` | a review replaces what its author read and stands for what it was made on, and an explicit block outlives retries |
| `TaskLifecycle` | one task from submission to its terminal status and settlement |
| `TaskLifecycleProofs` | its safety, and the refinement of `TaskQuota` |
| `TaskProgress` | EXTENDS it with the moment from which faults cease, for liveness |
| `LogCleanup` | cleanup tasks, leases, the goroutines that delete |
| `LogCleanupProofs` | what a cleanup reports, that a loser stops, and (EXTENDS the page too) that polls go forward |
| `LogCleanupConsole` | EXTENDS it with the page that starts and watches a cleanup |
| `SettlementConsole` | the reconciliation page and the endpoints it calls |
| `SettlementConsoleProofs` | what the page asks for and what it reports |
| `CacheFence` | one cached entity, its outbox, its readers |
| `CacheFenceProofs` | with an empty outbox the cache is true |
| `MC...` | what each run submits, and who takes part in which scene |

An `MC` module often has one more variable, fixed at the start (`scene`,
`crew`, `cast`): it chooses which processes and inputs a behaviour has, so that
one run covers several small instances and no behaviour needs them all at once.

### BillingSettlement and the code

One row per operation key: `status`, `intent` (the immutable input columns),
`appliedDelta`, `appliedToken`, `effectStatus`. The funds: `wallet`,
the token (`tokenLive`, `tokenRemain`, `tokenUsed`), `taskQuota`, and
`selection` (the pre-consume selection table). The projection: `logRows` counts
the log rows of an operation, `usedQuota` and `requestCount` the counters. A
process has a program counter `pc`, an argument `arg` and `permanent` (what
kind of failure it is about to record).

An action is one database round trip:

| `pc` | Code | Outcomes |
|---|---|---|
| `ensure` | `ensureBillingSettlementRecord`: insert if absent, re-read, `validateBillingSettlement` | inserted, found pending, found applied, refused (conflict, held), failed with the insert committed or not |
| `apply` | the transaction of `ApplyBillingSettlementOnce`, under the row lock | committed and acknowledged, committed and not, found applied, refused (retryable or permanent), failed |
| `mark` | `markBillingSettlementFailure`: guarded update | pending or held; or the update itself fails |
| `effect`, `log`, `usage` | `ProcessBillingSettlementEffect`: read the row, write the log with its receipt, claim and count | each may fail, each may commit unacknowledged |

`Crash(p)` drops a process between any two round trips. Callers may submit any
input at any time; a runner takes any row that is pending (`RunnerTake`) or
whose effect is pending (`RunnerTakeEffect`). `next_attempt_at` and its backoff
are abstracted: a runner may take a due row at any moment. `TopUp`,
`DeleteToken` and `SubscriptionClaims` are what other parts of the program do to
the same rows.

One user, one token, the wallet as source: operations of different users share
no row. Amounts are small integers; the width of the balances in the code (64
bits with explicit capacity checks) is not modelled. The transaction of `apply` is
one step: a refund that may do without its token and finds it deleted between
the transaction's own SELECT (`S:1152`) and its UPDATE (`S:2035-2041`) records
the token leg although nothing moved; the model records what moved.

### BillingSession and the code

The fields of `BillingSession` and `WalletFunding` are variables of the same
names. Each goroutine of the request has a `job`; its calls of the store are the
store's own actions `Call(p, in)` ... `Return(p)`, so runners of other nodes
interleave with every round trip. `Reserve` holds the mutex over the call
(`locked`); `settleWithEffect` and `Refund` do not, and guard themselves with
`settleInFlight` and `refundInFlight`. `Settle` makes up to `MaxAttempts`
attempts, each computing its delta anew. `SettleNothing` is the exit that leaves
no row. When the node dies the session ends and its goroutines stop where they
are; the runners go on.

What the model takes as given, and why:

- request ids are generated by the server, so the keys belong to one session
  (`middleware/request-id.go`);
- reservations precede the first `Settle` or `Refund` (`closing`): the relay
  calls them in this order, and a realtime request waits for its workers
  before it settles;
- the trust bypass may or may not be taken: it depends on cached balances;
- the session is funded by the wallet, is not bound to a task, and consumption
  logging is on.

### ManualCompletion, BillingReview and the code

`ManualCompletion` has the original row of a held task, the child settlement
an administrator's approval creates, the task's quota and the account's mirror
of it. A process (administrator, poller, retry loop) makes one database round
trip per action: ensure the child with its approval
(`EnsureManualTaskBillingCompletion`), apply the child, read back, resolve
(`ResolveManualTaskBillingSettlement`), promote
(`PromoteManualTaskBillingSettlement`), record a failure; it may die between
any two. Beside them any administrator may review the alert of the original
(`ReviewOriginal`: `ReviewBillingSettlement` with a note, or a batch without
one), which writes the reviewer and the note at the same revision; only a row
that is held with nothing decided (`RequiresCompletion`) refuses it. A child is
never reviewed. A failure of the original withdraws the review
(`WithdrawReview`), one of the child never does.

`BillingReview` has rows with status, revision, cause and review columns;
`markBillingSettlementFailure` and a single review are two round trips each, a
batch review one transaction on the revisions shown. Any number of processes
record failures: the caller of a settlement and the runner of every node work on
one row without a common lock, and the update compares the status alone. The
single-review endpoint of the code carries no revision, so it reviews what it
reads. A batch may replace the explicit block another administrator set since the
list was shown, because a review moves no revision; it cannot replace another
failure. The admission check that an open alert feeds
(`HasUnresolvedPositiveFinalizeSettlement`) is one query before the pre-consume
and is not modelled.

### TaskLifecycle and the code

The task row (status, quota, evidence, private data with the frozen usage,
`updated_at`), its two settlement rows, the provider's state, and a copy of the
row per process. The two compare-and-swap disciplines of `model/task.go` are
kept apart: publishing evidence compares status and `updated_at`, every other
write compares the status alone and stores the whole row as read. Values of
`updated_at` are told apart only from those somebody has read.

A task is of one of five kinds: billed by a frozen *plan*; by a plan that turns
out *invalid* (`service/task_billing.go:425-440`); by a plan although its upstream
id never came (*placeholder*); by a *delta* against the reservation; or
*unconfirmed* without a plan. The provider's usage is missing, partial (which
stands for whatever cannot be billed) or complete, and `finalQuota` is what it
comes to, within or above the reservation. A plan that cannot be billed is held
(`HoldManually`) with its reason: an invalid plan, missing or partial usage
(`:510-523`), a quote above the reservation (`:446-449`), or a funding that
failed. A later poll lifts the hold for usage only (`Promotable`), and only if
what was frozen was missing; the others are left to `ManualCompletion`'s
administrator. The submission's own settlement may be held too, and then no poll
decides anything. A delta above the reservation charges the user the rest
(`buildTaskFinalSettlementInput`), so the promise `TaskQuota` takes any final
quota. `MarkTaskSubmitNeedsReview` (`model/task.go:944-962`) belongs to a
submission whose task was accepted but not finalized; on a failed task it
rewrites the reason. It and the Suno poller's own handler, which shares the path
of the delta kind, are not modelled.

### LogCleanup, LogCleanupConsole and the code

`system_tasks` rows with the lease (`locked_by`, unset, valid or lapsed), the
saved state and the target date its payload carries; the log rows and receipts,
each by the second it was written in; per goroutine the point it has reached in
`runLogCleanupTask`. Each cleanup deletes and counts what is older than its own
target, and a start that finds one under way joins it whatever its date. The
deletions are not fenced by the lease, as in the code. Targets lie in the past,
so matching rows only shrink; a process that restarts is another runner.

A save is answered by the number of rows it affected, and none is read as a lost
lock (`model/system_task.go:199`). On MySQL, without `clientFoundRows`, that is
also the answer to a save that changes no column: the same counts, in the second
of the last write. `GivesUp` is this outcome: the goroutine leaves a task that
is still its own, and the lease has to run out before another one goes on. The
percentage of the state is left out, so the model allows it in one place more
than the code (a first count of no row).

The console is one of the administrators: the first look, the start, and the
polls of the effect that the last render installed, with joined GETs. The older
endpoint that deletes within the request (`DeleteOldLogsCompat`) keeps no task
and is not modelled.

### SettlementConsole and the code

Server side: rows with kind (request, task, H3 task), status, revision, alert
and approved quota; `ReviewBillingSettlements` as one transaction; both batch
completions as validation of every target, then a loop of completions, each
of them one step or a half-way stop (`ManualCompletion` has its
transactions). Two actions are what others do to a row meanwhile: `Rewrite`,
which moves the revision (a failure, a retry, a promotion), and
`ReviewElsewhere`, another administrator's single review, which decides about an
alert, closed or not, at the same revision; with `block_user` it opens the
closed alert of a request again. Client side: the list (`view`), the GET under way (`get`), the
selection by revision, the dialog with its targets, the mutation, which stays
pending until its refetch came, and `told`, what the page has reported.
`api.get` joins the GET of the same URL that is under way (`Refetch`).

### CacheFence and the code

One entity: its row, its outbox rows (`delete_entry` is part of their unique
key, so there can be two), the cached hash by field, its generation and the
shared sequence. A mutation and its task commit together; the dispatch, the
runner (a batch loaded at once and worked off), the in-memory retry of
`invalidateSubscriptionUserCache`, and the readers (the whole hash, or one
field) are a round trip per action. Of a deleted user the reader of the whole row
gets an error and stores nothing, whereas the readers of one field
(`GetUserQuota`, `GetUserGroup`, `GetUserSetting`: `Find`) get a zero without an
error and store it. The scripts of `common/redis.go` and the
WATCH of `redisHSetIfVersion` are atomic. `promised` is the last mutation that
was staged, or whose invalidation was executed. Taken as given: Redis keeps its
data (were the version sequence lost, a generation could come back), and ids of
outbox rows are not used again.

## 4. Runs

| Run | Question | Bounds |
|---|---|---|
| `Billing` | do two goroutines and a runner ever double, lose or misreport the operations of a request, or let refund and finalization of a task both take effect? | 2 callers, 1 runner; scene *request*: one pre-consumes and settles with an effect while the other pre-consumes another amount and refunds; scene *task*: one reserves for the task and refunds it, the other finalizes it |
| `BillingRecovery` | is everything left pending eventually resolved and projected? | 1 caller, 1 runner, 1 key with two competing inputs |
| `Session` | do overlapping calls of one session end in one outcome and one charge, and does it know what its reservations took? | 2 goroutines, 1 runner, quotas 0..2, 2 attempts; scenes *race* (both settle or refund), *reserve* (opened at 0 or 1, up to 2 reservations, metered at 0 or 2), *effect* (with usage, perhaps trusted; the token is deleted, the node dies) |
| `Manual` | is a held task settled once, by one recorded approval, whatever reviews its alert gets? | 2 administrators, or 1 and a poll; 1 retry loop; quotas 0..2, revision up to 4; reviews of the original by any of them, with any note or none (the default note only, beside the poll) |
| `Review` | does a review replace, or later cover, a failure its author had not read, and is a block lifted by accident? | 2 records, 1 administrator and 1 recorder (revision up to 2); or 1 record, 2 administrators and 1 recorder (up to 3); or 1 record, 1 administrator and 2 recorders, who may overtake each other (up to 4); 2 transient causes and a permanent one |
| `Task` | do polls, sweeps, reads and retries end a task in one status with the settlement it calls for? | 2 polling processes, alike (symmetry); all five kinds, usage missing, partial or complete; reservation 2; final quotas 1 and 3 for a plan, 0, 1 and 3 for a delta, 1 for the others; a realtime read beside a delta of 1 |
| `TaskEnds` | does every task end, and not for lost evidence, unless it is an operator's to end? | 1 polling process, any number of crashes and failed fetches; all five kinds, final quotas 1 and 3 of a reservation of 2 |
| `TaskEvidence` | *(violated)* is an applied finalization always recovered as the provider's status? | 1 polling process, 1 realtime read |
| `Cleanup` | is a cleanup that succeeds complete, does every cleanup end, and does the page follow? | 2 runners, 2 goroutines, 2 administrators, 2 tasks with targets of their own (2 or 3), log rows of seconds 1 and 2, 1 receipt, batches of 1; with the page: 1 runner without faults, 1 lost answer; without it: 2 runners and 1 fault or lapse, or both if there is one cleanup |
| `Console` | is what the page asks for what it showed, and what it reports so? | 2 rows of five pairs of kinds, quotas 0 and 1, revision up to 2, 1 fault; 2 requests at once for two H3 tasks, 1 for the other pairs; another administrator's review of the second row when it is a request's |
| `Cache` | is the cache true whenever the outbox is empty, and is the outbox always emptied? | 2 processes, 1 reader, 2 mutations; scenes *two writers* (one may delete, the reader refills one field) and *unstaged mutations*, each with 1 fault or crash, and *two runners* without |
| `CacheTrust` | *(violated)* is a reader ever answered with less than was committed when it asked? | the same |

Why the bounds are enough to be interesting: every conflict in this code is
between two writers of one row (two callers, a caller and a runner, two
administrators), between two rows of one fund, or between a reader and one
later writer. `Billing` has three processes on one row, two rows on one wallet,
a wallet that covers the pre-consume exactly, and a settlement that does not
fit without a top-up; its task scene two refunding rows for one quota. A third
runner adds no new kind of pair. Two log rows with batches of one make a
cleanup stop between batches; two mutations make a task be staged again while
it is executed; two targets make a batch that fails after its first item. Two
log rows under two dates make the second cleanup have a share of its own, or
none. Four revisions let one recorder repeat a cause that another one replaced
and an administrator reviewed; a final quota above the reservation is 3, one
within it is 1.
The scenes divide what the bounds allow together: each keeps the pair of
processes whose interleaving is in question and leaves out what another scene
has, so that a run takes a minute or two. Where a scene leaves something
out, the proofs of section 6 cover the general case; liveness rests on the
scenes alone.
`MaxWallet`, `MaxReserves`, `MaxAttempts`, `MaxRevision`, `MaxTasks`,
`MaxFaults`, `MaxSlow`, `MaxLost`, `Calls`, `MaxWrites` bound what is unbounded
in the code; `MaxAttempts` is 2 instead of the code's 3, since the third attempt
repeats the second. The liveness runs are small: with two runners the liveness
graph of the store does not fit the time of a regression run.

`CHECK_DEADLOCK FALSE`: in the session, review, cleanup, console and cache runs the
bounds are used up in the end, or the request is over, and nothing is left to
do. In the other runs deadlock is checked, or a process can always go on.

Properties, by module (each has a mutant in `PROJECT.json`: a plausible
regression of the code, marked *regression* in the modules, that breaks it):

- store: `BooksBalance` (balances and counters are what the applied rows and
  effects say), `MoneyMovesWithItsRow`, `NeverOverdrawn`, `SuccessMeansApplied`,
  `RowsAndProcsAgree`, `RowsAreFrozen`, `OneSourcePerRequest`,
  `EffectFollowsFunds`, `PendingIsResolved`, `EffectsLand`, `ImplementsLedger`;
- session: `SessionKnowsItsRows`, `NetChargeIsWhole`, `OneOutcome`;
- held tasks: `ClosedByApproval`, `SuccessIsTrue`, `PaidApprovalStands`,
  `ApprovalIsFinal`, `ImplementsTaskQuota`;
- reviews: `ReviewMatchesEvidence`, `ReviewsReplaceWhatTheyRead`,
  `BlockIsLiftedOnPurpose`;
- tasks: `TerminalIsSettled`, `SuccessIsTheProviders`, `TerminalIsFinal`,
  `ImplementsTaskQuota`, `EventuallyEnds`;
- cleanup: `SuccessIsClean`, `ReportIsWhole`, `LoserStops`, `ProgressIsKept`,
  `CleanupEnds`, `PollsMoveForward`, `ShownCleanupEnds`;
- reconciliation page: `ToldIsTrue`, `AnswerIsWhole`, `AsksWhatIsShown`;
- cache: `TrustedIsTrue`, `FenceIsLifted`.

## 5. What does not hold

Two runs are violated; each checks what a comment of the code says.

- **TaskEvidence** (`NotMisclassified`). "A crash after promotion must remain
  recoverable as the provider's terminal state": a realtime read that loaded
  the task before a poller published its terminal evidence stores its old row
  over it, because a non-terminal status write compares the status alone
  (`relay/relay_task.go:882`). The sweep then finds an applied settlement
  without evidence and calls the task's evidence missing. With one poller and
  no reader the property holds (`TaskEnds`).
- **CacheTrust** (`FreshReads`). "Readers must not trust or refill that entity
  cache while its task is still pending" (`model/cache_invalidation_task.go:95`).
  `cacheGetUserBase` reads the hash and only then asks for pending tasks
  (`model/user_cache.go:427`), and so does `cacheGetTokenByKey`. A reader that
  starts after the commit, reads the hash before the dispatch removes it and
  asks after the dispatch deleted the task answers with the old row. Asked
  before the hash is read, the property holds; the refills are safe either way
  (`TrustedIsTrue`), since they also compare the generation.

Other deviations the models show, which no run checks:

- A reservation that failed may be applied later: its row is due from its
  insertion (`S:1522`), and when the insert commits unacknowledged nothing is
  recorded (`S:1098`). `SessionKnowsItsRows` says how far it goes: at most one
  reservation, that of the revision used next. (`FailedReserveStaysUnapplied`
  in `BillingSession`; the test at
  `model/billing_settlement_regression_test.go:1402` covers the case where the
  failing process records the failure.)
- A cumulative reservation can fail after the request was released
  (`ReserveFailsBeforeRelease`; `service/quota.go:158` against the comment at
  `S:561`).
- An approved quota does not stand for good: a poll that brings the usage may
  reopen the row before the child is applied (`ApprovedQuotaStands` in
  `ManualCompletion`). `PaidApprovalStands` is what holds.
- A review may stay on a failure that nobody reviewed (`NewFailureReopens` in
  `BillingReview`). Two recorders read the row with the old cause; one marks a new
  cause, an administrator reviews that, and the other one, which judges the
  failure from the row it had read (`S:1673`) and compares the status alone
  (`S:1675`), stores the old cause as nothing new and keeps the review. The test
  says "new failure evidence must reopen the operational alert"
  (`model/billing_settlement_regression_test.go:935`). In the same way an
  overtaken recorder may mark the same cause as news and lift an explicit block.
  `ReviewMatchesEvidence` and `BlockIsLiftedOnPurpose` except exactly the updates
  of a recorder that another update overtook.
- On MySQL a cleanup may never end (`Ends` in `LogCleanup`). Once the rows are
  deleted, each goroutine that takes the task over counts none and saves the
  stored counts in the second of its claim; the save affects no row, which is read
  as a lost lock (`model/system_task.go:199`, `service/system_task.go:229`), and the
  goroutine gives up a task it holds. The test renews a lease several times within
  a second and expects the task to succeed (`service/system_task_test.go:60`).
  `CleanupEnds` is what holds: it asks that such saves are seen from some time on
  (`SavesAreSeen`), which PostgreSQL and SQLite always do.
- Admission is one query (`B:985`) and the pre-consume a later transaction; a
  request admitted before a settlement fell to pending is served. This is read
  from the code; no module has it.
- The refetch after a review may join a GET that was read before it, so the
  closed alerts are offered again until the next poll (`ClosedIsNotOffered` in
  `SettlementConsole`, `web/default/src/lib/api.ts:73`).
- A process may claim a cleanup it already runs; the older goroutine can save
  its smaller total over the newer one's. A deletion still in flight when its
  goroutine loses the task can make the successor fail with "no log rows were
  deleted". A start joins the active cleanup whatever its target date. The
  answers to the page's first look and to its start are not ordered with the
  polls.
- `enqueueUserCacheRetry` writes only the first failure of an entry to the
  outbox; one enqueued while the entry exists lives in memory alone
  (`model/user_cache.go:160`). It concerns mutations that stage nothing.

## 6. Proofs

Every module below is proved for all values of its constants; TLC checks the
invariants and action properties they state on the instances of section 4.

### The store

`BillingSettlementProofs` proves, for any sets of keys, inputs, callers,
runners, tasks and requests, any initial balances and any `MaxWallet`:

| Theorem | Statement |
|---|---|
| `TypeCorrect` | `Spec => []TypeOK` |
| `RowsAgree` | `Spec => []RowsAndProcsAgree` |
| `SuccessIsTrue` | `Spec => []SuccessMeansApplied` |
| `EffectsFollow` | `Spec => []EffectFollowsFunds` |
| `Frozen` | `Spec => RowsAreFrozen` |
| `MoneyMoves` | `Spec => MoneyMovesWithItsRow` |
| `NothingOverdrawn` | `Spec => []NeverOverdrawn` |
| `OneSource` | `Spec => []OneSourcePerRequest` |
| `BooksAreBalanced` | `Spec => []BooksBalance` |
| `StoreImplementsLedger` | `Spec => ImplementsLedger` |

Assumptions: `InputsAssumption` and `BalanceAssumption` of the module (types of
the constants, and model values outside the types they extend), and, for
`NothingOverdrawn`, `TargetAssumption`: the quota an input leaves its task with
is not negative (`validateBillingSettlementInput` ties the target to the
delta, and every caller's target is 0 or a metered quota,
`service/task_billing.go:319,366,633`). TLC evaluates them in every run.

The argument. `SuccessMeansApplied` is not inductive: that a process about to
return success finds its row applied depends on what it read two or three
round trips earlier. The inductive invariant is `IInv == TypeOK /\
RowsAndProcsAgree`, where `RowOK` says what a row implies about itself by
status, and `ProcOK` what a process at each label knows about its row: from
`apply` on, the row exists and its intent is the same operation as the
process's argument; from `effect` on, it is applied; at `usage`, its log row
exists. Two monotonicity lemmas (`RowsKept`, `ProcKeeps`) say that such
knowledge survives any other process's step, because rows only advance and
intents never change. Then one lemma per writing action (`InsertStep`,
`CommitStep`, `MarkStep`, `LogStep`, `UsageStep`) re-establishes the row, the
lemmas on idle, ensure, apply and effect steps cover the disjuncts of `Next`,
and `NextStep` combines them. The theorems follow by `PTL`. TLC checks
`TypeOK` and `RowsAndProcsAgree` in `Billing`.

For the money, `StepKinds` sorts the steps of `Next` into five kinds: an insert,
a commit, a mark, a credit, and the rest, which touch neither rows nor
balances. Only a commit needs an argument: its process holds the row's own
intent (`ProcOK`), so what the transaction moves is what the row says
(`CommitMoves`), and the conditions of its statements keep balances from
going negative (`CommitCovered`). `OneSource` adds that a stored selection stays
(`SelectionStays`). The refinement maps an insert to `Propose`, a commit to
`Commit`, a mark of an open row to `Hold`, a top-up to `Credit`, and everything
else to a stutter.

`BooksBalance` says that what left each balance is the sum of the applied rows,
and that each usage counter is the sum of the counted effects. The invariant
(`Books`) keeps the applied rows a finite set, whatever `Keys` is. A step either
commits a row, which adds one key to the sum with the amount that moved
(`FundsClosed`, from `CommitMoves`), or counts an effect, which adds one key to
the counted ones (`UsageCounted`: the guarded update of the effect's status and
the counter are one transaction), or is not seen by the books (`BookKinds`).
The sums are the folds of the community modules. The induction they need is
over finite sets only, and it is made without a theorem that takes an operator:
if a law of sums failed for some finite set, it would fail for a smallest one
(`Smallest`, from the well-foundedness of strict inclusion), and for a smallest
one it does not. So `SumFirst` shows that the fold satisfies its recursion, and
`SumTake` and `SumAdd` that an element may be taken out or put in, in any order.

### The session

`BillingSessionProofs`, for any goroutines, runners, amounts and numbers of
attempts and reservations:

| Theorem | Statement |
|---|---|
| `SessionIsAClient` | `SessionSpec => Spec` |
| `OneOutcomeHolds` | `SessionSpec => []OneOutcome` |
| `ChargesAreWhole` | `SessionSpec => []NetChargeIsWhole` |
| `SessionRemembers` | `SessionSpec => []SessionKnowsItsRows` |

`SessionIsAClient` is not free: `Spec` lets callers submit the inputs of
`Inputs` only, so it must be shown that whatever a session computes from what it
holds (`target - preConsumed`, `actual - preConsumed`, `consumed`) is an
operation the store was proved for. `SubmittedAssumption` says that `Inputs`
has the operations of one request over `Amounts`; that a session never computes
another one is the invariant's part: what it holds is always one of the amounts
(`HoldingsOK`). All theorems about the store follow for the session's rows.

`OneOutcome` needs the invariant `SessionInv` beside the store's. A session
that settles without a row (`SettleNothing`) leaves nothing in the database
that could stop a refund; what stops it is that the two in-flight flags are
read under the mutex, and that a flag that is down means that no goroutine has a
finalization under way (`SettleJob`, `RefundJob`, `OneAtATime`). `EndsOK` then
says of a settled session that either no row exists and no goroutine can still
write one, or the row is applied and not a refund; `InputsOK` says that the
finalize row carries the effect `Settle` was asked for, also when a runner has
it. `RoundTrip` is what the session sees of the store's steps, its own and the
runners': one process moves, rows advance, and a row is inserted by a process
that ensures it. One lemma shows that the session's knowledge survives any
round trip, and one per action of the session that it survives that action.

`ChargesAreWhole` and `SessionRemembers` rest on one more invariant,
`Remembers`, which relates three places that hold the same amount: the
session's memory, the rows it knows (the pre-consume and the reservations up to
`reserveRevision`), and the finalization, which subtracts the one from what was
asked. From the pre-consume on, and for good once the session is being
finalized, the known rows are applied and add up to `consumed` (`KnownOK`). No
reservation beyond the next one has a row (`AheadOK`): a failed reservation is
repeated under the same key. Every finalization there is, in a goroutine's or a
runner's hands or stored as a row, either gives all of `consumed` back or
completes it to a quota `Settle` was called with, and there is none unless the
session is closing (`FinalsOK`). The last part is what makes the delta right:
it was computed from `consumed`, so no reservation may still succeed between the
computation and the commit. While the session is open the known keys grow by
one when a reservation returns applied (`ReserveEndRemembers`), and the sum of
the known rows grows by that row's amount (`KnownGrows`). Steps that leave the
session's memory and the finalization alone are `Calm`, whatever rows they
move. `RestTyped` adds the types of what the invariant does not mention.

### Reviews

`BillingReviewProofs`, for any records, administrators, recorders and causes, and
any bound on the revisions:

| Theorem | Statement |
|---|---|
| `ReviewsCoverWhatTheySaw` | `Spec => []ReviewMatchesEvidence` |
| `BlocksAreLiftedOnPurpose` | `Spec => BlockIsLiftedOnPurpose` |
| `ReviewsKnowWhatTheyReplace` | `Spec => ReviewsReplaceWhatTheyRead` |

No hypothesis limits who records failures. The code does not prevent two of them
from overlapping, so the properties say themselves what an overlap may do:
`overtaken[r]` is a history variable that turns true when a recorder updates the
row after another update since it read it (`Overtaken`), and false when the row is
reviewed. As long as it is false a standing review is a review of what the row
shows; nothing else, neither a retry that applies the row, nor batches and
single reviews of any number of administrators, can part the two.

A failure record decides from a row read one round trip earlier, and a review
from a screen or a snapshot. What both know later is told by the revision
(`Since`): it never falls, and an equal revision means equal status and cause.
A recorder that was not overtaken therefore compares with the evidence that is
still stored (`MarkerOK`), and the comparison of revisions is sufficient for both
kinds of review (`ReviewerOK`). `RowMoves` collects what every step does to a row.
`ReviewsReplaceWhatTheyRead` follows without the exception: the guard of a review
does compare the revision, which every recorder moves.

### Held tasks and the life of a task

| Module | Theorem | Statement |
|---|---|---|
| `ManualCompletionProofs` | `HandClosingIsBacked` | `Spec => []ClosedByApproval` |
| | `CompletionAnswerIsTrue` | `Spec => []SuccessIsTrue` |
| | `PaidRefundIsFinal` | `Spec => []PaidApprovalStands` |
| | `ChildApprovalIsFinal` | `Spec => ApprovalIsFinal` |
| | `ManualRefinesTaskQuota` | `Spec => ImplementsTaskQuota` |
| `TaskLifecycleProofs` | `TaskEndsSettled` | `Spec => []TerminalIsSettled` |
| | `TaskSucceedsTruly` | `Spec => []SuccessIsTheProviders` |
| | `TaskEndsOnce` | `Spec => TerminalIsFinal` |
| | `TaskRefinesTaskQuota` | `Spec => ImplementsTaskQuota` |

For any administrators, pollers, retry loops and readers, any reservation, any
approved and polled quotas within it, and in `TaskLifecycle` any final quotas,
those above the reservation included. Assumed: at least one quota may be
approved (with none there is no administrator's request to speak of), and the
names in the rows are told apart (`NameAssumption`).

In `ManualCompletion` the invariant ties the two rows to each other
(`RowsAgree`: as long as the original has not been paid, the child decides the
quota) and a request to its child: from the approval to the answer the child
carries that request's own quota, reviewer and note (`RequestOK`). Reviews of the
original write the columns that a resolution writes, so that a reviewer alone
does not show that the original was completed. What does is the revision:
`RevisionOK` says that a request that finds another quota than its own at the
resolution has been overtaken by a promotion and its commit, two revisions
later, and such a request does not resolve. A repeated request recognises its
own resolution by the revision after its own and by the reviewer and note of the
applied child (`ResolvedAt`), and reads the task's quota back before it answers.

In `TaskLifecycle` a process works on a copy of the row that others overwrite.
`ProcOK` says what a copy is still good for: it is the copy of an open task, its
evidence is what the provider ended with, and a process about to publish a
terminal status has seen that status while the funding was applied.
`BooksAgree` says which settlements a kind of task may have in which status, and
that a plan is only ever settled within its reservation. Both modules map to
`TaskQuota` with the quotas that each can settle for (0 to the reservation; 0
and the final quotas): the step that commits a settlement writes the quota and
gives back, or charges, the difference to the reservation, once, and everything
else is a stutter.

### The cleanup, the page, the cache

| Module | Theorem | Statement |
|---|---|---|
| `LogCleanupProofs` | `LateRunnerStops` | `Spec => []LoserStops` |
| | `SuccessLeavesNothing` | `Spec => []SuccessIsClean` |
| | `ReportSurvivesTakeover` | `Spec => []ReportIsWhole` |
| | `ProgressSurvivesTakeover` | `Spec => ProgressIsKept` |
| | `PollsGoForward` | `ConsoleSpec => PollsMoveForward` |
| `SettlementConsoleProofs` | `ToldStaysTrue` | `Spec => []ToldIsTrue` |
| | `AnswersAreWhole` | `Spec => []AnswerIsWhole` |
| | `RequestsNameWhatIsShown` | `Spec => AsksWhatIsShown` |
| `CacheFenceProofs` | `EmptyOutboxMeansFresh` | `Spec => []TrustedIsTrue` |

*Cleanup*: for any runners, goroutines, administrators, finite log, targets and
batch size. Nothing fences the deletions, so the counters must be argued about
together. Each cleanup has a share (`Size`): the rows older than its own target
that no earlier cleanup which succeeded had reached. No counter claims more than
was deleted of it (`Counts`, `Cleared`), though a late goroutine of an earlier
cleanup still deletes, since it deletes below the target of its own task
(`WorkerOK`). Cleanups end in their order, and nothing is deleted before the first
(`OneAtATime`), so a share is fixed before its cleanup starts to count
(`ShareKept`). For the first report, the goroutine that
holds a task nobody took from it is ahead of what it saved (`OneHolder`); the
total is saved before the first row is deleted, and who holds the task measures
against it (`FirstWhole`). Tasks a process claimed a second time (`doubled`) are
excepted, as in the property. A save that is taken for a lost lock is a goroutine
that returns and changes no row. Assumed: at least one runner exists. The `Cleanup`
run has these properties under `LogCleanupConsole`, whose page adds no step to
the cleanup (`ConsoleStep`).

`PollsGoForward` is about the maintenance page, for any polls under way and any
number of lost answers. Three copies of a row are compared: the one on the
screen, the one in an answer under way, and the row. If the screen shows a
poll's answer, the row is not behind it, and neither is the next answer about
the same task (`AnswerOK`). There is one poll under way, about the task of the
polling effect (`PollOK`), because a tick joins the request for the same address
and a new effect's render cancels what still waits; without that an old answer
could come after a new one. The row's part is `KeptStep`, which also proves
`ProgressSurvivesTakeover`. Both except the count of a task that a runner
claimed again from its own live goroutine (`doubled`): the two goroutines then
save their own counts in turn, the row may fall back, and a poll's answer with
it. An end, once shown, stays in any case. The page's scene of the `Cleanup` run
has one undisturbed runner; the theorem has any number, with lapsing leases.

*Page*: for any rows, quotas, requests at once, revisions and faults.
`Keeps(r, revision, quota)` is what may be reported of a row asked for at a
revision; it is stable under every step on a row (`Moves`), so the answer that
is under way (`DoneOK`) and what was told (`ToldOK`) stay true; a review elsewhere
is one of these steps, and what it opens again counts as decided by somebody
else. `Account` counts
a batch at each of its points: done, failed and still to do make up what was
asked, so an answer leaves no task out. `ViewOK` and `GetOK` carry the list from
the server to the request: what is asked has a revision that was listed.
`BoundAssumption` asks for `MaxRevision` of at least 1, the revision of a new row.

*Cache*: for any processes, readers, mutations and faults. The invariant is
`StaleIsFenced`: as long as a field is older than promised, or a reader may
still store such a value under the current generation (`Storable`), the outbox
has a task that nobody has executed yet. It needs that a task in some process's
hand (`Held`) is the one the outbox holds or an earlier revision of it
(`HeldWasStaged`): completing it deletes by id and revision, so a task staged
again meanwhile survives. With an empty outbox nothing stale is left. That no hash
of a deleted row answers anybody is a second invariant (`NoBaseOfAGone`): a zero
found after the deletion is stored by the readers of one field only, and never in
the base, without which `cacheGetUserBase` takes no hash for a hit.

### Only model-checked

Everything under fairness: the provers at hand do not reason about `ENABLED`.

### Fairness

The store's `FairSpec` assumes it of the runners only. The runner of a node
ticks every second as long as the process lives
(`StartBillingSettlementTaskRunner`, `S:314-348`), loads up to 100 rows and serves
each of them; the model has fewer rows than a batch. Weak fairness makes a
runner finish what it began. Strong fairness per row says that an attempt that
is made again and again eventually gets past each of its round trips: crashes
and transient database errors may occur any number of times, but not every
time. Nothing is assumed of callers, which may die with their work half done.
`PendingIsResolved` excepts only a row whose own token leg needs a token that was
deleted (`TokenMissing`): a missing token is a retryable error in the code
(`S:1150-1165`), so such a row does stay pending. A refund that may do without
its token, or a row without a token leg, is not excused by the deletion of a
token. `EffectsLand` excepts a negative usage quota, which
`ProcessBillingSettlementEffect` refuses on every pass (`S:1821`).

The other liveness runs. *TaskEnds*: the polling loop of a process has no exit
and goes on (weak fairness); from some time on (`FaultsCease`) the process
stays up and the provider answers, and a retry that is possible again and again gets through;
the submission, the provider, its usage and the timeout come. The property
excepts what only an administrator ends (`OperatorGated`): a hold that no poll may
lift, a held submission and a funding that was held because it failed. *Cleanup*: an
administrator's start goes through, runners look for tasks and claim them,
goroutines go on, a lease nobody attends to runs out, and saves that change
nothing are, from some time on, not taken for lost locks (`SavesAreSeen`); the page
renders, ticks
and gets its answers; faults, lapses and losses are bounded by the instance.
*Cache*: the runner of a process ticks every second
(`StartCacheInvalidationTaskRunner`) and finishes the batch it loaded; nothing
is assumed of writers, retries and readers.

## 7. Not modelled, and why

- Subscription source: periods, resets and records of its own are a second
  store beside the wallet's; only the exclusion of two sources is modelled.
- `RowsAreFrozen`, `Frozen` and the `Hold` of the ledger speak of the store
  without `PromoteManualTaskBillingSettlement` (`S:1264`), which reopens a held
  row on an explicit recovery; `ManualCompletion` and `TaskLifecycle` have it.
- The non-durable path of a session (`settleNonDurableLocked`): it keeps no
  record to compare the outcome with.
- The admission check on new requests and its blocking policy: one query before
  the pre-consume.
- Midjourney's own tables and poller; the submission of a task before its row
  exists, and `MarkTaskSubmitNeedsReview`, which belongs to it.
- Channel selection and health, rate limiters, authentication flows, orders and
  redemption codes: choices over cached tables, windows of one process or one
  script, and single conditional updates.
- Relay adaptors, billing expressions, task plugins, options, authorization,
  alerts and metrics, the other pages of the web console and the desktop shell:
  conversion of data, configuration, observation or user interface, with no
  protocol over shared state that bears on the properties above. The console is
  most of the repository's lines; two of its pages run a protocol with the
  server, and those are modelled.
- Within the modelled parts: log texts, timestamps and backoff, attempt
  counters, the 64-bit width of amounts; on the reconciliation page the switch
  of the blocking policy, the list of batch failures, toasts, the alert table
  and the truncation of long lists; the token's own retry worker (the same code
  as the user's) and the generic caches of `pkg/cachex`.
