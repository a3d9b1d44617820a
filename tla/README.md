# Formal models of MIDCODE

MIDCODE is a gateway for AI model APIs: it takes a user's request, holds or
charges credits, routes the request to an upstream channel with a key from a
pool, retries on failure, settles or refunds, and books every movement. This
directory holds TLA+ models of its core logic, their TLC configurations and
proofs checked by TLAPS. Paths below are relative to `src/`.

## 1. Inventory

| Component | Where | State | Operations | Interacts with | What is hard | What makes it correct |
|---|---|---|---|---|---|---|
| Quota leases, hot charging | `internal/billing/quota_lease.go`, `balance.go` | `users.balance`, `billing_quota_leases`; Redis bucket and version key | Charge, Refund, reserve, release, rebuild, compensate, reclaim | WriteTx, syncer, Redis, PostgreSQL | two stores, no common transaction; expiries of leases and keys; many goroutines of one user | no credit created or lost; refusals honest; bucket mirrors leases; credits return |
| Billing transactions | `internal/service/billing.go` (`WriteTx`) | `billing_transactions` | charge, hold, settle, refund, recharge, adjust | leases, refund jobs, post-billing jobs, invite funds | runs after Redis changed; dedupe; many error exits | rows and leases move together; one refund per key |
| Refund jobs | `service/billing.go` 809-881, 1110-1262 | `billing_refund_jobs` | enqueue, claim, reclaim stale, process, release | WriteTx | at-least-once work, stale claims | a refund applied to Redis is written once |
| Post-billing jobs | `service/billing.go` 885-1108 | `billing_post_billing_jobs`, vendor balances | claim, rebate half, vendor half, reclaim stale | WriteTx | job re-run after a partial success | each half paid once |
| Invite funds | `service/invite_billing.go`, `invite.go` | `invite_rebates`, reward, frozen balance, debt | track in transaction, settle, convert, claw back | WriteTx, withdrawals | refunds after payout | paid = ratio of net eligible consumption |
| Model credits | `billing/model_credit.go` | `user_model_credits`, Redis cache | charge, refund, grant | LLM requests, tasks | cache refresh unordered | no negative row; charged amount exact |
| Balance cache, audit | `billing/balance.go`, `reconcile.go` | Redis balance key, applied set, `balance_sync_jobs` | apply delta, rebuild, retry, audit | WriteTx | exactly-once over two stores | cache converges to `users.balance` |
| Async tasks | `handler/proxy.go`, `taskresult/`, `mq/nats.go` | `tasks`, JetStream messages, batches | create, publish, result, retry, poll, sweep, flush | billing, workers, key pools | redelivery, late results, unguarded updates | terminal states final; charged iff done |
| LLM requests | `handler/llm*.go` | gin context counters, holds | hold, attempt, rotate key, retry channel, settle, cancel | billing, key pools, log writer | cancellation, partial streams | charged for what was delivered |
| LLM log writer | `handler/llm_log_writer.go` | channel, batch | enqueue, flush | PostgreSQL | coalescing, full channel | no patch lost |
| Key pools | `service/key_pool.go` | Redis assignments, exhaustion marks | assign, mark, rotate, reset | LLM, tasks | read-then-write assignment | never hand out an exhausted key when another is free |
| Payments, cards, withdrawals, transfers | `service/billing.go` 509-617, `handler/card.go`, `withdraw.go`, `service/credit_transfer.go` | orders, cards, requests | settle, redeem, submit, approve, transfer | WriteTx | duplicate notifications, two reviewers | credited once; frozen never negative |
| VIP groups | `service/vip.go` | user group, baseline | upgrade, set, delete | recharges | concurrent set and upgrade | group follows recharges |
| Channel routing, pricing, protocol conversion, WebSocket gateways, admin handlers, wiring | see `PROJECT.json` | — | — | — | stateless, floating point or plain I/O | — |
| Web: pages and views | `web/app/src/pages/`, `hooks/use-async.ts`, `lib/api/` | per view: data, loading, error, selection, form, ticked rows, busy flag | load, select, reload, tick, click, confirm | REST handlers, other users of the same data | answers in any order; clicks while requests run; loads that fail | no older or foreign data; own writes appear; no double submit; no save of what was not loaded |
| Web: channel dialog | `pages/admin/AdminChannelsPage.tsx` | form, gate of the cost box, calls | open, edit, preview, sync, save | channel handlers of the server | the form changes while a call is under way | automatic sync only for a cost that was priced |
| Web: task detail | `UserTasksPage.tsx`, `AdminTasksPage.tsx` | dialog, interval, its handle | open, tick, close, leave | async tasks | the handle is overwritten; late ticks | one interval, of the task on screen; the end is noticed |
| Web: generation | `UserVideoGenPage.tsx`, `UserMusicGenPage.tsx` | post, task id, status, result | generate, poll, change key, leave | async tasks | two generations; the cleanup of the effect | media of the last generation; polling ends |
| Web: playground | `UserPlaygroundPage.tsx`, `internal/handler/conversation.go` | messages, conversations, saves | send, new chat, open, delete | conversation handlers | nothing is blocked while a save runs | no message lost |
| Web: recharge | `UserBillingPage.tsx`, `internal/handler/payment_*.go` | dialog, interval; `payment_orders` | pay, poll, close; notify, settle | payment provider | repeated, concurrent and late notifications | credited once; noticed |
| Web: gift | `CreditTransferCard.tsx`, `internal/service/credit_transfer.go` | request id; `transfer_out` rows | review, submit, transfer | WriteTx | lost answers, retries | one row per gift |
| Withdrawals | `internal/handler/withdraw.go` | `withdraw_requests`, frozen balance | submit, review, approve, reject, convert | invite funds | read, then guarded update; two reviewers | frozen credits leave once |
| Web: session | `lib/api/http.ts`, `lib/auth/storage.ts`, `app/router.tsx`, `hooks/use-auth.ts`, `layouts/` | the token of the browser, tabs | login, logout, visit, request, 401 | every REST call | late 401s, several tabs | a dead session reaches the login page |

The hazards of the code, each at its line and with the properties that cover
it, are listed in `PROJECT.json`.

## 2. Plan

Most important behaviour first; the first two groups are done.

Billing and tasks. `CreditLedger`: what billing promises a user. `Totals`,
`TotalsProofs`: sums over lease rows and keys. `QuotaLease`: the hot charging
path with the WriteTx of its charges and refunds; implements `CreditLedger`.
`QuotaDebitPlan`: the loop that spreads a charge over lease rows.
Proofs: `QuotaLeaseProofs`, with a second part for a user whose requests come
one at a time. `TaskLifecycle`: a task from createTask over the workers,
the result processor, the batch writer, the poller and the sweep; implements
`TaskPromise`. Proofs: `TaskLifecycleProofs`, under any faults,
`TaskCalmProofs`, without them, and `TaskEchoProofs`, when one message comes
twice. `MCTaskRaces`: it under two fault models, with `MCTaskRacesProofs`.
`PostBilling`: the job that pays the inviter and the vendor after a charge.

Web client and the money flows behind it. `WebApi`, `PageTables`, the page
modules, `WebView`; `ChannelEditor`, `TaskWatch`, `Generation`, `Playground`;
`Checkout`, `CreditGift`, `Withdrawals`, `Session`; composed for TLC by `MCWeb`
and `MCFlows`. Proofs: `MCWebProofs` (`WebView`, the dialog, the playground and the
composition) and `FlowProofs` (`MCFlows` and every module under it).

Still to come, in this order:

1. `RefundJobs` (claim, stale reclaim, backoff): two workers, one job; refines
   the atomic `ProcessBillingRefundJob` of `QuotaLease`.
2. `LLMRequest`: hold, retries over keys and channels, settle, cancel; composed
   with `CreditLedger`.
3. `InviteFunds`, `ModelCredit`, `BalanceSync`, `KeyPool`, `LLMLogWriter`,
   `VIP`, routing.

## 3. QuotaLease

### What is modelled

One user: every key, row and advisory lock of the path is per user, so users do
not interact. `Req` are goroutines; two requests of one `Key` are a redelivery
of one correlation id.

| TLA+ | Code |
|---|---|
| `balance`, `deposited` | `users.balance`; the opening balance plus recharge and adjust rows |
| `active`, `rem`, `ttl` | rows of `billing_quota_leases` with status `active`, `remaining_credits`, `expires_at - now` |
| `charges`, `refunds`, `job` | rows of `billing_transactions` per key; a pending row of `billing_refund_jobs` |
| `bucket`, `keyTTL`, `verTTL` | `billing:quota:<user>`, its expiry, and that of `billing:quota_version:<user>` |
| `pc`, `op`, `stage`, `seen`, `until`, `late` | locals of a request's goroutine |
| `reaper` | the background reclaimer is between its COMMIT and `clearQuotaCache` |
| `budget` | faults left |

| Actions | Code |
|---|---|
| `StartCharge`, `ReclaimForUser`, `ClearAfterReclaim`, `QuotaRemaining`, `SyncRead`, `SyncSet` | `Charge`, `ensureQuota`, `ReclaimExpiredQuotaLeasesForUser`, `quotaRemaining`, `SyncQuotaToRedis` |
| `ReserveQuota`, `IncrReserve`, `MarkReserve`, `ReleaseReservedQuota` | `reserveQuota`, `releaseReservedQuota` |
| `LuaCharge`, `MarkCharge` | `luaCharge` and the retry ladder of `Charge` |
| `BeginTx`, `CommitCharge`, `CommitRefund` | `WriteTx` with `ApplyQuotaLeaseTx` |
| `EnqueueRefundJob`, `ProcessBillingRefundJob` | `enqueueRefundJob`, `processBillingRefundJob` |
| `CompensateRead`, `CompensateApply`, `CompensateMark` | `compensateRedis`, `ApplyQuotaDelta` |
| `StartRefund`, `EnsureRefundQuotaLease`, `IncrRefund`, `MarkRefund` | `Refund` |
| `ReclaimQuotaLease`, `ClearAfterReclaimQuotaLease` | `reclaimQuotaLease` in the syncer |
| `AdjustBalance` | `WriteTx` of `recharge` and `adjust` |
| `KeepCharge`, `Tick`, `Crash` | the request succeeds; the clock; the process dies |

Granularity. A DB transaction runs under the user's advisory lock and is one
step, except that `WriteTx` takes two: `BEGIN` with the dedupe lookup, then the
rest. The lookup takes no lock, and `NOW()` is the time of `BEGIN`: `late`
remembers that a tick has passed since. A Redis command or Lua script is one
step. Three groups of commands are merged: the read of the bucket and of its
version; the SET of both keys; the marking of the version and the EXPIREs that
follow. Nothing but the same calls of another goroutine, or an expiry, can come
between them, and each group ends in the state its last command writes.

Every store call may answer `ok`, `refused` (no effect) or `lost` (effect, but
the caller sees an error): a cancelled context, a dropped connection or a
COMMIT without an answer produce both. After a failure the request follows the
error path of the code, with one asymmetry the code has: every error exit of
the transaction calls `handlePreAppliedFailure`, but the INSERT of the
post-billing job just returns (`AfterTx`).

Abstractions. Amounts are small numbers. Model credits are 0, so a charge is
all general credits. Invite tracking and VIP refresh belong to the same
transaction and move no lease. `SpendableBalance` only runs the reclaim that
the syncer may run at any time, so it adds no behaviour. `ReleasePreAppliedQuota`
is `ApplyQuotaDelta` from another caller. A queued job is processed in one
step; its claim is planned as `RefundJobs`. The balance display cache is not
read by this path.

### Bounds

| Bound | Meaning | Why enough |
|---|---|---|
| `Req`, `Key` | two requests; two keys or one shared | every race of the code is between two goroutines, or one and the reclaimer |
| `MaxInFlight` | requests and reclaimer at work together | 1 is a serial user; 2 two requests, or one and the reclaimer; 3 all of them |
| `MaxLeases` | active rows at once; ids are reused | a second row needs an expired first; `redelivery`, whose liveness must not be cut off, has 6 |
| `TTL`, `Grace` | 1 or 2 ticks, 0 or 1 | the order of expiry, grace and use is what matters |
| `MaxFaults` | 1, with a redelivery 2 | one fault, and a fault while handling one |
| `OpeningBalance`, `MaxFunds` | 2 to 4 credits with costs 1 and 2 | enough for one of two requests, or both |
| `Env` | `tick`: time passes at any step; `nap`: only while nobody works | a lease lives 30 minutes, a request of this path milliseconds; `faults` doubts this with `tick` |

All runs set `CHECK_DEADLOCK FALSE`: when every request has ended and no lease
is left, the user is simply quiet.

### Runs that pass

| Run | Shows |
|---|---|
| `faults` | two requests, or one and the reclaimer, with expiry and one fault of any kind at any step: `Conservation` and the refinement of `CreditLedger` |
| `redelivery` | one key delivered twice, two faults of any kind: types, at most one refund per charge, every delivery ends, and all unspent credits are free balance in the end |
| `serial` | one request at a time, recharges and adjustments: the bucket mirrors the leases, accepted charges can always be written, refusals are honest, the bucket does not outlive the leases |

The loop of `QuotaDebitPlan` is part of the run `flows` (section 5): for every
list of up to three rows of up to three credits and every charge it computes
the only plan the reference definition admits, refuses exactly when there is
none, and its guarded UPDATEs never miss a row.

### Runs that disagree with the repository

| Run | Code against claim |
|---|---|
| `double_reserve` | A rebuild of the bucket between the COMMIT of a reserve and its INCRBY counts the reserve twice; the comment of `reserveQuota` promises the same amount in both stores. DB credits stay conserved: the phantom part of the bucket makes a later charge fail in `WriteTx`, which compensates. |
| `refund_job` | When the INSERT of the post-billing job fails, `WriteTx` neither queues nor compensates a refund; the comment of `BillingRefundJob` says a transient error loses no refund. Every other single DB error does queue it. |

Two more disagreements show in small instances that are not kept as runs:

| Property | Instance | Code against claim |
|---|---|---|
| `ChargedAtMostOnce` | two requests of one key, no faults | both deliveries pass the dedupe lookup before either inserts, and no unique index exists for charges; the dedupe test says charges are protected |
| `RedisNeverOutlivesLease` | the same, one after the other, `Env = {"nap"}`, `TTL = 2` | the compensation of a duplicate charge renews the bucket and not the lease; the comment of `SyncQuotaToRedis` says Redis never outlives the lease |

What `serial` checks is proved for any requests, costs and lease lives
(section 6). It does not hold for two requests in flight: the race of
`double_reserve` breaks the mirror, and the syncer's `clearQuotaCache`, which
runs after its COMMIT, can delete a bucket that was just filled, so that a
request is refused although leases could pay. Nor does it hold with a lost
Redis answer, which strands credits in a lease until it expires. `redelivery`
shows they come back.

### Fairness

Weak fairness for each request's next step (a goroutine that is runnable runs),
for `KeepCharge` (a charged request ends), for the refund job of each key and
the reclaimer (tickers of `StartBillingRefundJobWorker` and
`StartBalanceSyncer`), for the clearing that follows a reclaim, and for the
clock. No fairness for arrivals, adjustments, `StartRefund` and faults. In runs
with faults the budget makes them finite: `CreditsComeHome` says that after the
last fault the system recovers.

## 4. TaskLifecycle

### What is modelled

One task: tasks share no row, message or goroutine. An attempt is one channel
of the task: the first channel, then each of `retry_channel_ids`; every attempt
has its own corr_id and costs one credit, so attempt, channel, corr_id and
price are one number.

| TLA+ | Code |
|---|---|
| `status`, `attempt`, `credits`, `upstream` | the `tasks` row: `status`; `channel_id`, `corr_id` and `retry_channel_ids`; `credits_charged`; `upstream_task_id` |
| `charged`, `refunded` | rows of `billing_transactions`; a refund row is its attempt and its reason, which is what its dedupe key hashes |
| `jobs`, `results` | undelivered messages of the task and result streams, as bags: JetStream does not keep them in order here |
| `left` of a message | deliveries JetStream has left (`workerMaxDeliver`) |
| `tried` of a message | length of `pool_retry_key_ids` |
| `running` | deliveries a worker is executing |
| `verdict` | what the upstream thinks of its asynchronous task |
| `pc`, `res`, `arg`, `asked` | locals of createTask (`api`), of the goroutines of `handleResult`, of the sweep (`cleaner`) and of the poller |
| `writes` | `writeCh` and the open batch of the batch writer |
| `old`, `budget` | the task is over `maxAge`; faults left |

| Actions | Code |
|---|---|
| `ChargeUser` ... `MarkProcessing` | `createTask`, one step per store call |
| `TakeJob`, `FinishJob`, `RedeliverJob`, `WorkerDies` | `handleTask` and the outcomes of `execJob`; JetStream's AckWait |
| `TakeResult`, `RotateKey`, `SkipKey`, `Republish` | `handleResult` of done, async, rate_limited and pool_key_retry, with their fall-through |
| `FailedResultArrives`, `RetryRefund` ... `RetryPublish` | the retry on the next channel |
| `FailTask`, `FailRefund`, `FailZero` | `failTaskDB` |
| `FlushBatch` | `flushBatch`: each of its two UPDATEs may be lost |
| `CleanStaleTask` | `cleanStaleTasks` |
| `PollTask`, `PollAged`, `PollNothing`, `PollDone`, `PollFailed` | `pollPendingTasks`, `pollOneTask`, `publishFailedResult` |
| `RedeliverResult`, `ServerDies` | a result whose ACK is lost or late; a crash of the server, after which JetStream delivers again what was not acknowledged |
| `UpstreamEnds`, `GrowOld` | external: the upstream, the clock |

`TaskPromise` is the contract with the user: attempts are paid for in order,
each once, and one is given back before the next is paid for. A task maps to
the attempt that is charged and not refunded, and to the number of attempts
charged.

Abstractions. A refund is one step: the Redis refund and the WriteTx that
follows it, whose interleavings `QuotaLease` models. A refund that WriteTx
defers to a refund job counts as written. Model credits are 0 and no price is 0.
The charge of the next channel is refused when its corr_id is already charged;
that two concurrent ones could pass this check is `ChargedAtMostOnce` in section 3. The
Redis lock of the poller makes polls of a task exclusive; it is the `pc` of one
poller. One API server runs all server goroutines. Left out: the direct flush
when `writeCh` is full, a crash between the UPDATE and the ACKs of a batch,
results over NATS's size limit, user deletion.

### Bounds and environment

`Env` names what may go wrong in a run, `MaxFaults` how often. Four facts about
time are guards, because the thresholds are minutes and the calls milliseconds,
and a run that doubts them says so: the sweep fires only when nothing of the
task is under way, and the poller only when no result is (`"slow"` lifts both);
a worker takes the job after createTask has returned (`"slowCreate"`); a
redelivery is a fault, because AckWait is ten minutes.

| Bound | Meaning | Why enough |
|---|---|---|
| `Channels` | 2 or 3 attempts | a retry, and a retry of a retry; createTask adds at most two channels by default |
| `Keys` | 0 to 2 keys of a pool | rotation, and the fall-through when none is left; the code's limit of 8 keys only ends this earlier |
| `Handler` | 2 result goroutines, 1 in the storm of `task_races` | the races of two deliveries of one result |
| `MaxDeliver` | 2 | one redelivery per message |
| `ErrorText` | 1 or 2 texts | equal and different reasons of refunds |
| `MaxResults` | 1 or 2 | results waiting when a poll starts |
| `MaxFaults` | 1 or 2 | one fault, and the repair of a fault failing |

All runs set `CHECK_DEADLOCK FALSE`: a task that is over has nothing left to do.

### Runs that pass

| Run | Shows |
|---|---|
| `task_calm` | three channels, the last asynchronous, two keys, publishes fail: refunds and charges match at the end, done is final |
| `task_faults` | one fault of any kind: `TaskPromise`, and the task ends |
| `task_races` | `MCTaskRaces`, two fault models in one run. Storm: timeouts that are too short and a slow createTask besides one fault: two attempts are never paid at once. Echo: one job or result delivered twice or refused, to two handlers: a charge is refunded at most once, and no refund lacks its charge |

`TaskPromise` is not claimed for the storm, which checks its core,
`OneAttemptPaid`; `RefundsMatchCharges` is claimed for the echo only, because a
crash breaks it (below). `DoneStays` and `FailedIsRefunded` are claimed without
faults only; what faults do to the second is shown below. The echo has one key in
the pool and polls only the last channel: otherwise it is false (below).

### Runs that disagree with the repository

| Run | Code against claim |
|---|---|
| `killed_retry` | a failed result is delivered again after its task was charged for the next channel: WriteTx refuses the duplicate charge, and `failTaskDB` fails the task with 0 credits to refund; when the running attempt fails as well, the status guard skips its refund |

More disagreements show in small instances (one or two channels, one handler)
that are not kept as runs:

| Property | Instance | Code against claim |
|---|---|---|
| `RefundedOnce` | `Env = {"redeliver"}`, two faults, three deliveries, two texts | the status guard of `failTaskDB`, which its comment calls idempotent, is undone by a late done result; the next failure, with another text, refunds again |
| `RefundsMatchCharges` | `Keys = 2`, `Env = {"redeliver"}`, one fault, two handlers, two texts | a job comes twice; the failed result of one copy fails the task and refunds it; the other copy is rate-limited, and the handler that skips its key sets the failed task to "processing" again (`SkipKey`); its next failure, with another text, passes the status guard and refunds once more. With one key in the pool, and only the last channel polled, it holds (proved, section 6) |
| `RefundsMatchCharges` | `Channels = 2`, `Async = {1}`, `Env = {"redeliver"}`, one fault, two handlers, two texts | the same end without a second key: a retry leaves the upstream id of channel 1 in the row, so the poller may report a failure of attempt 2 next to the two copies of its job; a late done or async result of one copy takes the failed task out of "failed" again, between the two refunds |
| `RefundHasCharge` | `Env = {"server"}` | a crash between the INSERT of the task and its charge row: the sweep refunds what was never charged; the comment in `failTaskDB` wants the two symmetric |
| `FailedIsRefunded` | `Env = {"server"}` | a crash between the status update and the refund of `failTaskDB`: the redelivered result finds the task failed, and nobody refunds |
| `AckedIsWritten` | `Env = {"db"}` | a batch whose UPDATE failed is acknowledged; the comment in `flushBatch` says the ACK follows the write |
| `OneAttemptPaid` | `Channels = 3`, `Async = {2}`, `Env = {"slow"}`, a price per attempt | a sweep that read the row before a retry writes it afterwards: `updateTaskCreditsCharged` names the task only (`handler.go` 476-490), so `credits_charged` of attempt 2 becomes 0; its failed result then has nothing to refund (`handler.go` 205), and channel 3 is charged while channel 2 stays charged. With only the last channel polled, or two channels, it holds (proved, section 6) |
| `PollAsksOwnTask` | `Async = {1, 2}`, no faults | a retry leaves `upstream_task_id` as it is, and until the new channel's id is written the poller asks the new channel for the task of the old one |

### Fairness

`FairSpec`: runnable goroutines run, consumers fetch (`QueueSubscribe`), the
tickers of the batch writer and the poller fire, and time passes (`GrowOld`).
No fairness for the upstream, which may never end its task: `maxAge` then does.
`TaskEnds` holds with one fault of any kind.

## 5. The web client and the money flows behind it

### Pages and their views

Nearly every page is built from one loader, `useAsync`, so the pages are not
modelled one by one. A page is a row of a table, translated from its source:

| Module | Content |
|---|---|
| `WebApi` | each REST call of `lib/api/`: the collection it reads or changes |
| `PageTables` | the words of the tables (`Hook`, `Detail`, `Do`, `Under`, `While`, `Asks`, ...) and the shape a view gets from them |
| `UserPages`, `PartnerPages`, `AdminPages`, `AdminModelPages` | per page: its views with their calls and dependencies; its handlers with their calls in order, their reloads and busy flags; the guards of its buttons |
| `WebView` | one view of any shape: `Select`, `Type`, `Reload`, `Tick` (the user and intervals), `Serve`, `Land`, `Fail` (requests, answered in any order), `Ask`, `Confirm`, `Click`, `Proceed`, `Finish`, `Break` (a handler, call by call), `ElsewhereChanged` (other clients) |
| `MCWeb` | `AllShapes` computes the shapes of all pages of all roles; views of one shape behave alike, and the run starts from each shape |

Whether an action concerns a view is decided by `WebApi`, not by what the page
reloads: a handler that forgot a reload would be found by `OwnWritesShown`.
Handlers whose change is deliberately or accidentally not reloaded are marked
`LeavesStale` in the tables, each from its source (saving settings or a key
pool binding, adjusting a transaction, voiding cards): for these the property
claims nothing, and the table says so.

What an answer carries is [key, ver]: for which selection it is and from which
version of the server's data. Payloads are not modelled.

The properties name their exceptions by history variables, because the pages
have them: `raced`, a detail loaded by a click handler (a "bare" view) has no
guard against an older answer; `failed`, a form is enabled after a load failed
(payment codes of `UserInvitePage`); `shared`, one flag holds the id of the
busy row, and a click on a second row frees the first.

### The machines of their own

| Module | Code | Actions |
|---|---|---|
| `ChannelEditor` | the dialog of `AdminChannelsPage.tsx`; preview and sync of `admin_upstream_extra.go` | open, copy, close, edit, preview, sync, save, and their answers in any order, to whichever form is on screen |
| `TaskWatch` | `openDetail`, `closeDetail` and the interval of `UserTasksPage.tsx` and `AdminTasksPage.tsx` | open, answer, tick, close, leave; the handle in the ref is overwritten |
| `Generation` | `generate` and the polling effect of the video and the music page | post, its four kinds of answer, tick, poll, key change |
| `Playground` | `UserPlaygroundPage.tsx`, `conversation.go` | send, new chat, save in three steps, open, delete, refresh |
| `Checkout` | `UserBillingPage.tsx`; `EpayCallback`, `PayApplyNotify`, `SettlePaymentOrderRecharge` | pay, poll, close, lapse; notify, settle, fail |
| `CreditGift` | `CreditTransferCard.tsx`; `TransferCredits` | fill, submit, serve, accept, fail, lose |
| `Withdrawals` | `withdraw.go` | earn, convert, submit in two steps, both reviews and rejection, each a read and a guarded update |
| `PostBilling` | `service/billing.go` 885-1108 | per worker: reclaim stale, read, claim, rebate half, vendor half, finish, release; a call fails, an answer is lost, a worker dies, ten minutes pass |
| `Session` | `http.ts`, `storage.ts`, `router.tsx`, `use-auth.ts`, `ConsoleLayout.tsx`, `GiftArrival.tsx` | log in and out, visit, request, serve, 401, expire, in several tabs |

`MCWeb` runs `WebView`, `ChannelEditor` or `Playground`, `MCFlows` one of the
others or `QuotaDebitPlan`: they share no state, `part` says which one runs, and
the state of the others is pinned.

### What was met while modelling

None of these contradicts a statement of the repository, except the last, so no
property claims the opposite and the exceptions above are where they show.

- `ChannelEditor`: a sync that finds no price for a channel whose automatic sync
  is on binds the channel to the new upstream and keeps the flag (`rebound`).
- `TaskWatch`: an answer that arrives after the dialog is closed or the page is
  left starts an interval that nothing stops (`crossed`).
- `Playground`: a message sent while "new chat" saves is cleared with the screen,
  and a second click stores the chat twice (`overlapped`).
- `Checkout`: a late poll of an order given up closes the dialog of the next one
  (`late`).
- `Withdrawals`: two pending requests of one user are reachable, although
  `withdraw.go` 99 refuses a second one: the count and the insert are separate
  and no index backs them. The money is safe all the same (`FrozenPaysOnce`).
  Finance approves without asking for the stage.
- `PostBilling`: a worker whose job is reclaimed before its rebate half reads the
  row again finds it pending, returns without an error or a rebate (1028), and
  marks the job done: the rebate is lost. The vendor half does not read the row
  again; a worker that claims a released job with a copy read before the release
  pays the vendor twice. `PostJobPaysOut` says when neither can happen:
  `overtakes` counts the ten minutes that pass under a claimant, and the vendor
  is paid again only after a fault or such a takeover.
- `Session`: a 401 to an old token clears the token of a later login.
- Run `public_routes`: a visitor without a token is sent from the public pages
  of the user area to the login page, because `GiftArrival` asks for the profile
  on all of them; the comment in `router.tsx` says they are visible without login.

### Runs

| Run | Shows |
|---|---|
| `web_views` | `MCWeb`: types; a view at rest shows the answer for its selection (`AnswersMatchSelection`) and never an older version (`NoStepBack`); own writes appear; no action under a flag runs twice; ticked rows are on screen; forms are saved only after they were filled from their own row; the channel dialog and the playground keep their promises |
| `flows` | `MCFlows`: types, the safety and the liveness properties of the flows, the debit plan, and the post-billing job: it pays out (`PostJobPaysOut`) and ends (`PostJobEnds`) |
| `public_routes` | violation: `PublicRoutesVisible` |

| Bound | Value | Why enough |
|---|---|---|
| `Keys`, `Rows`, `Channels`, `Costs`, `Tasks`, `Tabs`, `Reviewers`, `Signatures` | 2 (`Channels` 1) | what can be confused is one thing with another; the races of `ChannelEditor` over two channels were checked apart, and one channel with copies and new forms keeps the dialog's confusions |
| `MaxFetches`, `MaxActs`, `MaxTimers`, `MaxHandlers`, `MaxSaves` | 2 | two requests, handlers or intervals overlap |
| `MaxVersion` | 2 | before and after a change |
| `MaxMessages`, `MaxConversations`, `MaxOrders`, `MaxRequests`, `MaxGenerations`, `MaxSessions`, `MaxFrozen`, `Credits` | 2 | the one before and the one after |
| `PostWorkers`, `MaxPostFaults`, `MaxOvertakes` | 2, 2, 1 | a worker that fails, dies or is overtaken, and the one that takes the job on; the invariants were checked apart with three workers |
| `MaxSubmits` | 3 | a gift, its retry, and another gift |

Named bounds inside modules: one request per tab at a time (`Session`), one
delete at a time (`Playground`), no second click on the row whose answer is
awaited (`TaskWatch`). The runs set `CHECK_DEADLOCK FALSE`: orders, generations
and messages run out at their bounds.

### Fairness

Weak fairness for what the browser does by itself (intervals of visible tabs,
posts that are answered) and for the provider, which notifies until an order is
settled. Strong fairness for requests that may fail, but not for ever: ticks,
polls, settlement, answers of the session. No fairness for clicks, logins, key
changes or expiry. Weak fairness for the workers of a post-billing job, whose
ticker runs on, and for the ten minutes after which a job is stale. `MCFlows` bundles these conjuncts by index (`Again`, `Soon`),
because TLC checks the product of strong fairness conjuncts; a flow's conjuncts
are the ones its module states. `DeadSessionReachesLogin` rests on the poll of
`GiftArrival`, which runs in a visible tab once the profile has loaded.

## 6. Proofs

### QuotaLease

`QuotaLeaseProofs` proves, for any number of requests, keys, leases, faults and
any costs (`ConstantsAssumption`, no more):

| Theorem | Statement |
|---|---|
| `TypeCorrect` | `Spec => []TypeOK` |
| `OneRefundPerCharge` | `Spec => []RefundsFollowCharges` |
| `AccountImplemented` | `Spec => ImplementsLedger` |
| `CreditsConserved` | `Spec => []Conservation` |

The inductive invariant `AccountInv` has three parts. `TypeInv` is `TypeOK` and
`ReserveGap`: a request about to reserve has read less than it needs, without
which the reserve, and then the balance, might be negative. `ChargedFirst`: a
request that is charged, refunding or queueing a refund, and a pending refund
job, belong to a key with a charge row; `RefundsFollowCharges` is not inductive
without it. `StepsOfAccount` then shows that each action either leaves funds
and rows alone or is one of the steps of `CreditLedger`; conservation follows
because each of those steps moves funds and rows by the same amount.

Its second part proves what the run `serial` checks. The hypothesis `Serial`
is the restriction of that run: one request or the reclaimer at work at a time,
no failing call, no key used twice, and time passes between requests only. Of
requests, costs, leases, `TTL`, `Grace`, recharges and adjustments nothing is
assumed. Without `Serial` each of them is false (section 3).

| Theorem | Statement |
|---|---|
| `BucketMirrorsLeases` | `Serial` implies `Spec => []MirrorAtRest` |
| `BucketEndsWithLease` | `Spec => []RedisNeverOutlivesLease` |
| `AcceptedIsWritten` | `Spec => []AcceptedChargeIsWritten` |
| `RefusalsAreHonest` | `Spec => RefusalIsHonest` |

Their invariant `SerialInv` says how far the two stores are apart at each step of
a request. `OneLiveRow`: a row is inserted only when none is live, so a debit
takes from one row. `Mirror`: until a request touches either store, a trusted
bucket equals the live leases. `BucketTells`: from there on the difference is
known at each place (after the reserve its amount, after the charge of Redis the
charge). `VersionEndsFirst`: the version key of the bucket ends before the live
row, except between the EXPIRE that renews the key and the commit that renews the
row; this is why no tick may fall into a request.

Sums are cardinalities of sets of units (`Totals`), so that the prover needs no
recursion: `TotalsProofs` shows how a total changes when a row changes, is
added, or when a debit plan is taken (`TotalDebit`), that a total bounds its
parts, and that two functions, one below the other, with the same total are equal.
`Withdrawals` and `QuotaDebitPlan` use them too.

### TaskLifecycle

All for any channels, keys, handlers, deliveries, faults and results
(`TaskAssumption`).

| Theorem | Also assumes | Statement |
|---|---|---|
| `TaskLifecycleProofs!TaskTypeCorrect` | | `Spec => []TypeOK` |
| `TaskLifecycleProofs!OneChannelPaid` | `Channels <= 2` or `Async \subseteq {Channels}` | `Spec => []OneAttemptPaid` |
| `TaskLifecycleProofs!PromiseKept` | the same, and `"slow" \notin Env` | `Spec => KeepsPromise`: it implements `TaskPromise` |
| `TaskCalmProofs!FailedCostsNothing` | `Env \subseteq {"publish"}`, `Async \subseteq {Channels}` | `Spec => []FailedIsRefunded` |
| `TaskCalmProofs!DoneIsPaidOnce` | the same | `Spec => []DoneIsPaid` |
| `TaskCalmProofs!FinishedForGood` | the same | `Spec => DoneStays` |
| `TaskEchoProofs!RefundsMatch` | `Env \subseteq {"publish", "redeliver"}`, `Async \subseteq {Channels}`, `MaxFaults <= 1`, `Keys <= 1` | `Spec => []RefundsMatchCharges` |
| `MCTaskRacesProofs!RacesRefundsMatch` | | `RacesSpec => []RefundsMatchChargesInEcho`: the same for the instance `Echo` of `MCTaskRaces` |

Each hypothesis has a counterexample behind it. A channel that is polled before
the last breaks `OneAttemptPaid` when timeouts are short (section 4) and
`DoneIsPaid` without any fault, because a retry leaves `upstream_task_id` as it
is. A sweep that fires early may refund the first attempt before it is charged,
which `TaskPromise` does not allow. The faults that break `FailedIsRefunded` are in
section 4, and so are the second fault, the second key and the channel that is
polled before the last, each of which breaks `RefundsMatchCharges`.

Under faults the invariant is `GivenBackFirst`. An attempt is charged after the
charge and the refund of all before it (`ChargedInOrder`); a message names an
attempt that was charged, and a result that says it cost nothing comes after its
refund (`MessagesTell`); a goroutine that retries works on a refunded attempt, and
past the charge the next one is charged (`ActorsTell`); the row names the first
attempt or a charged one, and where an earlier channel is polled, 0 in
`credits_charged` means refunded (`RowTells`). `InsertedFirst` says that nothing happens
before the row is there. Without faults it is `OneStage`: the task is in exactly
one of the stages in which `createTask`, a worker, a handler, the poller or nobody
holds it, and each stage says which messages exist and what is paid. All other
actions are disabled in a stage, which is what makes the unguarded UPDATEs of the
batch writer harmless.

With one echo the invariant is `EchoInv`. Until the message comes twice the task is
in one stage, and, while no publish was refused, `Unhurt`: neither the sweep nor a
failed `createTask` takes part, so only a failure of the last attempt refunds under
the reason of its text. After it the stages are gone, and what is left is a count.
`Counted`: the messages, the workers, the handlers before their claim, the poller
if it may ask, and a refund of the last attempt, made or about to be made, are two
together. Each step passes one of them on, a claim turns a handler into a refund,
and nothing makes a third: so when the last attempt has its refund at most one
other is left. `ClaimsSettled`: then either the task is failed, which stops the
other one at the status guard of `failTaskDB`, or that other one carries nothing
that refunds the last attempt (`NoClaimant`), which is so when it is the unguarded
UPDATE of the batch writer that has set the status back. `OneClaim`: one handler at a time has
passed the guard. `OnePromotion`: while a handler takes the task to its next
channel, nothing is about that one yet, so that the copy of a failed result finds the
refund of its attempt already written. `RowLast`: the row names the last attempt
when it is charged, which the poller's message is made of. `KeysSpent`: no result asks for a key
that is left; this is where `Keys <= 1` enters. `MCTaskRacesProofs` instantiates
the module with the constants of `Echo`, shows that both instances have the same
`Init`, `Next` and property, and carries the invariant over.

### The web client and the flows

| Theorem | Assumes | Inductive invariant |
|---|---|---|
| `MCWebProofs!ViewTypeCorrect`: `Spec => []TypeOK` | `ViewAssumption` | `TypeInv` |
| `MCWebProofs!AnswersMatch`: `Spec => []AnswersMatchSelection` | the same | `LiveIsLast`: the one request that still counts is the last one, and was served nothing older than what is shown |
| `MCWebProofs!NeverStepsBack`: `Spec => NoStepBack` | the same | the same |
| `MCWebProofs!TicksAreOnScreen`: `Spec => []SelectionIsShown` | the same | `TickedIsShown` |
| `MCWebProofs!NeverSubmitsTwice`: `Spec => []NoDoubleSubmit` | the same, `FlagAssumption` | `OneHolder`: a flag has one holder; `AskedFor`: what waits for a confirmation was asked for |
| `MCWebProofs!ChangesAreShown`: `Spec => []OwnWritesShown` | `ReloadsItsChanges` | `HasChanges`: what is shown at rest, and every answer that still counts, has the changes in it |
| `MCWebProofs!SavedFormsAreFilled`: `Spec => SavesWhatWasLoaded` | `FormAssumption` | `Filled`: while no load failed, a form that can be sent was filled, in a detail with its row |
| `MCWebProofs!WebTypeCorrect`: `WebSpec => []WebTypeOK` | `MaxMessages \in Nat` | `OnePart` and the types of each part |
| `MCWebProofs!WebAutoSync`: `WebSpec => []AutoSyncWasSynced` | none | `FlagsTried`: wherever the flag is kept (form, row, copy, call) a sync priced it |
| `MCWebProofs!WebMessagesKept`: `WebSpec => []MessagesKept` | `MaxMessages \in Nat` | `NothingLost`: one call at a time, what is saved is the screen, and each message is on the screen, in a call or in its conversation |
| `FlowProofs!PaymentsCreditedOnce` | none | `NotifiedIsPaid`: a handler under way has a payment behind it |
| `FlowProofs!JobsPayOut` | `PostAssumption` | `RebateWritten`: a rebate is paid with its flag; `NotOvertaken`: without a takeover one worker holds the job and the row stays its own; `ClaimedOnce`: without faults the job is claimed once |
| `FlowProofs!GiftsMadeOnce` | `MaxSubmits \in Nat` | `IdNamesIntent`, `AwaitedIsMeant`: the kept id names the gift the user means, and so does the post awaited |
| `FlowProofs!ResultsOfLastGeneration` | `MaxGenerations \in Nat` | `OneUnderWay`: a poll whose answer counts is of the last generation |
| `FlowProofs!MusicBusyFollowsGeneration` | `MaxGenerations \in Nat` | the same, on the music page |
| `FlowProofs!FrozenCreditsPayOnce` | `MaxRequests`, `MaxFrozen \in Nat` | the types with the conserved sum |
| `FlowProofs!IntervalsFollowDialog` | `0 \notin Tasks` | the types with the property |
| `FlowProofs!PlanCorrect`: `Spec => []PlanIsTheReference` | `BoundsAssumption` | `PlanInv`: what is planned and what is missing add up, passed rows are emptied unless nothing is missing, and no row is planned twice |
| `FlowProofs!FlowTypeCorrect`: `FlowSpec => []FlowTypeOK` | the bounds are numbers | `FlowInv`: the invariant of the flow that runs; `PolledIsCreated`, `WithdrawBounds` |

They hold for any shapes, selections, orders, handlers, workers, clicks,
reviewers, tasks and intervals: what the runs check for two holds for all.

`FlagAssumption` and `FormAssumption` say which combinations of guards and flags
the shapes of the page tables have; TLC evaluates them on `web_views`.
`ReloadsItsChanges` says of a shape that the handlers that change its data reload
it. It holds for all 73 shapes the tables contain, and is a hypothesis because a
page that forgot a reload is what `OwnWritesShown` is there to find.

The loop of `quotaLeaseDebitPlan` needs no induction over the rows: it is a state
machine, and the invariant says that its plan is greedy (earlier rows are emptied
first). Two greedy plans of one charge are equal: one of them lies below the
other in every row, and their totals are the same (`GreedyIsUnique`).

### Only model-checked

Liveness: `CreditsComeHome`, `RequestsEnd`, `TaskEnds`,
`PostJobEnds`, `ShownTaskCatchesUp`, `GenerationEnds`, `PaymentNoticed` and
`DeadSessionReachesLogin` rest on fairness, which this prover does not reason
about. Every safety property of a passing run is proved. What the violation runs
show is a counterexample and needs no proof.

## 7. Running

    tlc -config QuotaLease_faults.cfg MCQuotaLease
    tlc -config TaskLifecycle_faults.cfg MCTaskLifecycle
    tlc -config TaskRaces.cfg MCTaskRaces
    tlc -config MCWeb.cfg MCWeb
    tlc -config MCFlows.cfg MCFlows
    tlapm QuotaLeaseProofs.tla
    tlapm TaskLifecycleProofs.tla
    tlapm TaskCalmProofs.tla
    tlapm TaskEchoProofs.tla
    tlapm MCTaskRacesProofs.tla
    tlapm TotalsProofs.tla
    tlapm MCWebProofs.tla
    tlapm FlowProofs.tla

The largest run, `web_views`, has 3.6 million states.

## 8. Not modelled

What section 2 lists as still to come. Of the parts that are modelled:

- Web: the late answer of the billing request in the task detail; icon upload
  and channels not saved yet in the channel dialog; on a mobile browser the
  recharge navigates to the provider instead of opening the dialog; coupons; the
  language routes; payloads, validation of forms and layout.
- `creation/`: the image pages render a link to the external studio
  (`ImageStudioLaunch`), so its hooks are not reached from a route.
- Invite rewards: debt and clawbacks; `Withdrawals` takes a settled reward
  (`Earn`) as it comes. Cards: `RedeemCard` restores a card when `WriteTx`
  reports an error, also when the error came after the commit (`card.go` 198).
- Claims of gifts by their receiver, refunds of payment orders.

Left out for good: pricing (floating-point arithmetic over provider payloads),
protocol conversion (stateless), widgets, translations, themes and formatters,
the integrations and the deployment scripts: they keep no state whose order
matters.
