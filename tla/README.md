# Verification of DZFraudShield

TLA+ modules, TLC configurations and machine-checked proofs about the server
side of DZFraudShield (`src/apps/saas`, a Next.js application on Supabase).
Merchants' WooCommerce shops send it their orders; it scores them, records the
merchant's decision, creates parcels at couriers and follows them through
webhooks and periodic syncs. Paths below are relative to `src/apps/saas/src/`.

The application is a set of stateless request handlers on one database. There
are almost no transactions: an operation is a sequence of awaited SQL calls, and
what a SELECT returned may be stale when the UPDATE that rests on it runs. What
keeps the data right is a handful of guarded UPDATEs and unique constraints.
This is what the modules model: **every await is a step, and any other handler
may run between two steps.**

## The system

| Component | State | Operations | Hard behaviour |
|---|---|---|---|
| Background job queue: `lib/background-jobs.ts`, `app/api/v1/jobs/process-background/route.ts` | table `background_jobs`; the batch each invocation holds in memory | enqueue, recover stuck rows, claim by priority, run, complete, fail with back-off | a cron starts an invocation every minute and they overlap; crashes; lost writes; stale snapshots |
| Decisions and shipments: `lib/merchant-decisions.ts`, `lib/delivery-intelligence/shipment-service.ts` | `merchant_decisions`, `merchant_shipments`, parcels at the courier | record a decision, create a shipment, retry it | clicks race, the courier's API takes no idempotency key, answers are lost, the row is written after the parcel is made |
| WooCommerce decision sync: `lib/merchant-decisions.ts`, `app/api/v1/plugin/merchant-decision-sync` | `merchant_decisions.wc_sync_*` | the shop's plugin polls pending decisions and reports them; a new shipment queues a re-sync | poll and report are two requests; decisions and shipments are read in two SELECTs |
| Courier webhooks: `app/api/v1/delivery/webhooks/[provider]/route.ts`, `lib/delivery-intelligence/webhook-handler.ts` | `delivery_webhook_events`, `webhook_event_log` | deduplicate, update the shipment, queue jobs | redelivery, reordering, crash after the event is recorded |
| Merchant delivery-cache sync: `lib/delivery-intelligence/merchant-delivery-sync.ts` | a lock per process, the row `merchant_delivery_sync_status` | start, heartbeat, cancel, resume, retry failed origins | crash and resume, several processes, cancellation in the middle |
| Courier history pipeline: `yalidine-history-full-sync.ts`, `-incremental-sync.ts`, `-targeted-sync.ts`, `merchant-history-writer.ts` | cursors and checkpoints in `merchant_history_sync_status` | resume a full sync, fetch changes since a checkpoint, refresh one parcel | checkpoints against concurrent changes, truncation, deduplication of jobs |
| Order sync: `lib/delivery-intelligence/sync.ts`, `adapters/zr-express-adapter.ts` | `delivery_orders`; on the courier's account two checkpoints, the streak of failures and the suspension | list the account's parcels, keep what is new, write it, move the checkpoints; count a failure | runs overlap and each works with the account as it read it; no overlap of the windows |
| Payments and access: `lib/payments/settings.ts`, `lib/payments/subscription.ts`, `lib/admin/merchants.ts`, `app/api/v1/plugin/activate` | `merchants`, `merchant_subscriptions` | approve, reject, redeem a code, suspend, reopen, extend, cancel, expire on read | two tables that must agree and are written one after the other; renewals of one row |
| Trial slots: `lib/payments/settings.ts` | the counter in `payment_settings` | reserve, use, give back, count by hand, reset | a compare-and-set next to writers that use none |
| Order checks and risk; tracking engine; rate limiters; analytics; dashboard; push | settings and reports | mostly pure functions of what they read | boundaries of mappings |

Interactions: shipments, webhooks and syncs all hand work to the job queue
(`enqueueBackgroundJob`), whose processor calls back into them; webhooks and
`createShipmentForOrderCheck` write the same shipment row; a saved shipment
sends the decision to the shop once more; a webhook's targeted sync, the
incremental and the full sync write the same snapshots; a login takes a trial
slot and changes the access that administrators and the gate change too.

The modules are composed where components share state: `Shipment` holds the
decision, the shipment, the courier's webhook and the retry of one order;
`WooSync` the decision, the shipment and the plugin; `HistorySync` the three
syncs that write a snapshot. The queue is used by its clients through its
promise, the abstract module `AtLeastOnceQueue` that `JobQueue` is proved to
implement: a job that throws or dies is put back, or given up.

What makes each component correct:

* queue: no job is run by two workers unless it was taken from one of them as
  stuck; attempts are not overstated and a job is only given up when they are
  spent; every job ends completed or failed; a completed job was executed.
* shipments: only confirmed orders are shipped, one parcel per order and one
  more after each of four kinds of events, a refused one is retried.
* Woo sync: every decision is reported, and the shop ends up with the tracking
  number.
* webhooks: a change that was announced and answered with 200 is fetched.
* delivery cache: the row lists what was fetched, its end accounts for all that
  was asked, a stop is kept, no row is left running to nobody.
* history, order sync: a change that is not stored yet is in the window of the
  next run.
* access: what an administrator has withdrawn stays withdrawn, a code buys one
  period, access has an end, paid time is served.
* trial slots: no more trials than the highest limit, and no slot is lost.

Most of these hold with exceptions. A module then keeps a history variable
`marks` (`subMarks`, `slotMarks`, ...) that no guard reads: the exceptions of a
property are the named ways in which this code lets it fail, each set at the one
step where it comes to pass, and the property says that there is no other way. A
mark is as narrow as the code allows: where a failure costs one change of one
parcel the mark names that change, and excuses no other; where it costs one
parcel or one slot the property counts it.

## Modules

| Module | What it is |
|---|---|
| `AtLeastOnceQueue` | the abstract queue: what is promised to code that enqueues a job |
| `JobQueue` | the queue as coded, for any jobs and any number of overlapping workers |
| `JobQueueProofs` | its inductive invariants, its safety properties, and the refinement, proved |
| `MCJobQueue` | the instances of `JobQueue` that TLC checks |
| `Shipment` | one order: decision, shipment row, parcels, retries, webhooks |
| `ShipmentProofs` | its inductive invariant and its properties, proved |
| `MCShipment` | the instance of `Shipment` that TLC checks |
| `MerchantSync` | one merchant's delivery cache: the runs of all processes and the row they share |
| `MerchantSyncProofs` | its inductive invariant and its safety properties, proved |
| `MCMerchantSync` | the instances of `MerchantSync` that TLC checks |
| `Subscription` | one merchant's access and activation codes |
| `TrialSlots` | the counter of early-adopter trials |
| `OrderSync`, `OrderSyncProofs` | the sync of one account at a courier that lists all its parcels; proofs |
| `MCAccounts` | the instances of `Subscription`, `TrialSlots` and `OrderSync` that TLC checks |
| `AccountsProofs` | proofs about `Subscription` and `TrialSlots`, and about the three side by side |
| `WooSync` | decisions and tracking numbers on their way to the shop |
| `WebhookIntake`, `WebhookIntakeProofs` | Yalidine's webhooks and their targeted syncs; proofs |
| `HistorySync`, `HistorySyncProofs` | the full, incremental and targeted syncs from Yalidine; proofs |
| `MCFlows` | the instances of `WooSync`, `WebhookIntake` and `HistorySync` that TLC checks |
| `FlowsProofs` | proofs about `WooSync`, and about the three side by side |

`MCAccounts` and `MCFlows` hold modules that share no variable. A behaviour of
theirs is one of one module: the variable `part` says which, and the others stay
where they began. What a part leaves out of its module is in `Within`.

### JobQueue

Each column of `background_jobs` that a guard reads is a function of the job:
`status`, `attempts`, `age` (now − `updated_at`) and `delay` (`run_after` − now).
The two times saturate, which no comparison in the code can tell. A worker is
one invocation of the route; `phase` is the await it stands before, `todo` and
`seen` are the rows of its last SELECT (with the attempts as they were then),
`batch` and `held` the rows it has claimed, `cur` the job it is running.

| Action | Code |
|---|---|
| `Enqueue` | `enqueueBackgroundJob(s)`, with whatever delay the caller's `runAfter` asks for |
| `SelectStuck`, `RecoverRow` | `recoverStuckJobs`: one SELECT, then one UPDATE per row guarded by `status = 'processing'` |
| `SelectReady`, `ClaimRow`, `EndClaim` | `claimBackgroundJobsByPriority`: SELECT, stable sort, one UPDATE per row guarded by `status = 'pending'` |
| `Start`, `Succeed`, `Throw`, `Refuse`, `EndTick` | the loop of the route; `Refuse` is a `YalidineAuthError` |
| `Complete`, `Fail` | `completeBackgroundJob`, `failBackgroundJob`: UPDATEs with no guard |
| `LoseWrite`, `LoseCall` | the error of a call is not looked at: a lost write, an empty result |
| `Crash`, `Elapse` | an invocation dies; time passes |

`claims`, `recoveries`, `token`, `executed`, `rejected` are history: no guard
reads them. They let the properties say what has happened to a row.

Left out: the payloads and the effects of the handlers (they belong to the
other components), the order by `run_after` within one priority (any set of
rows that the LIMIT allows may come), and the older `claimBackgroundJobs`, which
has the same UPDATE and is not called by the route.

### Shipment

The state of one order: `decision`, the row (`shipment`, `tracking`, `code`),
the number of `parcels` the courier has made, the retries `queued`, and for each
call of `createShipmentForOrderCheck` its `phase` and the parcel it was given
(`mine`). Dashboard requests and queue processors run the same actions; what
differs is who puts a call back when it throws (`PutBack`: the queue, or nobody).
The queue is used through its promise: a job that throws or dies is put back or
given up. Two variables are history. `causes` counts the events after which this
code may make one parcel more (`Cause`): a call that begins beside another, a
parcel that is made and never written down, one that is saved under a status that
does not look shipped, and a report that a parcel on its way was not delivered.
`chain` says whether a retry was not queued or was given up.

| Action | Code |
|---|---|
| `ReadDecision`, `InsertDecision` | `createMerchantDecision`: read, then INSERT under the unique constraint |
| `ReadRow`, `Check`, `Prepare` | the early return, the decision, account, profile and origin |
| `Accept`, `Reject`, `LoseAnswer` | `adapter.createShipment` |
| `Save`, `SaveFails`, `Announce` | the row of a made parcel, without a tracking number when neither the answer nor the lookup that follows it had one, and under any status of `shipmentStatusFromCreate`; what follows it |
| `SaveRejection`, `SaveFailure`, `EnqueueRetry` | the rows of calls that made none, and the retry |
| `Webhook` | the UPDATE of `merchant_shipments` in the generic webhook route |
| `Crash` | a request or a processor dies |

Left out: the choice among several courier accounts, the courier's payload, the
`delivery_orders` row and the notifications (only that they may fail). The answers
of `trackShipment` and `getLabel` have no step of their own: they change nothing
but what `Save` writes. The adapters of this repository answer `CREATED` or
`LABEL_READY`; the type of their answer allows `FAILED` and `UNSUPPORTED`, and so
does the model.

### MerchantSync

The row of one merchant in `merchant_delivery_sync_status` is `status`, `stage`,
`listed` (`origins_synced`), `failed` (`origins_failed`), `cancel`
(`cancel_requested`) and `fresh` (whether `last_heartbeat_at` is recent enough
for the row not to be stale). The memory of each process has its run: `at` (the
await it stands before; `"idle"` means that the lock is free), `todo`, `done`
and `bad` (`syncedOrigins`, `failedOrigins`) and `flag` (`cancelRequested`). A
process also has the calls that wait for the database beside the run: a
heartbeat (`beat`), a stop request (`stopping`), a retry (`retry`, with the
lists it read).

| Action | Code in `merchant-delivery-sync.ts` |
|---|---|
| `Start` (`TakeLock`) | `syncMerchantDeliveryCache`: the lock, and the flag is cleared |
| `ReadState` | `readSyncStateForResume` |
| `MarkRunning`, `MarkResuming` | the upsert that opens a run, fresh or resumed |
| `PickCredentials`, `MarkFailed`, `MarkStageGeo` | before the prices |
| `NextOrigin`, `FetchOrigin`, `CancelOrigin`, `ExhaustQuota`, `MarkOriginProgress`, `LeaveLoop` | the loop over the origins |
| `Conclude`, `MarkDone`, `MarkCancelled` | the end of the run |
| `SendHeartbeat`, `LandHeartbeat`, `AnswerHeartbeat`, `Expire` | `updateHeartbeat`: sent, written, answered; the time since the last |
| `RequestStop`, `AnswerStop` | the stop route and `requestMerchantCancellation` |
| `ReadFailed`, `CheckLock`, `MarkRetryRunning`, `RunRetry` | `retryMerchantFailedOrigins` |
| `LoseMark`, `LoseRetryMark`, `LoseHeartbeat` | a write of the row, or the read before a run, that fails: the error is not looked at, and the run goes on |
| `Crash` | the process dies, its memory is lost and the row stays |

`stored`, `gaps`, `asked`, `promise` and `marks` are history. `stored` and
`gaps` part the origins fetched since the row was last reset into those that got
every price and those that missed some. `promise` says whether a run was told to
stop, before its first mark or after it (`live`), and whether a mark has since
written `cancel_requested: false` (`wiped`). `marks` names what excuses a
property: `overlap` (a run or a retry took the row from another one that was
alive), `late` (a run started while an answer to an earlier one was on its way),
`crash`, `unmarked` (the first mark of a run or a retry was lost) and `unended`
(the last one was).

No request checks the lock in the database: it is per process, so runs of two
processes can cross, and the routes' look at the row before they start is not
atomic with the start. The model therefore lets every start through to the
lock. One heartbeat, one stop request and one retry of each process are on
their way at a time.

What two properties say about the row is less than a reader of the code may
expect, and the module says it in these words. `StopIsHeld` needs no exception for
runs that cross: a stop that was acknowledged after a run's mark stays in the row
until that run is over or one of four writes puts `cancel_requested: false` over
it, the first marks of runs (lines 341 and 384), the mark of a retry (615) and the
cancellation of another run (587). `ProgressKept` names the one write that drops
what was fetched: the first mark of a run that does not resume (342), which the run
of a retry makes too, over the list that the retry's own mark (616) had kept. That
no origin is fetched twice is not a property of this code: the comment at 976-977
speaks of a re-run that will not re-fetch what is synced, and a new run of all
origins empties the list and fetches them all; only a retry is confined to the
failed ones.

Left out: the order of the origins (any may come next), counts and messages of
the row, the contents of geography and prices, and the departure-centre row. An
origin fails only by an exhausted quota: every other error is caught per
destination, which is what `gaps` stands for.

### Subscription

`access` and `trial` are the columns of `merchants`; `plan`, `expiry`,
`lastCode`, `used` and `aged` those of `merchant_subscriptions`. An end of access
is ahead or past, which is all that the code asks. `step[c]` is the write that a
call stands before, `typed[c]` the code a redemption has found. A later code
takes the place of the earlier one in the row.

| Action | Code |
|---|---|
| `Administer` and the writes it leads to (`WriteAccess`, `WritePlan`, `Open`, `Extend`, `Approve`) | `reviewMerchantPaymentRequest`, `grantMerchantTrial`, `extendMerchantTrial`, `manageSubscription` in `payments/settings.ts`; `runMerchantAdminAction` in `admin/merchants.ts` |
| `GrantEarly` | `grantEarlyAdopterTrialIfEligible`, as far as it concerns the merchant |
| `Redeem`, `WriteRedeemed`, `Void`, `Refuse` | `plugin/activate/route.ts` |
| `Gate`, `GateReadsPlan` and the writes of `Ending` | `getEffectiveSubscriptionStatus` |
| `LoseWrite` | an error nobody looks at, or a call that dies |
| `TrialLapses`, `PlanLapses`, `CodeAges` | time |

Marks: `crossed` (a call that gives access and one that withdraws or ends it
overlapped), `twice` (two redemptions did), `lost` (a write failed), `endless` (a
payment was approved while the merchant was active or was redeeming, or an
administrator let the merchant in with no end on record).

### TrialSlots

`counter` is `used_early_adopter_trials`, `limit` is `early_adopter_trial_limit` (0
also when trials are not enabled); `at`, `who`, `round` and `seen` the memory of a
call; `early` and `manual` count the trials given, `highest` is the highest limit
so far.

| Action | Code in `payments/settings.ts` |
|---|---|
| `AskTrial`, `Look`, `Swap` | the read of the merchant and the three rounds of the reservation; a SELECT of the settings that fails is answered with the defaults (enabled, none used, five allowed) |
| `Grant`, `ReadCounter`, `GiveBack` | the guarded UPDATE of the merchant, and the release of the slot if it touches no row |
| `GrantManually`, `ReadCounter`, `Count` | `grantMerchantTrial` |
| `ResetSlots`, `SetLimit`, `MoveOn`, `Die` | an administrator's reset, another limit (lower, or 0), another change of the merchant, a crash |

Marks: `stale` (the counter was written from a value that it no longer had: the
release and the manual grant do not compare), `reset`, `unseen` (the merchant got
the trial and the answer was lost, so the slot is given back), `leaked` (a call
died with a slot), `guessed` (a call compared with the defaults). `LimitHolds` has
no exception: `base` holds the slots that were in use when the counter last forgot
some (a reset, an outdated write, a trial given unseen), and the program takes no
more than the highest limit beyond these, and no more than one where the limit was
always 0 and the defaults were taken for it.

### OrderSync

A moment is a change of a parcel. `createdAt`, `updatedAt` are the courier's,
`orderRow` the revision in `delivery_orders`, `lastCreated` and `lastUpdated` the
checkpoints, `streak` and `suspended` the account's; the rest is the memory of
each run. `refusals` is history: the runs in a row that failed for the credentials.

| Action | Code |
|---|---|
| `ReadAccount`, `FetchPage`, `StoreOrder`, `DropOrder`, `FinishOrders`, `CloseRun` | `runDeliverySync` and its courier's `syncOrders`, with `shouldKeepParcel`; a run that has seen no parcel leaves the checkpoints |
| `Retry`, `FailRun`, `RefusePlaceholders` | the retries, the last failure, placeholder credentials |
| `SaveAccount`, `LiftSuspension`, `Progress`, `DieRun` | `upsertDeliveryAccount`, time, the courier, a crash |

Marks: `moved` (the parcel changed after its page was read and before the last
one was), `dropped` (its row could not be written, and the checkpoint passes it),
`crossed` (a run wrote an older revision over a newer one). The streak counts on
from what the run found, whatever has reset it since; nothing is claimed of it but
what a message and a test say, which is violated (below).

### WooSync

`sync` is `wc_sync_status`, `born` the order of `created_at`, `parcel` the
shipment row, `due` the re-syncs to come. A run `p` of the plugin has what it was
given in `todo` and `known`, and what it has applied and not reported in
`applied`; `shopTracked` is the shop.

| Action | Code |
|---|---|
| `Decide`, `SaveShipment`, `QueueResync`, `LoseResync` | `createMerchantDecision`, `persistShipmentRecord`, `queueWooDecisionResyncWithShipment` |
| `TrackLate` | the webhook route's UPDATE, which asks for no re-sync |
| `ListPending`, `FillShipments`, `FillBlind` | `listPendingWooDecisionActions`: two SELECTs, the error of the second ignored |
| `Apply`, `ReportSynced`, `ReportFailed`, `LoseReport`, `EndPoll`, `DiePoll` | the plugin (external) and `markMerchantDecisionWooSync` |

Marks, per order: `missed` (a run without the number held the decision when the
re-sync, which touches `SYNCED` rows only, ran; its report then ends the
matter), `late`, `lost`, `blind`. The first needs no fault.

### WebhookIntake

`recorded` is `webhook_event_log`, `hook`, `about`, `news` the requests, `pending`,
`run`, `target`, `got` the targeted syncs in the queue and in processes, `fetched`
what is stored. The queue writes the row of a sync that ends by its id alone;
`lapsed` are the syncs whose row is no longer theirs, because the recovery of stuck
jobs has put it back or given it up while they went on. Whether the courier's events
carry a time (`stamped`) is chosen at the beginning.

| Action | Code |
|---|---|
| `Receive`, `AnswerDuplicate`, `Gate`, `Enqueue`, `Settle`, `DieHandler` | `handleYalidineWebhook`, `computeWebhookEventId`, `enqueueTargetedSyncIfNeeded` |
| `TakeJob`, `Recover`, `CompleteJob`, `PutBack`, `GiveUp` (`End`: the write by the id) | the queue, `background-jobs.ts`, for these jobs |
| `FetchHistory`, `StoreHistory` | `runYalidineTargetedSync`; it also completes with nothing fetched, without an account that can be synced or its credentials, and on a 404 or a history without events |

A mark names a parcel and a change, and excuses that change and those before it,
never a later one. The request about the change: `busy` (every sync that the gate
counted was processing and had its answer from before the change), `cut` (the
request died after it had recorded the event, so that the redelivery is a
duplicate), `unqueued` (the INSERT of the job failed; the handler answers
`enqueued: true` all the same), `merged` (an event without a time has the id of
every other of its parcel). The queue, for the last change of that moment: `unread`
(a sync completed with nothing fetched), `buried` (the queue gave a sync up),
`usurped` (a sync that had lapsed completed the row that waited).

### HistorySync

The revision of a parcel is the time of its last change. `snapshot`, `events`
and `checkpoint` are the database, with the cursors of the full sync in `saved`;
`stage`, `left`, `page` are the full sync under way, and for each other run its
`kind`, `pass`, `began`, `anchor` (the checkpoint it found), `unlisted`, `batch`,
`listedAs`, `current`.

| Action | Code |
|---|---|
| `ReadPage`, `WriteParcels`, `WriteHistories`, `SaveCursor`, `CompleteParcels`, `CompleteHistories`, `ResumeFull` | `yalidine-history-full-sync.ts` |
| `BeginRun`, `ReadCheckpoint`, `ListPage`, `CutBatch`, `WriteSnapshot`, `WriteEvents`, `MissHistory`, `FinishRun` | `runIncrementalSync`, `fetchParcelsSince`, `fetchAllPages` |
| `Aim` and the same writes | `runYalidineTargetedSync` |
| `AbortRun` | a throw or a crash |

What may go wrong without an error is in the actions. The UPDATEs of cursors and
checkpoints are not looked at: one that fails leaves them, and the full sync goes
on to its second phase without a checkpoint. An answer that is not JSON becomes
`{}`, a last page with nothing on it: it completes a phase of the full sync
(`AtEnd`) or ends a listing, as the cap of 100 pages and a link that was followed
before do (`CutBatch`). These count as faults (`MaxHistoryFaults`).

Marks name a parcel and its revision, and excuse nothing once it has changed
again. The full sync: `slow` (it took longer than the overlap, and the parcel
changed behind it; its checkpoint is the time of its end), `torn` (it took an
earlier page for the last). A run that began more than the overlap after the
change: `cut` (it had more parcels than a run takes), `short` (its listing ended
before the parcel's page), `gap` (the history could not be read and is passed
over). `long`: a run wrote an outdated revision more than the overlap after it
began.

Left out: the customers' identities and the reputation derived from the events; a
SELECT of the status row that fails in `runFullSync`, after which it copies
everything again; two full syncs that overlap; and parcels that move between
pages. The header of the incremental sync (`yalidine-history-incremental-sync.ts:68`)
asks for a complete full sync; the code runs as soon as its first phase has left a
checkpoint, and `Missing` in `WindowCovers` covers the time until the second is
done.

## Runs

| Run | Instance | What it shows |
|---|---|---|
| `queue_overlap` | 1 job, 2 workers, 1 fault, fair | ownership (`SoleOwner`), recoveries and attempts, `BuriedOnlyWhenSpent`, reopening only after a recovery, refinement of `AtLeastOnceQueue` (`KeepsPromise`), and every job settles for good (`EveryJobSettles`) |
| `queue_serial` | 2 jobs of different priority, 1 worker, 2 faults | what holds only when ticks do not overlap: exact attempts, a settled row is final, the recovery touches stuck rows only, the back-off is respected |
| `queue_recovery_doc` | 1 job, 2 workers, no fault | **violated**: the recovery rewrites a row that is no longer stuck |
| `queue_backoff_doc` | 1 job, 2 workers, no fault | **violated**: a row is claimed before its back-off has run out |
| `shipment_calls` | 2 deciders, 2 requests, 1 processor, 3 parcels, 1 fault | `ParcelNeedsConfirmation`, `DecisionIsFinal`, one parcel and one more for each cause (`ParcelsAccounted`), `TrackingKept`, `NoFailureStranded` |
| `sync_calls` | 2 processes, 2 origins, 3 requests, 1 crash or lost call (`Few`) | listed origins were fetched (`SyncedIsFetched`), a run that writes its end accounts for all it was asked for (`EndAccounts`), a run is cancelled for a cause (`CancelHasCause`), a stop acknowledged by any process stays in the row (`StopIsHeld`), progress is kept across crash, resume and retry (`ProgressKept`), a running row has a run (`RunningRowHasRun`) |
| `sync_stop_doc` | 1 process, 2 origins, 3 requests | **violated**: a stop that was acknowledged is forgotten |
| `sync_resume_doc` | 1 process, 2 origins, 2 requests, 1 crash | **violated**: a resumed run skips an origin with missing prices |
| `accounts_calls` | access: 2 calls, 2 codes, 1 lost write. Slots: 2 calls, 2 merchants, limits 0 and 1, 2 manual grants, 1 fault. Orders: 2 parcels, 3 changes, 2 runs (one a full sync), 2 attempts. Streak: 2 runs, 3 failures for a suspension | a withdrawal holds (`WithdrawalHolds`), a code buys one period (`OneRedemption`), access has an end (`AccessEnds`), paid time is served (`PaidTimeServed`); slots are neither overspent nor lost (`SlotsExact`, `LimitHolds`); a parcel that is behind is kept by the next run (`LateOrdersKept`) |
| `accounts_refusal_doc` | the same | **violated**: a code that nobody redeemed is refused as already used |
| `accounts_suspension_doc` | the same | **violated**: an account is suspended although its credentials did not fail three times in a row |
| `flows_calls` | polls: 1 order, 2 runs of the plugin, 1 fault; limit: 2 orders, lists of 1. Hooks: 2 parcels, 2 requests, 2 syncs, 2 changes, 1 fault. History: 2 parcels, 2 runs beside a finished full sync or 1 beside one under way, overlap 1, 1 parcel a run, 1 fault | the tracking number arrives (`TrackingArrives`), every decision is reported (`EveryDecisionReported`), an announced change is fetched (`NotifiedIsFetched`), the next window covers what is missing (`WindowCovers`) |

Bounds. Overlap in the queue needs two workers and one row they contend for; the
jobs do not interact except through the batch and its priority, which `queue_serial`
covers with two. `StuckTimeout = 1` and the back-off of 2 and 3 ticks let age and
delay both run out and stay short of it; `RetryLimit = 3` and `StuckMaxAttempts = 3`
are the code's values. `MaxFaults` bounds crashes, lost writes and failed calls; the
queue's findings need none. In `shipment_calls` one fault is enough for each cause
that is a fault, and three parcels for two causes one after the other. `sync_calls`
has two processes because stops and heartbeats cross between processes only, and two
origins, one done and one left when the quota, the stop or the crash comes. Three
requests are a start, what ends it early, and a retry or the resuming start; `Few`
keeps two processes to one origin once there is a fault or a third request, and
follows a third request after a fault with one process, which is where the resuming
after a crash shows. In `accounts_calls` two codes are a code and its renewal, two
calls every pair that can overlap, and a behaviour is followed until the third of
the four marks (`FewMarks`): no property has more than two; two merchants race for
one slot while two manual grants make the count pass the limit. The two runs of the
order sync are a periodic one and a full one, because those move the checkpoints in
opposite directions; three changes make two parcels and one later change. The streak
needs three failures, the code's number. The slots' limit is 0 or 1, so that it can
be raised, lowered and be beneath the default. In `flows_calls` two runs of the
plugin are enough for one to report what the other is given, and two orders for a
list of one to leave one out. Two webhook requests and two syncs give every order of
the gate, the fetch and a second change, and let a second sync take the row of one
that the recovery has put back; the second parcel changes once, and is there for
events that are told apart by parcel. For the windows one parcel changes and the
other fills the page or the run that the first does not fit into; time passes the
overlap twice, which is when a window is missed. One fault of the history is enough
for each of its six marks, and each is needed: without it TLC finds `WindowCovers`
violated. Each property holds at these bounds and falls under the mutation of the
code listed for it in `PROJECT.json` (the definitions called *slips* in the
modules).

Fairness. `queue_overlap` assumes that the cron keeps starting invocations
(`WF` of `SelectStuck`; `vercel.json` schedules one a minute), that a running
invocation proceeds or dies (`WF` of `Work`; no handler runs for ever), and that
time passes. Enqueueing and faults are not fair. `flows_calls` assumes that
the plugin polls again and again and that a poll goes on unless it dies (`WF` of
`Poll` for each; `docs/Plugin.md:100`: "Periodic pull of decisions"); a poll that
dies is a fault, and those are bounded. No other passing run needs fairness.

Deadlock is not checked in the `sync` and `flows` runs: once the bounds on
requests or changes are used up the system may be at rest.

### What the violations say

* `recoverStuckJobs` documents that it *only* touches rows older than the
  cutoff. The cutoff is tested in its SELECT and not in its UPDATE. One tick
  selects a row as stuck whose worker is only slow; the worker then fails the job
  itself, the back-off runs out and the row is claimed again; and the first tick's
  UPDATE, whose guard on the status holds once more, takes the fresh claim away:
  the job runs twice and an attempt is lost or counted twice. No fault is needed.
* `mdi-config.ts` documents the back-off between retries. `run_after` is tested
  in the SELECT of the claim and not in its UPDATE. A tick that selected the row
  before claims it right after another tick has failed it.

* The stop route answers that the sync will stop after the current operation.
  `retryMerchantFailedOrigins` marks the row running before the run that takes
  the lock, clears the flag and resets `cancel_requested`. A stop acknowledged
  in between leaves no trace, and the run goes on. (`StopIsHeld` shows which writes
  can take a stop out of the row after the run's own mark.)
* A comment says that a resumed run skips origins *fully committed* before. The
  list it skips holds every origin whose loop over the destinations ended, also
  when some were skipped after an error or their prices could not be stored.

* The redemption answers "This activation code has already been used" for every
  row with `used_at`. Approving a renewal upserts the merchant's row and leaves
  the `used_at` of the earlier code, redeemed or voided for its age: the new
  code is refused although nobody has redeemed it.
* A suspended account is told that its "credentials failed 3 consecutive times"
  (`sync.ts:836`), and a test says "suspends account after 3rd consecutive credential
  failure" (`tests/delivery-sync-suspension.test.ts:185`). The streak counts failures
  of any kind, and only the last must be one of credentials: two timeouts and one
  refusal suspend the account.

`OneRecoveryPerClaim`, `AttemptsNotOverstated` and `BuriedOnlyWhenSpent` say how
far the damage of the first two can go.

## Proofs

TLAPS proves the following for every number of jobs, workers, requests,
processors, processes, origins, calls, merchants, orders, parcels and syncs, and
every value of the limits (`ASSUME`s: the limits are natural numbers, `NoJob` is no
job, requests are not processors; more below).

* `JobQueueProofs`: `IInv` is inductive (`Invariance`). To the safety properties it
  adds `MemoryInv` (a worker has a current job exactly while it runs or settles one,
  and holds each row once), `CountInv` (no remembered value overstates the attempts;
  a processing row has a claim no recovery has used up) and `TokenInv` (each claim
  belongs to one worker and is executed once). From it: `TypeOK`, `SoleOwner`,
  `OneRecoveryPerClaim`, `AttemptsNotOverstated`, `BuriedOnlyWhenSpent`, the action
  property `ReopenedOnlyAfterRecovery`, and `Implementation`: every step of the
  queue is a step of `AtLeastOnceQueue` or a stutter. `SoleOwner` alone is not
  inductive: that a second worker cannot claim needs the status of the row, and that
  the status is right needs that no remembered row is settled twice (`TokenInv`).
  Through the refinement, `CompletedWasExecuted`: the abstract queue keeps `Kept`,
  and so a completed row was executed. Where no two ticks overlap (`Serial`, a
  hypothesis of the theorems, true of `queue_serial`), `SerialInv` is inductive: the
  rows that the tick has selected are as its SELECT saw them (`FreshInv`) and the
  attempts it remembers are those of the row. From it: `AttemptsExact`,
  `SettledIsFinal`, `RecoveryTouchesOnlyStuck` and `BackoffRespected`, for any
  number of jobs. The last two are the ones that `queue_recovery_doc` and
  `queue_backoff_doc` find violated: overlapping ticks are the only cause.
* `ShipmentProofs`: `IInv` is inductive. To the properties it adds `ConfirmInv`
  (past the check the order is accepted; decisions are final), `CauseInv`,
  `NumberInv` (the tracking numbers in the row and in memory are of parcels that
  exist) and `RefusedInv`. `ParcelsAccounted` alone is not inductive: `CauseInv`
  counts, beside the parcels, the calls that may still make one and the one that a
  row which does not look shipped invites, and each of these has its own cause. From
  it: `TypeOK`, `ParcelNeedsConfirmation`, `ParcelsAccounted`, `NoFailureStranded`,
  `DecisionIsFinal` and `TrackingKept`.
* `MerchantSyncProofs`: `IInv` is inductive. Whatever runs, retries, faults and
  processes cross, it says what a run has done and has to do (`RunInv`), that no run
  is told after its mark before it has made it (`PromiseInv`), `StopIsHeld` and
  `RunningRowHasRun`; as long as no run has taken the row from another, that every
  list, in the row or in a memory, is of fetched origins (`FetchedInv`). `Order`
  holds until the row is taken or a first mark is lost (`Crossed`): one run has marked
  the row (`SoleInv`), what a resumed run or a retry has read still stands (`StandInv`),
  and every trace of a wish to stop, in the row, in a flag or in an answer on its
  way, has a cause (`CauseInv`). `EndAccounts` follows from `RunInv` alone, which is
  what a run holds in memory before `MarkDone` writes it. From it: `TypeOK`,
  `SyncedIsFetched`, `EndAccounts`, `StopIsHeld`, `CancelHasCause`,
  `RunningRowHasRun` and `ProgressKept`.
* `AccountsProofs`, for `Subscription`: `SubInv` is inductive. To the properties it
  adds `CrossInv` (calls that give and calls that take exclude each other until they
  cross), `UseInv` (`used_at` is never cleared), `AdmitInv` (a redemption leaves an
  end behind before it gives access), `WithdrawInv` (what a withdrawal has done so
  far) and `GateInv` (what the gate is to write down is still so). From it:
  `WithdrawalHolds`, `OneRedemption`, `AccessEnds`, `PaidTimeServed`. For
  `TrialSlots`: `SlotInv` is inductive. Slots used or held since the counter last
  forgot some are in the counter (`BaseInv`), and the compare-and-set succeeds only
  on a value below the highest limit, or on 0 where the defaults were taken for a
  limit that was always 0 (`SeenInv`). From it: `SlotsExact`, `LimitHolds`. For
  `MCAccounts`: each of its behaviours is one of each of the three modules
  (`AccountsAreModules`), so that what is proved of them holds of the instances,
  `TypeOK` included.
* `OrderSyncProofs`: `OrderInv` is inductive. `TimeInv` orders the times known to
  the database, to the runs and to the courier. `ListInv` follows a parcel that is
  behind through every run under way: it passes the run's filter, and once its page
  is read the run holds its last revision or ends with checkpoints that leave the
  parcel to the next run. `LateOrdersKept` alone says nothing of what a slower run
  is about to write down. The two checkpoints are known together (`PairInv`), which a
  run that has seen no parcel, and leaves them, does not undo. From it:
  `LateOrdersKept`.
* `FlowsProofs`, for `WooSync`: `WooInv` is inductive. `HeldInv` follows a list in the
  plugin's hands: without the number it is followed by the re-sync or marked.
  From it: `TrackingArrives`. For `MCFlows`: each of its behaviours is one of each of
  the three modules (`FlowsAreModules`), the history sync's from the second of its
  two beginnings also (`FlowsHistoryInvariance`); `TypeOK`.
* `WebhookIntakeProofs`: `HookInv` is inductive. `RecordedInv` says of events that
  are recorded what `NotifiedIsFetched` says of those that were answered: a
  duplicate is answered because of the record.
* `HistorySyncProofs`: `HistoryInv` is inductive. `ClockInv` orders times and
  revisions; `PageInv` says of the full sync, and of its cursors that may not have
  been written, which parcels are behind and not ahead of it (`Ahead`); `RunInv` says
  the same of every incremental run at each point, so that `FinishRun` may move the
  checkpoint. From it: `WindowCovers`. The proof covers any number of runs, of
  parcels, of failed writes and early ends, and any overlap; `MCFlows` checks one
  parcel that changes.

The constants' assumptions are `SubBounds`, `SlotBounds`, `OrderBounds`,
`WooBounds`, `HookBounds` and `HistoryBounds`: the bounds are natural numbers, some sets are
finite, and the values that stand for nothing are none of the others.

Only model-checked: `EveryJobSettles` and `EveryDecisionReported`, which say that
something happens in the end: liveness under fairness is out of the prover's reach.
Every other property of a passing run is a theorem. Of the six properties that a run
finds violated, two are theorems for ticks that do not overlap.

## What the modules do not say

Things that a reader of the code may take for granted and that fail without any
fault but slowness, or after one that nobody is told of; each but the last is an
exception that a property above names.

* A tracking number may stay unsent: when the parcel is saved while the plugin
  holds the decision (`missed`), or when the courier gives it later (`late`).
* A second change of a parcel may stay unfetched although its webhook was answered
  with 200, if it comes while the only targeted sync is processing and has its
  answer already (`busy`). The next change, or the incremental sync, brings it.
* A targeted sync of a merchant without a usable account, or of a parcel whose
  history is a 404, completes and is not tried again (`unread`).
* A parcel may be made twice for one order with no fault: two clicks overlap, or a
  parcel on its way is reported as not delivered. A lookup of the tracking number
  that fails leaves a row that looks shipped and shows none.
* A sync that the recovery has put back while it ran may complete the row of the
  next one, which is then not run (`usurped`; this takes a handler slower than the
  cutoff for stuck jobs).
* A full sync of more than the overlap, a run of more than 5000 parcels or of a
  listing of more than 100 pages moves the checkpoint past changes (`slow`, `cut`,
  `short`), and an answer that is not JSON is the end of a list (`short`, `torn`).
* The order sync moves its checkpoint to the latest time it has seen: a parcel
  that changes while later pages are read may be passed (`moved`).
* Two writers of the slot counter may undo each other (`stale`), and a SELECT of the
  settings that fails gives a trial where the limit is 0 (`guessed`).
* A new run of all origins fetches again what an earlier one has fetched before the
  day's quota ended it, whatever the comment at `merchant-delivery-sync.ts:976-977`
  says.

## Not modelled

* Global and per-merchant delivery cache: loops over price lists under a lock, a
  quota and a list of origins, the shape of `MerchantSync`; otherwise data.
* Adapters: HTTP clients, whose answers are inputs of the modules. Rate limiters
  only wait.
* Order checks, risk and order decisions: weights and thresholds over rows that
  are only read. Status tables: a model would repeat the tables.
* Settings, push notifications, analytics, dashboard, authentication: single
  writes, reports and pages.
* Of modelled components: the row of the payment request; the generic webhook
  route's own event record (a crash after it leaves the event unprocessed); the
  customers' identities and reputation, and the job that recomputes it; the
  departure centre's row in `MerchantSync`; the pending rows that
  `processSyncDeliveryCache` deletes in `JobQueue`
  (`process-background/route.ts:105-125`); the subscription's 402 before a poll or a
  report in `WooSync`; in `Shipment` a retry that the recovery of stuck jobs puts
  back while it still runs (it would add one more call that overlaps); in
  `OrderSync` the `attention_required` status, an UPDATE of the account that fails,
  and runs that are not for one account.
