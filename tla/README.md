# Formal model of the HireWiz backend

This directory holds TLA+ specifications of the parts of the backend
(`backend/app`) whose correctness depends on the order in which concurrent
steps, crashes, retries and refunds happen, the TLC configurations that check
them on small instances, and TLAPS proofs of their main invariants for every
instance. `PROJECT.json` maps every definition to the lines it models.

## The system

One FastAPI service and PostgreSQL hold all state. Cloud Tasks delivers work to
private workers, a scheduler calls a publisher sweep and a maintenance job, a
payment provider calls a webhook, and model and employer services are called
from the workers. Consistency rests on four devices, used again and again:
row or advisory locks held for one short transaction; compare-and-set updates
fenced by a lease token; unique idempotency keys; and an outbox row written in
the transaction that creates the work.

| component | state | operations | interacts with | what is hard | what makes it correct |
|---|---|---|---|---|---|
| dispatch (`domains/dispatch`, `routers/worker.py`) | `dispatch_outbox` rows: status, token, lease, attempts, task name, continuation marker | enqueue, publisher sweep, claim, finish, retry, exhaust, continue a search | every domain that queues work; Cloud Tasks | two publishers and two workers on one row, crashes after commit, ambiguous task creation, late writers | intent is never lost, a retired row stays retired and has no open work behind it, leases exclude, one physical task |
| analysis (`domains/analysis`) | `analysis_runs` | create, cancel, claim, execute, commit result, record error | dispatch delivers it, usage pays for it | stale takeover, cancel while executing, late failure | one outcome, cancel wins, bounded retries, the outcome matches the units |
| usage (`domains/usage`, `services/guardrails.py`) | `users.ai_credits`, `usage_events` | reserve, waive, commit, release | analysis and every synchronous operation | called from six places, crash inside a synchronous body | the ledger explains the balance, no double release |
| credit ledger (`domains/credits/service.py`) | grants (lots), reservations, allocations, debt, events | expire, grant, reserve, settle, revoke | billing grants and revokes, paid operations reserve and settle | partial refunds against spent, expired and restored credits; stamps older than the lock | every credit accounted for, debt explained and paid first, only live lots are spent |
| prefunded execution (`domains/credits/execution.py`, `admission.py`, `analysis.py`, `synchronous.py`) | holds, attempts, liabilities | admit, execute once, claim, callback, settle delivery, reconcile native cost | ledger, analysis, generation budget, model provider | late callbacks, unknown outcomes, takeover of a run that already cost money | cost is never forgotten, the budget is never given away twice, delivery is charged once |
| billing (`billing/`, `routers/billing.py`) | orders, payment events, transactions, refunds, entitlements | create and resume an order, checkout result, webhook (capture, failure, refund), reconcile, end Premium | ledger, erasure, payment provider | events twice, late, in any order; unlocked calls of the browser; unknown outcome of creation | credits follow the money, refunds booked once, one payable order, access exactly while an entitlement is active |
| generation budget (`services/generation_budget.py`) | model call events, liabilities, the run's cost totals | before, after | analysis | callback after erasure or settlement | totals equal the liabilities |
| notifications (`domains/notifications`) | `notification_outbox`, envelopes and attempts in the audit log | enqueue, claim, begin, send, record, write, sweep, purge | maintenance, requests, mail provider, account erasure | slow sender against the sweep, a message asked for again after its row was deleted, unknown outcome | nobody gets a message twice, rows say what happened, requests within the budget, what is paid for is decided |
| resume uploads (`domains/resume_uploads`) | upload rows, two objects, cleanup rows | create, signed PUT, complete, cancel, scan, release, sweep, clean up | object store, deletion of the resume or the account (trigger) | lease lost between object write and release, late writes, deletion while a cleanup is at work | a saved resume keeps its source, closed places stay closed, what ended is erased soon and in the end |
| employer: applications (`domains/employer/service.py`, `tasks.py`, `admissions.py`) | applications, admissions, reserved credits, attempts | create, edit, approve, request, cancel, execute, reconcile, erase | dispatch delivers, credits pay, the employer's interface receives | unknown outcome of a POST, stalled or dead senders, rolling limits, cancellation in every state | at most one application per opening, paid exactly when received, limits respected, queued work attended |
| employer: searches, connectors, pacing (`domains/employer`) | searches, postings, batches, artifacts, host permits | prepare and continue a search, fetch, pace | dispatch, credits | multi-turn searches, permits that expire on the wire | see the plan |
| free core (`domains/free_core`) | free admissions and allowances | admit, complete | uploads, analysis | retries of the same source | one admission per source |
| candidate accounts, ingress, browser assistance, career, recovery | identities, replay records, sessions, evidence, operator journals | sign-in, erase, pair, submit, recover | all | erasure against everything in flight; replay; multi-step recovery | erased data does not come back |
| operations, coverage audit, quality tooling, routers, frontend, companion, infrastructure | none or read-only, or outside the server | | | | |

## Modules

```
Intent            abstract outbox: what delivery promises and what it asks of the work
  ^        ^
  |        |  INSTANCE ... WITH, property ImplementsIntent
Dispatch   AnalysisRuns     CreditLedger   Payments   Applications   ResumeUploads --> Vault
  ^            ^                ^             ^            ^              ^        ImplementsVault
MCDispatch   MCAnalysisRuns   MCCreditLedger MCPayments MCApplications MCResumeUploads
                                          ExecutionHolds <-- MCExecutionHolds    Mail <-- MCMail

DispatchProofs  AnalysisRunsProofs  CreditLedgerProofs  PaymentsProofs  ApplicationsProofs
                                    ResumeUploadsProofs  ExecutionHoldsProofs  MailProofs

Sums               extended by CreditLedger, AnalysisRuns, Payments, ExecutionHolds and Mail
```

`MC*` are the instances for TLC, `*Proofs` the theorems. `Intent` connects the
modules: `Dispatch` implements it for any work it carries; `AnalysisRuns` is
written against it (its `intent` and `holder` stand for the outbox) and is checked
to implement it too, which here means that the worker of analysis keeps its side:
it never lets the outbox retire a run that still waits or runs. `Applications`
uses the outbox in the same way (`event`, `holder`), but its worker does not keep
that side in one corner (see Findings), so it states what does hold. `ExecutionHolds`
stands between `AnalysisRuns`, whose worker it repeats for paid runs without the
outbox, and `CreditLedger`, whose `settle_reservation` follows each delivery.
`Sums` defines a sum by counting: the sum of a function is the number of points under
its graph. The prover can reason about that with the theorems on finite sets, which it
cannot about a fold; `CountingIsSumming` in `MCCreditLedger` has TLC compare the two.

### Dispatch

One row of `dispatch_outbox` is a record. Time is three flags of a row instead
of a clock: `leased`, `due` and `aged` (dispatched and untouched for an hour).
They change at any moment, so whatever clock a process reads, also the one `now`
that `dispatch_pending` uses for a whole batch, is covered. A lease token is the
identity of the call slot that took it. The `attempts` column appears twice: as
`execs` and as the generation that names the next physical task.

| code | actions |
|---|---|
| `enqueue` | `Enqueue` |
| `dispatch_pending` | `SelectBatch`, `ClaimForPublish`, `ReadSnapshot`, `CreateTask`, `FinishPublish`, `CrashPublisher` |
| `process_event` | `ClaimWork`, `MissClaim`, `AnswerMissed`, `Execute`, `SettleExhausted`, `FinishWork`, `CrashWorker` |
| `_continue_search` | `ContinueSearch`, `CheckFresh`, `PublishContinuation`, `RecordContinuation` |
| `cancel_bounded_search`, account erasure | `CancelWork`, `EraseWork` |
| leases, back-off, the hour, the queue | `LeaseExpires`, `BecomesDue`, `Ages`, `DropTask` |

Each SQL transaction is one step; between two transactions of a call anything
may happen. Left out: the inline and manual dispatch modes, the batch limit of
100 and the topic filter, payload validation in `enqueue`, and the read-back of
a claimed row, which is taken together with its claim. The pause gates are checked
before the claim and change nothing. The handler is `Execute`: it may finish,
find the work busy, raise, or (searches) advance.

### AnalysisRuns

| code | actions |
|---|---|
| `create_run`, `cancel_run`, account erasure | `Create`, `Cancel`, `Erase` |
| `process_event` around a run | `Deliver`, `SettleExhausted`, `Return`, `Lapse` |
| `process_analysis_run` | `ClaimRun`, `AnswerStatus`, `ReadRun`, `CancelClaimed`, `Execute`, `CommitResult`, `RecordError` |
| `billable_operation` | `StartSync`, `FinishSync`, `FailSync` |
| process death, twenty minutes | `Crash`, `BecomesStale` |

`reserve_run_usage`, `commit_run_usage` and `release_run_usage` run inside the
transactions of these actions and are the operators `Reserve`, `EndCommitted`
and `EndReleased`. Whether Premium access waives a reservation is chosen
nondeterministically. Left out: top-ups of the balance, request-key aliases and
the reuse of equivalent runs (a repeated request finds the run), the paid path
with holds (`credits/analysis.py`), and input purging.

### CreditLedger

Every operation takes the owner's lock first, so it is one step. The stamp of an
operation is read before the lock, so `Stamps` lets it lie up to `Lag` units in
the past and run backwards between operations. A lot is named by its source or,
for a restored lot, by its parent and reservation. `book` is the sum of the
amounts of all journal events. Lots with the same expiry and issue time are
ordered by their random id in the code; the model allows every order. Left out:
purchase quotes and the unlinking of an erased owner.

### Payments

The orders of one owner, with the provider as part of the environment.

| code | actions |
|---|---|
| `create_order` | `CreateOrder`, `RecordCreated`, `RecordUnknown`, `CrashCreating`, `Resume` |
| `record_checkout_result` | `ReadOrder`, `ReadTransaction`, `WriteResult` |
| `process_razorpay_webhook` | `CaptureEvent`, `FailureEvent`, `RefundEvent`, `FindTransaction`, `HintedRefund` |
| `reconcile_order`, `fetch_reconciliation` | `StartReading`, `ApplyProof`, `GiveUpReading` |
| `end_premium` | `StartEnding`, `LockEntitlements`, `EndPremium` |
| `erase_account_sql` | `StartErasing`, `ReadOrders`, `EraseAccount`, `GiveUpErasing` |
| provider and customer | `ProviderCreates`, `FailPayment`, `AuthorizePayment`, `CapturePayment`, `RefundPayment` |

A webhook that is told the order locks it before it reads it and the owner before it
changes the owner, so it is one step. A refund event without a payment is not told the
order: it finds it by its transaction, which it reads without a lock (`FindTransaction`)
and, as the session already holds it, does not read again once the order is locked
(`HintedRefund`). The status as it was read first is in `hint`; at the commit it is written
only if what the event makes of it differs (`Hinted`, `Written`). Order, refunds and
entitlement are read after the lock. The helpers `_payment_transaction`,
`_grant_entitlement`, `_adjust_service_credit_refund`, `_revoke_entitlement`,
`_process_capture` and `_process_refund` are the operators `Known`, `Granted`,
`Adjusted`, `Revoked`, `Captured` and `Refunded`. They act on the state of a
transaction, which distinguishes what the session has flushed (`seen`, `taken`)
from what it still holds, because the sessions of the program do not flush
before a query. Calls that read without a lock are split at each query. An
attribute that is set to the value it was read with makes no update; this is why
`WriteResult` writes a status only if it had read `created`, and why `EndPremium`
may write no tier.

`erase_account_sql` sets `user_id` of orders and entitlements to null; `owner`
FALSE stands for that. An entitlement inserted between its reads and its commit
keeps a foreign key to the user, so the deletion fails (guard of `EraseAccount`).

Left out: fees, taxes and dates; expiry of Premium; credits spent elsewhere; the
analysis units of a bundle, which are granted and taken back by the same
formulas; the payload of rejected events; several SKUs; and orders for the
credit pass, whose lots are in `CreditLedger`. The branch of `create_order` that
abandons an order and its `active_attempt_key` are not in the model: an order
without a provider's order is `initializing` or `creation_unknown`, which blocks
before that branch, and the owner's lock makes creations take turns. Premium is
sold no longer (`product_purchase_enabled`), so its orders exist from the start;
that two of them can still be open is assumed, since the catalog that created
them is not part of this code. The provider keeps its contract: one successful
payment per order, refunds within the price.

### ResumeUploads and Vault

One direct upload: its row, its cleanup row and its two objects. `Vault` is what the
quarantine promises: bytes are published at most once and only with their copy in
place, the copy stays while they are published, closed places stay closed.

| code | actions |
|---|---|
| `create`, `complete`, `cancel` (`service.py`) | `Create`, `Complete`, `Cancel` |
| the signed PUT (`storage.sign_upload`) | `Upload` |
| trigger `resume_upload_unlink` (alembic 0014) | `DeleteResume`, `EraseAccount` |
| `process` (`tasks.py`) | `Claim`, `InspectObject`, `Check`, `ReadAndScan`, `PutClean`, `Release`, `Lose`, `Fail`, `StoreFails`, `CrashScan` |
| `sweep` (`privacy.py`) | `Sweep` |
| `run_cleanup` (`privacy.py`) | `ClaimWork`, `RetireQuarantine`, `RetireClean`, `RetireFails`, `Postpone`, `Finish`, `CrashCleanup` |
| admission, leases, retry and daily check | `Expire`, `ScanLeaseLapses`, `WorkLeaseLapses`, `BecomesDue` |

A call of the object store is a step of its own, and one that fails may or may not
have done what it was asked. A browser may use its signed PUT at any time, also
after everything else is over. Left out: the limits and idempotency of `create`,
`source_access` (it reads), what a scan looks for in the bytes, and the batch
sizes of the sweep.

### Applications

Applications that the service itself sends (mode "api"), of one candidate.

| code | actions |
|---|---|
| `create_application`, `update_package`, `approve_application`, `request_execution`, `cancel_application` | `Create`, `Edit`, `Approve`, `Request`, `Cancel` |
| `delete_account_data` (`privacy.py`) | `Erase` |
| `process_event` around an application | `Deliver`, `SettleExhausted`, `Return`, `Lapse` |
| `execute_application` | `Begin`, `Preflight`, `GiveUp`, `Launch`, `Send`, `Record` |
| `reconcile_application` | `ReconcileConfirmed`, `ReconcileNotSubmitted` |
| the window of the limits, process death | `Age`, `Crash` |

`execute_application` has three transactions with requests between them. Whatever
can make one of its checks fail (approval, quote, form, posting, permission, limit,
credential) is a choice of the environment, so every `Failed` branch can be taken
wherever the code can take it. `arrived` counts on the employer's side what was
really received. An administrator's reconciliation is truthful, which the code
cannot check. Left out: manual applications and their reports, reviewed submissions
through the browser, batches, the limit on open applications, caps per employer
and amount, artifact storage, and the erasure of the events.

### ExecutionHolds

Operations that are paid in credits, executed by a worker or inline, and operations
paid in units, on one budget. `bill` and `spent` are what the provider and the own
processing really charge; no action of the program reads them except as usage in an
answer or in the evidence of a reconciliation.

| code | actions |
|---|---|
| `maybe_create_paid_run`, `admit`, `assert_headroom` | `Create` |
| `execute` (`synchronous.py`) | `StartInline`, and the actions of a call |
| `cancel_run`, `_settle_exhausted`, account erasure | `Cancel`, `SettleExhausted`, `Erase`, `EraseLegacy` |
| `process_analysis_run` of a paid run, `analysis_budget` | `ClaimRun`, `ReadRun`, `CancelClaimed`, `Enter`, `Finish`, `CommitResult`, `RefuseResult`, `RecordError` |
| `claim_attempt`, the request, `finish_attempt` | `ClaimAttempt`, `Send`, `FinishAttempt` |
| `persistent_run_budget`: `before`, `after` | `ClaimRequest`, `Send`, `FinishRequest` |
| `reconciliation.apply` | `Reconcile` |
| the database, process death, twenty minutes | `FailCallback`, `FailCommit`, `Crash`, `BecomesStale` |

`settle_delivery`, `refresh_hold` and `_hold_amount` run inside these and are the
operators `Decide`, `Refreshed` and `HoldAmount`. Money is one currency: the quoted
price of a request and its adverse exchange rate are one number, `Quote`. A commit that
fails may have gone through (`FailCommit`), which also covers a transaction that the
database aborts in a deadlock. Left out: what may refuse anything (route, canary,
token counts, the preflight), rolling windows and the separate ceilings of accounts,
routes and incidents, services and free operations on the same budget.

### Mail

Messages to candidates: the row of a message in `notification_outbox`, and its
envelope in the mail ledger, which outlives the row. An envelope pays for `Attempts`
attempts in the budget of the day on which it was made. `requests` and `accepted` are
the provider's side: how often a message was sent to it and how often it took one.

| code | actions |
|---|---|
| `enqueue_notification`; `enqueue` of `password_reset.py` and `privacy_erasure.py`; `enqueue_changed` | `EnqueueLifecycle`; `EnqueueProof`; `EnqueueChanged` |
| `deliver_pending_notifications`, `deliver` | `Sweep`, `Claim`, `Write` |
| `guarded_send` | `Begin`, `FailBegin`, `Send`, `Record`, `FailRecord`; without a key of the provider `Unconfigured` |
| `run_maintenance`, `erase_account_sql` | `Purge`, `Erase` |
| process death, expiry, the day | `Crash`, `Expire`, `NextDay` |

`reserve_messages` runs inside the actions that queue and in `Begin` and is the
operators `Affordable` and `Reserve`; `_attempt` is `Current` and `Attempt`,
`_send_failure` is `Written`. A call that sends a request learns what the provider did
or that it cannot know (`Learned`). A security message may have lost its purpose by the
time it is claimed; tokens and owners are left to the environment. Privacy messages
have statuses of their own, which mean the same. Left out: schedules and the pause before
a retry (what is pending may be claimed at any time), the budget of the month (a longer
day), batch limits, reminders (lifecycle messages) and the text of messages.

## What is checked

| run | instance | result |
|---|---|---|
| `dispatch_analysis` | 1 analysis row, 2 publishers, 2 workers, 1 attempt before exhaustion, 2 faults | no open work behind a retired row, retired is final, one physical task, failures bounded and shown as such |
| `dispatch_search` | 1 bounded search, 1 publisher, 2 workers, 1 attempt, 1 turn, 1 fault, under fairness | implements `Intent`, every enqueued row is retired, with continuations and cancellation |
| `runs_delivery` | 1 run, 1 synchronous operation, 2 calls, 3 tries, 3 deliveries, 2 faults, under fairness | balance, outcome and units, cancel, implements `Intent`, every queued run ends |
| `credit_ledger` | a purchase of two credits, a campaign of one, operations for two and for one, clock 0..2, lag 1 | the ledger reconciles, origins are conserved, debt is explained, comes last and is paid first, soonest expiry first, only live lots |
| `payments_order` | 1 bundle, 2 payments that are alike, 1 refund of one half, a browser, a reconciliation, a deletion | credits follow the money, refunds booked once, refunds stay |
| `payments_premium` | 1 Premium order, 1 payment, 1 full refund, a browser, an end of Premium, a deletion, under fairness | Premium is exactly an active entitlement, who paid is served or listed, every refund is booked |
| `uploads` | 1 upload, 2 scans, 2 cleanups, 2 claims, 2 faults, under fairness | a saved source is kept, retired promptly, implements `Vault` (closed stays closed), erased in the end |
| `applications` | 2 applications, 2 openings, 2 workers, 2 credits, limits of 1, 2 deliveries, 2 faults | one application per opening, paid exactly when received, credits and slot held together, limits respected, queued work attended |
| `holds` | 1 queued run of two requests, 1 inline run and 1 operation in units of one, 2 calls, 1 fault, under fairness | real cost within the budget, settled is exact, one request in doubt, outcome and delivery agree, every delivery is decided |
| `mail` | a lifecycle message, a reset and its notice, 1 call, 2 attempts, 4 units a day, 2 days, 1 fault, under fairness | nobody gets a message twice and rows say what happened, requests within the budget, what is paid for is decided |
| `payments_access_after_refund` | 1 bundle, 1 full refund, a browser | violation: see Findings |
| `payments_taken_twice` | 1 bundle, 2 refunds of one half, a reconciliation | violation: see Findings |

Every property of a passing run comes with a slip: a variant of one definition
(kept next to it, marked as a slip in a comment) of the kind a programmer could
make, under which TLC finds the property violated in the same instance.
The runs check no type invariants: those of `Dispatch`, `AnalysisRuns`, `CreditLedger`,
`ResumeUploads`, `Applications`, `ExecutionHolds` and `Mail` are proved, and so are, for
`Payments`, the types of the books (`BooksTrue`).

**Bounds.** `MaxFaults` counts what the environment may do against the program:
crashes, ambiguous or dropped tasks, leases that lapse under a living holder.
Rows do not interact except through a publisher's batch and the owner's balance,
so one row with two publishers and two workers shows the races of `Dispatch`,
and `runs_delivery` adds a synchronous operation that competes for units the
balance does not have. Two workers plus a crash or a lapse are enough for a holder,
a late holder and a newcomer, because an idle slot starts again. The source's six
executions are one to four here: what matters is reaching the last one together
with a refund. Three tries are the source's own number. In the ledger, two lots,
two reservations and one restoration each reach partial refunds before and after
use, expiry and settlement. In `Payments` a price of two and three credits per
order make the half refund round, and two payments give a failed attempt beside a
successful one; `payments_order`, which checks no liveness, takes the two for alike
(`SYMMETRY`). The passing runs of `Payments` leave out what is known to break
them: a full refund of a bundle beside a browser or a reconciliation (first
finding below) and two refunds under one reconciliation (second finding); the same
write of a browser hides a paid order of a deleted owner from support's list, which
`PaidIsFulfilled` excuses by name (`HiddenByBrowser`). `PremiumIsBacked` speaks of
the time before an end of Premium is asked for, and the run goes on past it for the
other two properties. One order is enough for these: two orders meet only in
`create_order`, and what that promises, `OnePayableOrder`, is proved for any number of
orders. In `uploads` two claims of the source's three reach the last
one both fresh and by a lapsed lease. In `applications` a limit of one makes every
second request meet it, and two openings let two applications compete for one or not.
In `holds` the
ceiling holds two of the three operations, so each admission depends on what another
gave back; a request is charged less or more than its quote or not at all, and the
second request shows what an unknown first one allows. One fault is enough for a crash
with a takeover, since a run without a worker grows old without one; the invariants
also hold with two (2.7 million states). In `mail` the day pays for two of the
three envelopes, so what is queued second depends on what was first. One call is enough
for `mail`: `MailCallsApart` shows for any number of calls that they never meet on a
message; the invariants also hold with two calls (three million states). The instance
has no privacy message, whose few guards of its own the proofs cover, and every message it
queues has its units, so that `Begin` defers none for lack of them there; the proofs cover
that as well. `MaxTurns`, `Horizon` and `Lag` cut counters
and the clock only. Deadlock is checked
in `CreditLedger` only, where an expiry sweep is always possible: elsewhere a system
whose rows are retired, whose orders are settled and whose faults are used up rests.

**Fairness.** In `Dispatch`: weak fairness of every started call (Python code
goes on unless the process dies, which is a separate unfair action), of the
passing of time, and of the sweep (Cloud Scheduler calls it periodically);
strong fairness of the claim of a row, because Cloud Tasks keeps retrying a task
it has while worker slots come and go. `MaxFaults` bounds the faults of a
behaviour: after the last one the environment behaves, which is the usual
assumption of a recovery claim. In `AnalysisRuns`: weak fairness of started
calls, lapsing leases and ageing runs; strong fairness of delivery, which is
what `EventuallyRetired` of `Dispatch` provides. In `Payments`: weak fairness of
each capture event and of each step of a refund event, because the provider repeats an
event until it is answered with success, and of the last transaction of an end of Premium.
In `ResumeUploads`: weak fairness of started calls, of time and of the sweep; strong
fairness of claiming due cleanup work by some call, because the coordinator is run
periodically. In `ExecutionHolds`:
as in `AnalysisRuns`. In `Mail`: weak fairness of started calls and of the sweep, strong
fairness of claiming some message, because the scheduler calls the maintenance job, which
sweeps and delivers, provided that delivery is configured. `Applications` claims no
liveness. Crashes, cancellation, erasure, new requests and
everything a customer does are never fair.

## Findings

1. *A late capture grants after a full refund* (`payments_access_after_refund`).
   `record_checkout_result` reads the order without a lock and overwrites what a
   webhook has committed in between. On an order that was refunded before its
   capture event arrived, the capture then grants.
2. *Reconciliation takes credits twice* (`payments_taken_twice`). With two refunds
   in one proof, the second does not see what the first took, because the session
   has not flushed it.

The models contain further behaviours that differ from what the repository says
of itself or may surprise; no run is spent on them.

- ADR 003 (analysis, `docs/adr/003-durable-analysis.md:18`) says "A duplicate delivery
  returns the existing terminal state." The cancel branch of `process_analysis_run`
  (`analysis/tasks.py:133`) locks the run but does not look at its state again before
  it writes: a call that read the request to cancel and stalled turns a run that was
  settled as `failed` meanwhile into `cancelled` (`CancelClaimed` of `AnalysisRuns`).
  Units stay right.
- ADR 003 (dispatch) keeps exhausted work in the failed table. Exhausting a
  bounded search cancels it, and `cancel_bounded_search` completes the dispatch row
  itself, so the fenced update to `failed` matches nothing: the row is `completed`.
  The second conjunct of `BoundedFailures` therefore leaves searches out.
- `billable_operation` (`services/guardrails.py:38`) calls itself failure-safe. Its
  reservation is committed first and released only by the same process, so a crash
  inside the operation (no step of a synchronous run is fair, and no other action
  ends one) keeps the units reserved. `EveryRunEnds` is about queued runs.
- `docs/PAYMENTS_ARCHITECTURE.md:80` leaves `paid` only for `refunded`. The unlocked
  write of finding 1 takes a paid order back to `client_confirmed` until it is
  reconciled.
- "Refund is terminal" (`billing/service.py:251`), but a refund event without a payment
  that read its transaction before it was captured or refunded (`billing/service.py:686`)
  writes it as `captured` when a reconciliation has booked the same refund meanwhile: the
  refund is found, and nothing sets the status again. Only what is shown of the transaction
  is wrong, the order, its refunds and access are not. `RefundStays` excuses it by name
  (`StaleRefund`); without the exception TLC finds it in the instance of `payments_order`.
- Ending Premium (`_end_premium_access`) while a capture is being fulfilled can
  leave an active entitlement and an owner without access: this is the condition
  in `PremiumIsBacked`.
- A late checkout result (`routers/billing.py:370`) overwrites `paid_unfulfilled` of
  an erased owner with `client_confirmed`, and a later failure of another payment may
  make that `payment_failed`: the order is no longer on support's list.
- An application can stay `submitting` for good. A worker whose lease lapsed in its
  preflight launches after another has begun, and dies after the POST; the other finds
  `submitting` at its second transaction, returns (`employer/tasks.py:279`), and the
  event is closed. `docs/delivery/JOB_SEARCH_AND_APPLICATION.md:438` and the design
  document expect `unknown`. Slot, claim and credits stay held until somebody acts,
  nothing is sent twice: this is why `QueuedIsAttended` speaks of `queued` only.
- Cancelling a failed application whose admission a reconciliation has released makes
  the admission `consumed` again (`employer/service.py:1110`), so it counts in its window;
  `SlotsWithinLimit` leaves out what was verified as not submitted.
- The hold of an erased account whose delivery was still pending is never settled:
  `settle_delivery` needs the owner and `reconciliation._terminal` a decided delivery. The
  same holds for a run cancelled while queued, which has no native expense to reconcile,
  and for an inline run whose process dies (`credits/synchronous.py:337`): nothing takes
  it over. In each case the reserve stays in the budget, which errs on the safe side;
  `EveryDeliveryDecided` is about queued runs and leaves erasure out.
- A reset and the notice that follows it share one reservation and its expiry
  (`password_reset.py:35`). A link used in its last minutes leaves the notice hardly any time: it is then written off as `failed`
  without an attempt.
- An envelope made by a process whose clock is ahead is refused by the others
  (`mail_budget.py:151`), and their rows become unknown without a request (`FailBegin`).

## What is proved

`DispatchProofs`, `AnalysisRunsProofs`, `CreditLedgerProofs`, `ResumeUploadsProofs`,
`ApplicationsProofs`, `ExecutionHoldsProofs`, `PaymentsProofs` and `MailProofs` hold for
all values of the constants that satisfy `ConstantsOK`, without any of the bounds above
(they appear as guards only); one theorem, `PaymentsCreditsFollowMoney`, has hypotheses
of its own, which leave out where Findings 1 and 2 strike. What is counted or summed is
assumed to be finite: the sources and reservations of `CreditLedger`, the calls and runs
of `AnalysisRuns`, the applications, the operations of `ExecutionHolds`, the messages of
`Mail`, the orders and refunds of `Payments`.

*Dispatch.* The inductive invariant `IInv` has three parts: rows and the work
behind them (`RowInv`), calls in progress (`CallInv`), the rest. What makes
`TerminalWorkClosed` inductive is `ReportedWorkClosed`: a worker about to record
"done" or "exhausted" has seen its work end, and ended work never reopens.
`RunningCharged` is why giving an attempt back never goes below zero. There is
one lemma per action. `TypeCorrect`, `RetiredWorkEnded`, `RetiredIsFinal` and
`LeaseFenced` follow; the last two are action properties, and the last is proved only,
no run checks it. `DispatchImplementsIntent` maps every step to one of `Intent` or to a
stutter (`IntentStep`), and `ClosedRowsEnded` reads from `Intent`'s steps alone that a
row that was retired or deleted has no work left. `OneTaskPerRow` needs `Names`: as long
as no worker has claimed an event and its row is not old, row, publishers and tasks agree
on one name, since a name is made up only when nothing has one. `FailuresBounded` needs
`Bounds`: failures, and the calls that may still fail or give an attempt back, are
covered by attempts (`Covered`), and beyond the limit nobody runs the handler any more,
so nothing gives attempts back or reports work as done (`BeyondLimit`).

*AnalysisRuns.* `IInv` adds to the types what each call knows of its run
(`CallsRight`), that runs and their events stay in step (`RowsRight`), that units
follow the end of a run (`UsagesRight`), and `TriesCounted`: returns to the queue and
calls in flight together never exceed the tries used. The last is why `requeues` is
bounded although a stale call may record its failure after others have tried, and it
needs a call to leave the set of calls in flight in the step that queues the run again.
`Outcomes` reduces the six ways of recording an outcome to four effects on a row;
`RowMoves` says how any step may change a row. From `IInv` follow the types
(units never below zero, fewer than `MaxTries` returns to the queue),
`OutcomeMatchesUsage`, `CancelWins` and, step by step against `Intent`, the refinement
`ImplementsIntent`: what the worker retires has ended, for any number of calls.
`RunsExplainBalance` adds an invariant about the journal. `JournalRight`: the
journal has a reservation or a release of a run exactly if the run's usage says so. A
step changes the usage of one run at most, and with it the journal by one entry
(`Effect`), so each sum changes by the price of that run or not at all; nothing is
reserved or released twice, because the entry would be there before its usage. A deleted
owner has no balance to explain.

*CreditLedger.* `IInv` adds to the types that a restored lot belongs to a settled
reservation (so restoring never meets an existing name) and `FundedByLiveLots`.
Each operation is shown to be a `LotsStep`: old lots only drain, new lots are
fresh. `LedgerTypeCorrect`, `LedgerFundedByLive`, `LedgerOnlyDrains` and
`LedgerOutcomeFinal` follow, and from what the greedy loop leaves behind
`LedgerSoonestFirst`. The books need a second invariant, `Books`: the journal, the debt
and every origin add up. `Moves` says in one form what an operation does to the lots:
each old lot gives a number of credits (a sweep expires them, a reservation or a refund
takes them), new lots bring theirs; lemmas about sums then give what all lots, the
lots of an origin and the holds on them come to. Each operation is shown to take from
the lots what it writes to the journal and to the rows of its reservation or refund.
`LedgerAlwaysReconciles`, `LedgerConserves` and `LedgerExplainsDebt` follow.
`LedgerDebtComesLast` is about steps: it needs what the greedy loop leaves
behind when it cannot take all, and that a new lot keeps nothing while debt is left.

*ResumeUploads.* `IInv` has six parts. `CleanersRight` is the heart: what a cleanup
at work may retire is already over for good, which holds because a row that ended or
expired never comes back (`RowMoves`, an action lemma over all of `Next`). `CopyRight`
and `ClosedRight` say where the two objects stand, `WorkRight` that the cleanup row of
an ended upload waits a day only once its work is done, `NotSavedBefore` that an
upload is saved once. From them follow the types, the three invariants of the run and,
step by step against `Vault`, the refinement `ImplementsVault`.

*Applications.* All five properties of the run are theorems. `IInv` says what the rows
of one application and the employer's side imply of each other (`AppRight`), what a
worker knows of its application between two transactions (`WorkerRight`), and that
one worker at most has the permit to send it (`SenderAlone`): the permit is given for a
queued application only, which is never in doubt, and an application in doubt is
never queued again. `OpeningsApart` is why two applications for one opening never
both arrive: what claims the opening, was received or is still on its way is one
application. It survives the return of a claim because an application only gives its
claim up when nothing was received and no worker is sending. `CreditsCounted` and
`SlotsWithinLimit` are inductive with the rest: every step but a request leaves each
application counting for no more than before (`Eased`), and a request has counted.

*ExecutionHolds.* `IInv` is `RowsRight` (a run and its hold agree on the outcome, one
attempt at most is open, only claimed requests have a bill) and `CallsRight` (a call
has a request exactly from its claim to its callback; one call at most executes an
operation, and none while its hold still waits). The last is what makes takeovers
safe: `RowsMove` says that no step puts a hold back to wait, so a run taken over from a
dead or slow worker is never executed a second time. `RunMoves` reduces every change of a run,
its hold and its attempts to one condition on the new rows, and `CallMoves` every
step of a call to whether it starts an execution; the lemma of an action then only shows
that it satisfies them. `HoldsTypeCorrect`, `HoldsOutcomeMatchesDelivery` and
`HoldsOneInDoubt` follow. Money takes a second invariant, `Books`. `Account` says of a run
paid in credits that every final attempt cost what the provider charged, that the own
processing cost what is noted of it, and that a settled hold is the sum of both and within
its reserve, with nothing left that can still be charged. `LegacyAccount` says that the
totals of an operation in units are what its attempts hold and what they paid.
`SendingRight` says that a call at the provider has a started attempt that no other call
has, so an answer finds its request as it left it. The amount of a hold is no measure
for the ceiling, since it may rise above the quotes when a late answer is dear; `Pledged`,
what may have to be paid within the quotes, only shrinks once an operation was admitted
or a request claimed, and the budget that admission looks at covers it (`BudgetCovers`).
From `HoldsBooks` follow `HoldsSettledIsExact` and `HoldsRealCostWithinBudget`: what is
really paid exceeds the ceiling at most by what providers charge beyond their quotes. The
first needs quotes above zero, as `model_cost_policy.py` has it (rates are positive, an
estimate has at least 128 tokens, prices are rounded up): with free requests totals could
be at zero while a request is still out.

*Payments.* `PaymentsOnePayableOrder`: an owner never has two orders for credits that
can both be paid. `LiveBlocks` is why: as long as there is an owner, an order that the
provider may have got and nobody has paid keeps a status that refuses the next one,
whatever the unlocked writes of browsers make of it. `EventsTrue` and `CallsTrue` say
that captures and what a reconciliation has read name paid orders only, so what these
do to the books never matters there.

`BInv` adds the books: `RefundsTrue`, that events and what a reconciliation has read name
refunds the provider has made, within the price; `BooksTrue`, the types of the rows and
that what is booked are such refunds and comes to `refunded`; and `PremiumIsBacked`, which
is inductive with them. A transaction that may be committed is `Sound`: its row and its
user are right for the order as it is locked. Each helper of `billing/service.py` keeps
that (`KnownSound`, `GrantedSound`, `RevokedSound`, `RefundedSound` and so on), those that
ask for the entitlement only if their queries find the one there is (`Seeing`), for which
the flush in `_process_refund` is needed (`FlushSound`). The total stays within the price,
so a transaction refunded in whole meets no further refund; this keeps it refunded.
Reconciliation applies many refunds in one transaction: `AllRefunded` is a recursive
function over sets. `SomeApplication` shows that it exists, `EverySubset` is an induction
over sets of refunds (from `EveryNumber`, which uses the well-foundedness of <), and
`AllRefundedDoes` unfolds one refund of it; `AllRefundedSound` follows.
`PaymentsRefundsBookedOnce`, `PaymentsPremiumIsBacked` and `PaymentsRefundStays` follow.
A refund event with a stale transaction is compared with one that would read it now: the
two transactions are twins (`Twin`), the same but for the status of payments, and every
helper keeps them so (`TwinStep` and the lemmas on it). In the end they differ in one
status at most, which is left as it is or captured again (`HintedDoes`); that is the
exception of `RefundStays`, and why it does not reach the refunds, the entitlement or the
user.

`PaymentsCreditsRecorded` is about the credits, and holds also where the findings strike:
the owner has `Quantity` for each order for credits that was ever granted, less what was
taken back of it (`Recorded`). An order has a `Worth`, the one less the other, and each
helper changes the credits of the user by as much as it changes the worth of its order
(`Cashed`); a transaction adds to what is committed, a sum of which one term changes
(`SumOfChange`). `CInv` adds to this that a call to end Premium only ever works on orders
for Premium (`LocksTrue`).

`PaymentsCreditsFollowMoney` ties that to the money: what was taken back of an order is
the share of its refunds (`Exact`), where a transaction starts from what is committed
(`Begun`), so that each refund takes the share it adds; a refund event that has found its
transaction belongs to an order that is known by its own id (`HintsBound`); `ShareIs` has the rounding, which
never takes more than was granted. The delicate case is an order that is refunded before
it is granted, for only its status then keeps a late capture from granting. This is why
the theorem has two hypotheses, and they answer the two findings. `StatusKept`: either only
webhooks touch the orders once created, or refunds never come to the whole price, so no
stale status is written over that of an order refunded in full (by a browser, or by
a reconciliation). `OneAtATime`: without reconciliation, or with one refund per order, a
proof never holds two. The constants of `payments_order` satisfy both, and
those of each violation run violate one.

*Mail.* `Known` says what a call knows of its message in each phase, `Says` what a row
says of it, `Alone` that calls do not share messages. Together they carry `RowTellsTruth`:
an attempt is only begun when no earlier one is begun or ended (`FreeBut`), so what a
crash leaves behind is never sent again, and a message without a row either never had an
attempt that counts (`Fresh`) or has an envelope that has expired, as rows are only
deleted after that, and an expired envelope refuses to be queued again. A row once claimed is pending again only by the call
that holds it, also when the sweep took it for lost; this gives `MailCallsApart`.
`MailRequestsFunded` counts: `RequestsCovered` says that each request to the provider was
an attempt begun on the message's envelope, also if the call crashed or its answer was
lost, and an envelope begins at most `Attempts`; `DaysWithin` says that the envelopes of
a day stay within its budget, since an envelope outlives its row and none is made
again for another day while the first one stands.

## What is only model-checked

Liveness, since fairness and ENABLED are out of the prover's reach: `EventuallyRetired`,
`EveryRunEnds`, `PaidIsFulfilled`, `RefundsArrive`, `EventuallyErased`,
`EveryDeliveryDecided` and `EveryMessageDecided`. Every invariant and every action property
of a passing run has a theorem; `CreditsFollowMoney` has it where neither finding can
bite (Findings 1 and 2 violate it elsewhere).

## What is not modelled, and the plan

Not modelled by choice: text, layout, parsing and matching (data without
control), user interface, companion, infrastructure, migrations and offline
quality tooling. Planned, in this order:

1. `Payments`: several SKUs, orders for the credit pass, and an abstract promise of
   access that it implements where the findings allow.
2. `ExecutionHolds`: the separate ceilings, services and free operations on the
   budget, and its composition with `CreditLedger`.
3. `HostPacing`, and `BoundedSearch`, the stages behind a continuation.
4. `LockOrder`: row and advisory locks of cancellation, exhaustion and the commit
   of a paid result, for deadlock.
5. Replay window of the candidate ingress, free core, browser pairing and the
   recovery journals.
