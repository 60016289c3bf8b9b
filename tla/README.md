# Recurso: a TLA+ development of the billing core

Recurso is an open-source billing engine: a Go program over PostgreSQL that
issues invoices for subscriptions, collects them through payment gateways and
keeps a double-entry ledger of all of it. This directory models the part in
which money can go wrong without a test noticing: a subscription that is
renewed, paused and canceled; the wallet and the credit its invoices draw on; an
invoice that is settled, returned by the bank, dunned, charged again, written off
and paid after all; the revenue recognized from it, and the refunds of it. All of
that is done by handlers and loops that run concurrently on several instances of
the program, any of which may die between two statements.

Paths below are relative to `src/internal/` unless they say otherwise.

## 1. Inventory

### How the system is put together

HTTP handlers (`adapter/handler`), schedulers (`scheduler`) and workers
(`adapter/worker`) call services (`service`), which call repositories
(`adapter/db`) and gateways (`adapter/gateway`). There is no state in memory
that matters: PostgreSQL is what the actors share. There is hardly a
transaction around a service call either. A service runs one statement after
another, each committed on its own; what makes that safe, or not, is

- conditional UPDATEs (`MarkPaid ... WHERE status NOT IN ('paid','void')`),
- claims: `UPDATE ... WHERE id IN (SELECT ... FOR UPDATE SKIP LOCKED) RETURNING`
  that lease a row by pushing its date forward (ADR-003),
- unique indexes with `ON CONFLICT DO NOTHING`, above all
  `(reference_id, code, occurrence)` on the ledger,
- idempotency keys at the gateway, and the table of processed webhook events,
- reconciliation afterwards, because ledger postings are best-effort: a failed
  posting is logged and the business write stands (ADR-002).

The models take one such statement, or one gateway call, as one step.

### Components

| Component | State | Operations | Hard behaviour | What makes it correct |
|---|---|---|---|---|
| Invoice ledger (`service/ledger.go`, `adapter/db/ledger_repository.go`) | `ledger_transactions`: code, occurrence, amount, per invoice | issue, pay, reverse, write off, recover | the occurrence is counted, then posted; postings get lost | a booking and its inverse alternate and cancel |
| Settlement and return (`service/subscription_payment.go`, `offline_payment.go`, `handler/checkout.go`) | `invoices.status, amount_paid, tds_amount` | MarkInvoicePaid, ReverseSettledPayment, RecordOfflinePayment, success page | stale reads before a conditional update; duplicates; crash between claim and posting | row and ledger agree; a paid invoice is backed by money |
| Stripe webhooks (`handler/webhook_stripe.go`, `webhook.go`) | processed events, `payment_attempts.status` | one handler per event type | at-least-once, out of order, several events for one movement | every movement has its effect once, and in the end |
| Invoice row (`adapter/db/invoice_repository.go`) | `invoices` | conditional and unconditional transitions, two claims | whole-row writes by id over newer data | void and paid are final but for a return |
| Dunning scheduler, retry worker (`scheduler/dunning.go`, `adapter/worker/retry_worker.go`) | `next_retry_at, retry_count, dunning_managed_by, dunning_paused` | claim, hand off, charge, reschedule, give up | several instances, lapsing leases, lost answers | charged once; worked by one; ends |
| Collections actions (`service/collections_actions.go`) | the same columns | RetryNow, pause, write off | race with both loops | mandates are not retried |
| Reconciliation (`service/reconciliation.go`) | none, reads | Run | must see what best-effort postings lost | no drift unreported, no false alarm |
| Dunning campaigns (`service/dunning_campaign.go`) | executions, steps | trigger, process due steps, recover | third owner of the same row | an invoice always has one owner |
| GoCardless, Razorpay webhooks (`handler/webhook_gocardless.go`, `webhook_razorpay.go`) | processed events | batches of events | one of a batch fails | no event is lost |
| Renewal (`service/renewal.go`, `scheduler/billing_cycle.go`) | `subscriptions` period, `renewal_cycle_key` | claim, generate, charge | crash between invoice and period | one invoice per period |
| Invoice generation (`service/invoice.go`) | `invoices`, items, credit, wallet | generateInvoice | credit and wallet drawn before the insert | what is drawn is on the invoice |
| Wallets (`service/wallet.go`) | `wallets`, their transactions | top up, drain, expire, recharge | concurrent drains; recharge retried | never below zero; money in = money out + balance |
| Credit notes (`service/credit_note.go`) | `credit_notes` | create, approve, refund, apply, expire, void | refund at the gateway and its late answer | refunds within what was paid |
| Revenue recognition (`service/revrec.go`) | schedules, events | create, recognize, cancel | catch-up, cancellation, repeated cycles | recognized = scheduled, never twice |
| Mandates (`service/mandate.go`) | `mandates`, `mandate_cycle_key` | debit, notice, answer | captured later, no idempotency at Razorpay | one debit per cycle |
| Idempotency, locks (`adapter/middleware/idempotency.go`, `redis`, `memory`) | keys with expiry | reserve, complete, release | expiry during work; no-op without Redis | one execution per key |
| Outbound webhooks (`adapter/worker/webhook_worker.go`) | deliveries | claim, send, back off | several instances; receiver down | each is delivered or dead-lettered |
| E-invoicing workers | e-invoice columns | claim, submit, retry | as above | at most one IRN |
| Subscription changes, quotes, gifts, disputes | their own rows | upgrade, convert, redeem, ... | mid-period changes | proration adds up |
| Gateways, metering, exports, identity, reports | external, or read-only | | | not part of the core |

`PROJECT.json` lists each with its files and its status. Modelled in full are
settlement, the dunning loops, renewal, wallets, credit notes and refunds, and
revenue recognition; the ledger, the Stripe webhooks, the invoice row, the
collections actions, reconciliation and invoice generation are modelled as far as
these need them.

### How they interact

A due subscription is claimed by the billing-cycle scheduler, which raises the invoice of
the period that ended and advances the period. Generating the invoice posts its issuance
legs, drains the wallet and applies account credit. What is left is charged by the renewal
or the checkout, and settled by a webhook, the success page, the offline desk or the retry
worker, all through `MarkInvoicePaid`. An overdue invoice is claimed by the dunning
scheduler, which hands it to the retry worker by writing `dunning_managed_by = 'worker'`;
the worker charges the saved method and settles or, after its last attempt, writes off,
which posts to the ledger and cancels the subscription. A bank return comes in as a webhook
and reopens the invoice, which is then overdue again. A settled invoice gets a recognition
schedule, which a worker works off month by month, and which a cancellation, a refund, a
downgrade or a write-off unwinds. A refund is a credit note, a call to the gateway and, days
later, an event.

Each of these is a state machine of its own, in the detail its hazards need, and
takes what its neighbours do as one step. `InvoiceSettlement` and `Collections` meet
in the invoice row (`MarkUncollectible` there; `MarkInvoicePaid`, `DebitReturned`
and `PostWriteOff` here). `Renewal` ends where its invoice is handed to them, and
`StoredValue` where it leaves the invoice open. `Recognition` takes settlement,
return and write-off as `Settle`, `Return` and `WriteOff`; `Refunds` takes the
invoice as paid, and its `ACHReturned` is where `InvoiceSettlement` goes on with
`ReadToReverse`.

## 2. Modules

| Module | What it is |
|---|---|
| `Journal` | operators: the journal of one invoice, the legs each `LedgerService` call computes from it, the insert that deduplicates, the reconciler's checks |
| `BookingCycle` | abstract specification: a booking and its inverse alternate, amount for amount |
| `InvoiceSettlement` | state machine over `Journal`: concurrent handlers that settle, reverse, write off and recover |
| `Collections` | state machine: scheduler, worker, customer, bank and operator on one overdue invoice |
| `Renewal` | state machine: loops and API requests that load, work on and write back one subscription |
| `StoredValue` | state machine: a wallet, account credit, and the invoices that draw on both |
| `Recognition` | state machine: schedule and events of one invoice, the worker, and the unwinds that race it |
| `Refunds` | state machine: refund notes of one invoice, their approval, the gateway and its events |
| `MC...` | small instances and symmetry for TLC, one for each state machine |
| `FunctionSums` | lemmas about sums over finite sets, for the proofs about credit, invoices, refunds and recognition |
| `..._proofs` | the theorems of the module so named |

### Journal

A leg of one invoice is determined by its code and its occurrence, so a journal
is a function from codes to functions from occurrences to amounts. `Post` is the
insert with `ON CONFLICT DO NOTHING`: a taken key keeps its amount. `PaymentOccurrence`,
`CashLegs`, `TdsLegs`, `ReversalLegs`, `WriteOffLegs` and `RecoveryLegs` are what
the `Record...` functions compute from the counts they read; `IssuedJournal` is
what invoice generation leaves. `Balance` and the `...Mismatch` operators are the
trial balance and the reconciler's queries. The queries are of one invoice. The sign check
(`AbnormalSign`) is of an account, the customer's receivable or the tenant's cash, so it adds
what other invoices have there: any pair of `OtherBalances`.

The constants are one invoice's amounts. `Recognized` is what revenue
recognition has already taken of the pre-tax amount: nothing (a fresh
subscription invoice), all of it (a one-off), or a part. It does not move while
the invoice is worked on; the recognition component will let it.

### InvoiceSettlement

| Action | Code |
|---|---|
| `Deliver` with `PaymentSucceeded`, `ACHReturned` | `HandleStripe`: the processed-event check, then the handler |
| `Poll` | `CheckoutSuccess` |
| `ReadToSettle`, `MarkPaid`, `PlanRecovery`, `PlanPayment`, `PostNext` | `MarkInvoicePaid`, its UPDATE, and its two ledger calls |
| `ReadToReverse`, `LookUpCash`, `ReverseToUnpaid`, `PlanReversal`, `PostNext` | `ReverseSettledPayment` |
| `MarkUncollectible`, `PlanWriteOff`, `PostNext` | the operator's write-off |
| `RecordOffline`, `RecordTds`, then settle | `RecordOfflinePayment` (the virtual-account path enters it with no deduction) |
| `VoidIfOpen` | a gift cancelled before it was paid |
| `Finish` | `settleAttempt`, `markProcessed`, the 200 |
| `LedgerFails` | a posting fails: logged, carried on |
| `Crash` | the process dies, or a statement whose error is returned fails; no acknowledgement |

`thread[t]` is a request in flight: the statement it is at, the event or request
it serves, the row it loaded (`seen`), and the batches of legs it still has to
post (`todo`; a batch is one database transaction). The gap between `Plan...`
and `PostNext` is the gap between counting an occurrence and using it.

### Collections

| Action | Code |
|---|---|
| `ClaimOverdueForDunning`, `ClaimDueForRetry` | the two claims; `Claim` is the lease |
| `CheckInFlight`, `MarkAsUncollectible`, `HandOff` | `DunningScheduler.processInvoice` |
| `ChargeInvoice`, `Reschedule`, `Settle`, `Reload`, `ClearDunning`, `RetryFailed`, `GiveUp` | `RetryWorker.processInvoice` and `writeOff` |
| `PostWriteOff`, `CancelForNonPayment` | the end of a write-off by either loop |
| `Update` | the repository's Update: every column of the struct it was given, except the pause |
| `ChargeUnanswered` | the transport fails: an infrastructure error, the attempt is repeated under its key |
| `ApiError` | Stripe answers with an API error: a failed attempt, whatever became of the charge |
| `SettleFails`, `LedgerFails`, `LookupFails`, `Crash` | the other error branches |
| `CustomerPays`, `DebitBegins/Clears/Fails/Returned`, `RequeueForRetry`, `SetDunningPaused`, `WriteOffByHand`, `VoidIfOpen` | the other actors |
| `Elapse` | the clock passes `next_retry_at` |

A date is NULL, past or in the future; that is all any WHERE clause asks. The gateway keeps,
for each idempotency key, what it did: `captured` and `declined`; `unclear` are the keys
whose answer was an API error (history). `mandate` says how the invoice pays: it is chosen
from `Mandates` at the start and never changes. Stripe remembers a key for a day; a worker
repeats an unanswered attempt after five or ten minutes, so the model remembers it for good.

### Renewal

| Action | Code |
|---|---|
| `ClaimDueForRenewal` | the billing-cycle scheduler's claim; a row that ends is finished, the others are renewed |
| `GenerateRenewalInvoice`, `CreateRenewalInvoice` | the reuse of the invoice its period already has, and the insert under `renewal_cycle_key` |
| `ClaimRating`, `LoseRating` | the claim of the window's usage, after the invoice is committed |
| `AdvancePeriod` | `RenewSubscription`'s Update |
| `FindFinalUsage`, `CreateFinalInvoice`, `CancelAtPeriodEnd` | `GenerateFinalUsageInvoice` and the end of the subscription |
| `GetExpiredTrials`, `ConvertTrialToActive` | the trial scheduler and its transaction |
| `Call`, `Write`, `ScheduleResume`, `ClearResume` | pause, resume, cancel, reactivate, extend: the load, the Update, and a pause's second statement |
| `CreateAdvanceInvoice`, `ExtendPrepaid` | `GenerateAdvanceInvoice` |
| `ClaimDueForResume`, `ResumeClaimed` | the daily loop that resumes |
| `Tick`, `RenewalLeaseLapses`, `ResumeDatePasses` | the clock |
| `Fail` | the process dies, or a statement whose error is returned fails |

`actor[a].seen` is the row an actor loaded. It is what `Update` writes back, all of
it: nothing guards it against what was written since. The clock is counted in
ticks of which a period has `Interval`. `granted` counts the ticks of service that
nobody was charged for by design (a trial, an extension, a resume that starts a
fresh period); it is history. `usageBills` says which actor put which window of
usage on an invoice. The clock stops at `MaxNow`.

### StoredValue

| Action | Code |
|---|---|
| `CreateInvoice`, `RecordInvoiceLeg`, `LookUpWallet`, `Drain`, `PersistDrain`, `ApplyAdjustmentCredits` | `generateInvoice`, from the insert on |
| `TopUp`, `AddTopUp`, `Lapse`, `ExpireOverdue`, `CloseWallet`, `Close` | `WalletService` |
| `ListDueForRecharge`, `ChargeSavedPaymentMethod`, `CreditRecharge` | the recharge sweep |
| `ChargeUnanswered`, `ForgetKey` | the gateway: a lost answer, a key a day old |
| `CreateNote`, `Load`, `Approve`, `Reject`, `VoidAdjustmentCredit`, `FallDue`, `ClaimExpiredCredit` | adjustment notes in `CreditNoteService` |
| `Post`, `LosePosting` | the posting that follows a movement, made or failed and logged |
| `StatementFails`, `Crash` | the error branches |

`residue` is what remains of the top-ups, by kind: the code keeps it per
transaction row, and only its sum per kind decides what a drain, an expiry or a
close does. Each movement is one transaction on the locked wallet or notes; the
posting that belongs to it waits in the actor's `todo`.

### Recognition

| Action | Code |
|---|---|
| `Requeue`, `ClaimDueEvents` | the two statements of `ClaimDueEvents` |
| `RecordRecognition`, `RecognitionFails`, `MarkEventRecognized`, `MarkEventFailed` | `ProcessDueEvents`, event by event |
| `Issue`, `Settle`, `Return`, `RecordWriteOffRecovery` | what the invoice's life does to deferral and schedule |
| `CheckSchedule`, `ConsumeScheduleDebt`, `CreateSchedule`, `CreateEvents` | `CreateScheduleForInvoice` |
| `Cancel`, `Refund`, `Downgrade`, `WriteOff` | the requests that unwind |
| `ReadRecognized`, `RecordInvoiceWriteOff` | the ledger half of a write-off |
| `FindSchedules`, `ListPending`, `RemoveEvent`, `CloseSchedule`, `PostUnwind` | the unwind of each schedule |
| `ListRecognized`, `ReverseRecognized`, `AddScheduleDebt`, `RecordDowngradeCredit` | a downgrade's credit beyond what was pending |
| `NextMonth` | the next event becomes due |
| `Crash` | the process dies, or a statement fails |

Only Deferred Revenue is kept as a balance; the other side of each leg depends on
its code alone. A sibling row that a partial claw-back splits off is the event's
`clawed`. `Lives` says which of the operations a behaviour may meet: each run of the
machine picks one of its members, so that operations that never meet in one
invoice do not multiply the states.

### Refunds

| Action | Code |
|---|---|
| `CreateRefund`, `RequestRefund` | `Create` and `createRefund` with `CreateRefundWithinLimit`, for somebody who may issue a refund and for somebody who may not |
| `ReadPending`, `Approve`, `Reject`, `MarkManual`, `RevertApproval` | `Approve`, `Reject` |
| `GatewayDeclines`, `GatewayRefunds` | the call, its answer, and an answer that got lost |
| `MarkRefundFailed`, `RecordOutcome`, `AllocateTax`, `RecordRefund`, `RefundPostFails`, `RecordRefundTaxReversal` | `createRefund` and `executeRefundGatewayAndLedger` after the call |
| `GatewaySettles` | the gateway, later: a refund under way is made, fails or comes back |
| `ReadEvent`, `AdvanceRefund` | `ProcessGatewayRefundEvent`, delivered any number of times |
| `ACHReturned` | `applyStripeRefund` takes the refund for a return by the bank |

The gateway answers with any of the statuses the repository names (`Answers`):
succeeded, pending, requires_action, and failed, which stands for canceled too. The code
records each but "pending" as processed (`service/credit_note.go:463` and `:1020`).

## 3. Runs

Twelve runs: eleven that pass, one that ends in a counterexample. The largest are
`dunning_charges` (3.1 million distinct states), `refunds` (2.8 million), `recognition`
(1.7 million) and `settle_faults` (a million); each finishes within minutes.

| Run | Question and bounds |
|---|---|
| `settle_returns` | No faults, two handlers, two payments, two events for each return, the success page. `Pace = "prompt"`: money moves again when every event of the last movement is handled. The row and the ledger agree, a paid invoice is backed by a payment, a return reverses once, and reconciliation reports nothing that is right. |
| `settle_faults` | `Pace = "any"`: deliveries as late as they like, one fault anywhere, one write-off racing. Bookings alternate with their inverses, both as an invariant and as a refinement of `BookingCycle`; reconciliation reports every paid invoice whose receivable is not zero, unless it is negative and the customer's other invoices owe as much. Those have 0, 3 or 5 (`OtherBalances`) against drifts of up to 4, so that a drift is hidden, or not. |
| `back_office` | A partly recognized invoice without a gateway: written off or voided by an operator, and paid by offline receipts in full, short by the tax deducted at source, or of that tax alone, before or after the write-off. Three recovery legs mirror three write-off legs, the deduction has a leg of its own, and the receivable is what the row owes. |
| `settle_liveness` | Captured money settles the invoice although two handlers crash, an operator writes it off and the success page is loaded early, late or again. |
| `dunning_charges` | Card and mandate invoices, two runners (either may be a scheduler or a worker), two faults of any kind (API errors of the gateway included), leases that lapse while their holder works, two operator actions, customer, debit, void: the card is charged at most once, not counting attempts that were answered with an API error, and a mandate invoice never through the worker. |
| `dunning_ends` | Card and mandate invoices, bank returns, two runners whose leases outlast their work, failed lookups, unanswered charges, API errors, failed settlements. The invoice is collected or given up in the end, or stranded by a return in the one state no claim accepts; giving up is complete (booked, subscription ended) and never happens to an invoice whose charge was captured, unless that was answered with an API error. |
| `renewals` | Two actors, two of the seven API operations in any order, one fault, leases that lapse during work, periods of two ticks over five ticks, a coupon of two periods, with a trial or without. Every period the subscription moved past was billed, a coupon runs its length, a trial is billed once, usage billed twice is reported. |
| `renewals_progress` | The same over three ticks with two operations and one fault: what falls due is renewed or ends; a pause whose date has come ends, unless a statement that writes or clears the date is still to come. |
| `stored_value` | Two actors, two invoices of 2, a note of 2, one top-up (promotional or dated), recharges of 1, one fault and one key the gateway forgets. Balance and top-ups, liability and what can be drawn, each invoice's row and what was drawn for it agree; recharges are credited as they were charged; a note that ended stays. |
| `recognition` | Two actors, two schedules of two months, a net amount of 3 (so that months differ), one fault. Deferred Revenue is what the events say is to come or, before there are any, what waits for a schedule, and that is never less than nothing; each event's posting is its amount, and what became of an event stays. |
| `refunds` | Two actors, two refunds of up to the 3 that was paid, of which 1 is tax, one fault; card, bank debit or offline; every answer of the gateway. What the gateway refunds stays within what was paid and is refunded once, status and books follow the gateway, tax slices add up. |
| `refund_taken_for_return` | `refunds`: a refund handled before its id is written is taken for a bank return. |

`CouponRunsItsCourse`, `TrialBilledOnce` and `DoubleRatingIsReported` name in their
hypotheses what they do not hold for (an operation that writes the row back, a
fault). `DeferredMatches` excludes through the history variable `misled` the unwinds of the
table below: those that met what had changed since it was read, and a downgrade that took
as unscheduled what was not there. `ChargedOnce` and `ChargedIsNotGivenUp` leave out the
attempts in `unclear`, `NoteFollowsGateway` the answers "requires_action" and "failed",
each by name and nothing else, and `ScheduledPauseEnds` a pause whose date some request is
still to write or clear. The properties without these exceptions have names as well:
`DeferredCoversSchedule`, `CardChargedOnce`, `ProcessedIsMade`, `DateIsNotClobbered`. TLC
refutes each, on the instance the tables below give.

### Where the code and its comments disagree

`refund_taken_for_return` is a run, quoted under "findings" in `PROJECT.json`: a
full refund of a bank debit is taken for a return by the bank when its success event
is handled before its id is written, and the refunded invoice is reopened.

More of the kind came up while modelling. They have no run of their own; the
second column quotes the sentence, where there is one; the third says what to check,
and the constants to change in a cfg, to see each. The five whose property is named in
its module come first in their table.

Settlement and collections:

| What happens | Sentence it contradicts | Instance |
|---|---|---|
| Every error Stripe answers with counts as a decline, an outage, a rate limit or a key still in use included. A charge taken before an API error is followed by another under the next key, or after the last attempt by the write-off of an invoice that was paid. | `docs/ANTI_PATTERNS.md:17` (outside `src/internal/`): "Idempotency keys and explicit retry semantics only; a blind retry can double-charge" | `CardChargedOnce` (`Collections`): two runners, `Faults = {"api"}`, `MaxFaults = 1` |
| With the reversal leg lost, no check reports the reopened invoice: the payment check reads paid invoices only. | `service/subscription_payment.go:194`: "a failed posting is caught by reconciliation" | `LostReversalIsCaught` (`InvoiceSettlement`): `settle_returns` with `MaxFaults = 1` |
| The write-off of fully recognized revenue has no code-22 leg, so its recovery never posts and the receivable ends negative. | `service/ledger.go:681`: "It is the exact mirror of RecordInvoiceWriteOff" | `ReceivableMatches`: one thread, one payment, `Total = 5`, `Recognized = 4`, `Stimuli = {"writeOff"}`, no credit or wallet |
| A debit of a saved bank account counts as declined while it is processing, and is begun again. | `docs/design-us-ach.md:196` (outside `src/internal/`): "must treat an invoice with a `processing` attempt as "do not touch."" | a charge while a debit is processing: one runner, `Stimuli = {"savedBank"}`, no faults |
| The worker's final Update reopens a paid invoice, then writes it off. | `adapter/db/invoice_repository.go:1083`: "only flips a still-collectible invoice, so it can't resurrect a paid one" | `row.status = "uncollectible" => ~paidElsewhere`: one runner, `Stimuli = {"customer"}`, no faults |
| An operator retries a returned invoice between the scheduler's claim and its handoff; the handoff moves the retry count past a charge whose answer was lost, and the card is charged again. | `service/collections_actions.go:79`: "so a manual click can never double-charge" | `ChargedOnce`: two runners, `Stimuli = {"debit", "return", "operator"}`, `MaxClicks = 1`, one `"infra"` fault |
| A returned invoice that the worker owns has no date: no claim returns it. | `service/subscription_payment.go:144`: "the scheduler re-collects it on its normal cadence" | `Collectible ~> ~Collectible` (without `Stranded`): `Stimuli = {"debit", "return"}`, no faults |
| A write-off between a settlement's read and its claim is never recovered: negative receivable. | `service/subscription_payment.go:51` captures the earlier status "so the write-off reversal ... can be recovered" | `ReceivableMatches`: two threads, one payment, `Stimuli = {"writeOff"}`, `Pace = "any"` |
| A write-off credits the whole total, though the wallet or applied credit has already relieved part of it. | `service/ledger.go:549`: without it A/R would carry "money that will never arrive" | `ReceivableMatches`: `Wallet = 1`, `Stimuli = {"writeOff"}` |
| With the cash leg lost, a return keeps the returned cash as paid. | `adapter/db/invoice_repository.go:437`: `amount_paid` is the portion "that was NOT returned" | `Quiescent /\ invoice.status = "past_due" => invoice.amountPaid = Wallet`: `MaxFaults = 1` |
| The write-off check sums the legs of every cycle and reports a correct second write-off. | `adapter/db/ledger_repository.go:712`: "Mirrors the payment check", which subtracts | `NoFalseAlarm`: two payments, `Recognized = 1`, `Stimuli = {"writeOff"}` |
| A returned PaymentIntent still reads "succeeded": reloading the success page marks the invoice paid. | `adapter/handler/checkout.go:322`: "NEVER marks an invoice paid on trust" | `PaidIsFunded`: `Stimuli = {"poll", "stalePoll"}` |
| The bound on the deduction at source forgets applied credit, so more can be deducted than is owed. | `service/offline_payment.go:153`: "can never exceed what the invoice still owes" | `RecordTds` with `Credit = 2` |
| The second event of a return, handled after the invoice was paid again, reverses the new payment. | `adapter/handler/webhook_stripe.go:534`: "the ledger reversal posts exactly once" | `ReversedOncePerReturn`: two payments, `Copies = 2`, `Pace = "lateCopies"` |
| The scheduler's handoff reopens an invoice voided since the claim, and the worker collects it. | `service/subscription_payment.go:31`: "A void invoice owes nothing, so it never becomes paid." | `[](row.status = "void" => [](row.status # "paid"))`: one runner, `Stimuli = {"void"}`, no faults |
| A crash between the worker's final Update and the status change strands the row. | `adapter/db/invoice_repository.go:476`: "if the worker dies mid-process the lease lapses and the row is retried" | `DunningEnds`: `Faults = {"crash"}` |

Renewal and stored value:

| What happens | Sentence it contradicts | Instance |
|---|---|---|
| Pause and resume write the row and the date in two statements. A resume's second one, coming after the next pause, erases that pause's date, and the subscription stays paused. | `service/subscription_pause.go:19`: the date is written "with a targeted SetResumeAt (not the full-row Update) so it can't be clobbered later" | `DateIsNotClobbered` (`Renewal`): `Requests = {"pause"}`, `MaxRequests = 2`, no faults |
| Any operation that loaded the row before a cancellation writes it back whole and revives the subscription. | `service/pay_in_advance.go:54`: "a canceled one is terminal" | `[][sub.status = "canceled" => sub'.status = "canceled"]_vars`: `Requests = {"cancelNow"}`, no faults |
| A trial written back by a stale Update after its conversion is converted, and billed, again. | | `firsts <= 1` with every request allowed |
| A pause and its date are two statements: a crash between them leaves a pause without an end. | | `ScheduledPauseEnds` for every paused row: one fault |
| The final usage invoice has no unique key, and the usage is claimed after the invoice is committed: two cancellations, or a renewal and a cancellation, each bill the same usage, and the loser of the claim only logs it. | `service/invoice.go:698`: the claim "also blocks any later full-period rating of the same window" | `Quiet => \A b, c \in usageBills : b[1] = c[1] => b = c` |
| A claim of the usage that fails, or a crash before it, leaves the usage to be billed again unreported; a reused renewal invoice never makes up for the claim. | `service/invoice.go:677` calls it "the last-resort race detector" | `DoubleRatingIsReported` without `faults = 0` |
| A recharge's key is the wallet and the balance read, and a balance recurs. The gateway has forgotten the key by then and charges; the database has not and credits nothing. | `service/wallet.go:519`: a "different balance" gets "a fresh key", and `:536`: "the card was charged once, the wallet is credited once" | `Quiet /\ faults = 0 => captured.count = credited`: `MaxLapses = 1` |
| A top-up or a recharge that passed the check before `Close` leaves a balance on a closed wallet. | | `wallet.closed => wallet.balance = 0` |
| A crash between drain and Update loses what was drained: the invoice does not say it. | | `InvoiceOwesTheRest` without `faults = 0` |
| The liability check sums adjustment notes of any status: a note that waits for its approval, or was rejected, is reported as a mismatch. | `adapter/db/ledger_repository.go:163` | `LiabilityMatches` with `note[n].balance` for `Spendable(n)` |

Recognition and refunds:

| What happens | Sentence it contradicts | Instance |
|---|---|---|
| A downgrade's credit beyond what pending and recognized events hold is debited to Deferred Revenue as not scheduled yet, whether or not anything is: after a full refund Deferred Revenue goes below zero. | `service/ledger.go:1043`: "so the Deferred liability is never debited below what its recognition schedule still holds"; `service/reconciliation.go:64` | `DeferredCoversSchedule` (`Recognition`): `Lives <- RefundedInvoice`, one actor, one schedule, no faults |
| A refund that the gateway answers with "requires_action" (or "failed") is recorded as processed and booked; when it fails later, its note is not pending and the event is ignored. | `adapter/handler/webhook_stripe.go:503`: "pending / requires_action — nothing to advance yet; a later event will settle it" | `ProcessedIsMade` (`Refunds`): no faults |
| The unwind sums the events it read, and the worker claims one of them meanwhile: it is recognized and forfeited, and Deferred Revenue goes below zero. | `service/revrec.go:97`: "draining Deferred to 0" | `DeferredCoversSchedule`: two actors, `MaxFaults = 0` |
| An unwind canceled the schedule, or a downgrade's debt ate it: the next settlement finds no active one and schedules the full net amount again (section 4, `Separate`). Two concurrent settlements both insert one. | `service/revrec.go:385`: "Without this guard a SECOND active schedule would be created for the same funded Deferred" | `DeferredMatches` without the bound on `Scheduled` |
| A write-off while the schedule is being created, or recovered, misses it. A downgrade and a write-off of the same unscheduled invoice both take its net amount out of Deferred Revenue. | | `DeferredMatches` without `~misled`, or for lives that are not `Separate` |
| A crash between posting and marking, then a requeue, then an unwind: the event is canceled and yet posted. A failed event is never tried again. | | `PostedMatchesEvents` without `faults = 0` |
| A crash between the schedule's insert and its events' leaves an active schedule of nothing, which keeps any other from being made. | | |
| A refund the gateway accepted is booked, and the webhook that later fails it reverses nothing: neither the refund, nor its tax, nor the unwound revenue. | `adapter/db/ledger_repository.go:553`: notes "where NO money moved carry no ledger leg by design" | `Quiet /\ note[n].refund = "refund_failed" => ~posted[n]`: no faults |
| A lost answer reads as a failed refund, and a second note refunds again: the call has no idempotency key. | | `RefundsWithinPaid` without `faults = 0` |
| A refund asked for by a maker is not counted by the limit, and its approval does not check it. | | `RefundsWithinPaid` without `~note[n].maker` |
| An event that comes before the id is written is acknowledged as unknown: the note stays pending. | | `Quiet => (note[n].refund = "pending" => sent[n].state = "pending")` |
| Two handlers that both read the note as pending overwrite each other. | `service/credit_note.go:545`: "Only pending moves" | `[][note[n].refund = "processed" => note'[n].refund = "processed"]_vars` |
| Overlapping partial refunds each count the other as prior: the tax is off by a unit of rounding. | | `TaxAddsUp` without `~overlapped` |

A credit balance that other invoices outweigh (`OtherBalances`) is nobody's mistake but a
limit of the trial balance, and `service/reconciliation.go:71` names it: another check
"survives aggregation", the sign check does not.

The passing runs switch off what these show (`Stimuli`, `Pace`, `Faults`, the
amounts), or say so in a hypothesis, so that everything else is still checked
around it. In particular: `settle_returns` writes nothing off, `settle_faults` does
not claim that the receivable matches, `back_office` keeps to a partly recognized
invoice with no credit, `dunning_charges` has no saved bank account and no bank
return, `dunning_ends` no operator and no crash. `dunning_ends` also asks less than
the sentence that a paid invoice is never written off: a customer may pay while the
worker gives up, and then only what the gateway captured for the worker's own
charges is required to be empty (`ChargedIsNotGivenUp`).

### Why the bounds are enough

The interesting orders need two actors on one row: a reader that is stale and a
writer that passes it. Two handlers (or runners) give every such order; a third
would only repeat the role of one of them.

*Settlement.* Two payments give two settle-and-return cycles, so occurrence 0 and
occurrence 1 of each code, a reversal that must find the latest, and a late event of
the first payment during the second. Two copies of a return are the events Stripe
raises for it. The amounts (total 5, tax, credit and wallet 1 each; in `back_office`
total 4, tax 1, recognized 1) tell every component of a leg apart that the
properties compare; `settle_liveness` needs one payment only, because it asks of
each payment by itself.

*Collections.* `MaxRetries = 2` and `MaxAttempts = 3` let both loops give up: the
code's 4 and 10 lengthen the same loop, which needs one handoff, one decline that
reschedules and one that does not. Faults are bounded by one or two: a handler that
dies needs one, its redelivery dying again is the second. `MaxClicks` bounds the
operator's actions, two of which are a retry and a write-off, in either order.

*Renewal.* Two ticks to a period put an operation inside a period as well as at its
end; five ticks are a trial and a renewal after it, with time to spare for an
extension. Two requests are one that races a loop and one that races the first. `renewals_progress`
has three ticks, a period and a half, because liveness is asked of a row that falls due once.

*Stored value.* A top-up of 1 and a note of 2 against invoices of 2 let an invoice be
covered by the wallet, by credit, by both, and not at all, and a note be drawn in part.
The top-up is promotional or dated, because a recharge is a paid one. The balance
of a recharge recurs with two invoices.

*Recognition.* Three in two months is 1 and 2, so a credit of 1 takes an event in
part or whole and one of 3 reaches what is recognized. Two schedules are one before
and one after a return.

*Refunds.* Amounts 1 to 3 of 3 are refunds in part, in full, and too much by two; a
tax of 1 on 3 makes the slices round.

Deadlock is not checked: a billing run may stop, with the invoice paid, void or
given up, the operator's actions used up and the clock at its bound.

### Fairness

`FairSpec` of `InvoiceSettlement`: a handler that has started takes its next
step (weak fairness per thread), and an event that is raised and not
acknowledged is delivered again and again (strong fairness, because it is not
deliverable while both handlers are busy). That is what Stripe's retry on a
non-2xx answer gives.

`FairSpec` of `Collections`: time passes, a debit in flight is answered, work
that was claimed goes on, and each loop ticks, so that a row which is claimable
again and again is claimed (strong fairness: the lease makes it unclaimable in
between). The tickers and the `ORDER BY` of the claims justify this. Nothing is
assumed of the customer, the operator or the gateway's answers.

`FairSpec` of `Renewal`: leases lapse and dates come, and each actor that can go on
with a loop or with what it has begun does so (weak fairness per actor). Nobody has
to call, nothing has to fail, and the clock need not tick on.

## 4. Proofs

TLAPS proves, for all values of the constants allowed by the named assumptions
(`AmountsAssumption`, `SettlementAssumption`, `CollectionsAssumption`,
`RenewalAssumption`, `StoredValueAssumption`, `IdentityAssumption`, `RefundsAssumption`,
`RecognitionAssumption`). Besides ranges these say that an invoice has finitely many
refund notes, and that finitely many requests, workers, adjustment notes and schedules exist at
a time: the sums over them are what the code's `SUM` over rows returns.

| Module | Theorem | Statement |
|---|---|---|
| `InvoiceSettlement_proofs` | `SettlementTypes` | `Spec => []TypeOK` |
| | `CashIsBookedOnce` | cash and reversal legs alternate |
| | `WriteOffIsRecoveredOnce` | write-off and recovery legs alternate |
| | `CashImplementsCycle`, `WriteOffImplementsCycle` | both refine `BookingCycle` |
| | `DriftIsReported` | `Spec => []PaidDriftIsReported`, with any faults, write-offs and offline receipts, and any `OtherBalances` |
| | `ReturnsReverseOnce`, `PaidInvoiceIsFunded` | under `Prompt`: `Spec => []ReversedOncePerReturn`, `Spec => []PaidIsFunded` |
| | `ReceivableIsOwed`, `RightBooksAreSilent` | under `Undisturbed`: `Spec => []ReceivableMatches`, `Spec => []NoFalseAlarm` |
| `Collections_proofs` | `CollectionsTypes` | `NoRecharge => (Spec => []TypeOK)` |
| | `CardIsChargedOnce` | `NoRecharge => (Spec => []ChargedOnce)`: at most one key is captured, not counting those answered with an API error |
| | `MandateIsNeverRetried` | no mandate invoice is charged by the worker |
| | `ChargedIsNeverGivenUp` | `Exclusive => (Spec => []ChargedIsNotGivenUp)`, crashes included |
| | `GivingUpIsFinished` | `Exclusive /\ "crash" \notin Faults => (Spec => []GivingUpIsComplete)` |
| `Renewal_proofs` | `TypeCorrect` | `Spec => []TypeOK` |
| | `ServiceIsBilled` | `Spec => []NoFreeService`: no period is served that was not invoiced |
| | `TrialIsBilledOnce` | `Spec => []TrialBilledOnce` |
| | `DoubleRatingIsSeen` | `Spec => []DoubleRatingIsReported` |
| | `CouponEnds` | `Spec => []CouponRunsItsCourse` |
| `StoredValue_proofs` | `TypeCorrect` | `Spec => []TypeOK`: nothing is drawn below zero |
| | `BalanceIsWhatIsLeft` | `Spec => []WalletIsItsTopUps` |
| | `EveryChargeIsCredited` | `Spec => []RechargedOnce` |
| | `NotesStayEnded` | `Spec => NoteIsFinal` |
| | `StoredValueIsOwed` | `Spec => []LiabilityMatches`: Customer Credit is what customers can still draw |
| | `InvoicesOweTheRest` | `Spec => []InvoiceOwesTheRest` |
| `Refunds_proofs` | `EachNoteIsRefundedOnce` | `Spec => []RefundedOnce` |
| | `NotesFollowTheGateway` | `Spec => []NoteFollowsGateway`, whatever the gateway answers |
| | `RefundsTypeCorrect` | `Spec => []TypeOK`: no slice of tax is negative or beyond the invoice's |
| | `RefundsStayWithinPaid` | `Spec => []RefundsWithinPaid` |
| | `TaxSlicesAddUp` | `Spec => []TaxAddsUp` |
| `Recognition_proofs` | `WhatBecameOfAnEventStays` | `Spec => EventIsFinal` |
| | `RecognitionTypeCorrect` | `Spec => []TypeOK`: no unwind takes more than it wants |
| | `PostingsMatchEvents` | `Spec => []PostedMatchesEvents` |
| | `DeferredRevenueMatches` | `Separate => (Spec => []DeferredMatches)`: Deferred Revenue is its schedule and what waits for one |

### The argument for the settlement

"Alternates" speaks of the journal only, and is not inductive: a handler that
counted an occurrence long ago may still post at it. `Alternates` therefore also
speaks of the legs waiting in `todo`: a waiting booking has an occurrence no
higher than the number of inverses, and a waiting inverse inverts a booking that
is there, with its amount. The inductive invariant `IInv` is types, "a thread
that posts has something to post", and `Alternates` for both pairs. The step
that matters is `PostNext`: a booking at occurrence `o <= n`, with `n` inverses
posted, is either taken (the insert does nothing) or is the next one; an inverse at
a booked `o` is either taken or, because inverses fill 0..n-1, the n-th. Counts
only grow, so what waited stays good (`Grow` in `Journal_proofs`). A planning step adds
legs computed from the journal of that moment. All other steps change neither
journal nor waiting legs, or drop some. `Journal_proofs` holds the lemmas about
`Post`, counts and the legs each plan computes. The refinement follows: a step of
`PostNext` books occurrence n when bookings are 0..n-1, inverts when they are
0..n, or changes neither.

Write-off and recovery are coordinated by the code-22 and code-24 legs alone,
as in the code; the other legs ride along in the same transaction. That they do is what
`DriftIsReported` needs. The reconciler sees neither the write-offs of a paid invoice nor
their recoveries, so a drift could hide if more were recovered than written off.
It is not: write-off legs come in whole batches of the same three amounts, posted
(`WriteOffsWhole`) and waiting (`WriteOffsFit`), and each recovery inverts a leg that is there,
hence each code's recoveries add up to no more than its write-offs. A paid row moreover says
that all the customer owed is paid, also in the copy the offline desk writes back
(`PaidRows`). If every check is silent, the cash that is posted is what the row says, and what
is left of the receivable can only be negative. The trial balance reports that unless the
customer's other invoices owe as much, which is all the exception allows: no drift in the
customer's favour goes unseen, and a drift against him is hidden only within that bound.

The other four have hypotheses, and those name where the properties stop being true.
`Prompt` (the `Pace`, no stale success page, no offline desk) is an assumption on the
environment: by the time money moves again, every event of the movement before has been
handled. Without it one return may reverse two settlements and a late success may pay a
reopened invoice; without it the code keeps no record from which it could tell. Crashes, lost
postings, write-offs and voids are allowed. `PromptInv` then says whose turn it is: while a
payment is captured no handler of a return runs and every return is handled, while none is
nobody settles (`Turns`); a captured payment whose success was taken up has settled the
invoice (`Taken`), so that nothing else can be captured; only one handler is between
reopening and posting its reversal, and while it is the invoice is not paid (`Reopened`);
and reversals stay behind returns, with one return still unhandled whenever the invoice is
paid by money that is gone (`Returns`). `ReturnsReverseOnce` counts on the first part of
`Returns`, `PaidInvoiceIsFunded` on the second. The steps are proved from three facts about
any step: what becomes of a handler's job (`JobStep`), of its program counter and the row's
status (`MoveStep`), and of the reversals (`ReversalStep`).

`Undisturbed` adds that nothing fails and nothing is written off (the instance of
`settle_returns`). Then the books follow the row (`BooksInv`): while the invoice is paid,
one cash leg is unreversed or exactly one handler is on its way to post it; while
it is not, none is unreversed, but for the one that a handler is about to reverse
(`CashFollows`). Every cash leg has the same amount (`LegsKept`), because what a handler has
read and will write is what was left to pay (`Loaded`). At rest the sums of the journal's
legs (`IssuedSums`, `CashSums`) give the receivable and each check of the reconciler.

### The argument for collections

The key of a charge is the retry count the worker loaded. `ChargedOnce` holds because the
count passes a value only when the gateway declined that key, or answered it with an API
error (`unclear`). The inductive invariant `CInv` says so of the row and of every row some
runner still holds (stale rows are written back whole!): `Answered(k)`, all keys from 1 to
k-1 were declined or are unclear. A captured key is answered up to itself and not declined;
of two captured keys the smaller one would be declined, or is unclear and not counted. Where
the faults include no API error, nothing is unclear and the card is charged once. The row
leaves the scheduler only by a handoff, at count 0, to count 1, and never returns to it
(`RowOK`), so a stale handoff can only write 1 again. For a mandate, the row never leaves
the scheduler and no worker claims it.

`NoRecharge` names the instances in which this holds for every invoice: no saved
bank account (a debit is begun again while it is processing, see section 3) and not
both a bank return and an operator's retry. A mandate invoice needs neither, and how
an invoice pays never changes, so what is inductive is `CInv` on behaviours with
`mandate \/ NoRecharge` (`Guarded`). With a return and a retry both, the property
fails: section 3 has that counterexample too.

That a charge taken is never given up, and that giving up is complete, fail when a lease
lapses under its holder or an operator writes off by hand, and a debit begun counts as a
failed attempt: `Exclusive` excludes these three. What is inductive then (`EInv`) is that
one loop works at a time (`Alone`), because each step of a loop leaves the row in a state no
claim takes (`Holding`): leased while it holds what it loaded, then without a date, then no
longer collectible. Alone with the row it loaded, a loop charges under the row's own count.
A captured key whose answer was not an API error is therefore the current attempt (`Taken`);
asking again replays the gateway's answer, so no loop gets to `declined` again, and only
from there or from the scheduler, who owns no row that was charged, is an invoice given up.
A crash frees the row with the count unmoved, so `ChargedIsNeverGivenUp` allows it; between
giving up and the cancellation it leaves the rest undone, so `GivingUpIsFinished` does not.

### The argument for renewal

`NoFreeService` bounds the end of the stored row by all that was ever invoiced. That
is not inductive: a renewal takes the row it LOADED, which may be older than the
stored one, adds a period and writes it back, while the invoice of that period may
have been raised before. What is inductive speaks of any row that is stored or that
some actor may still write (`Sound`): its end is covered by the invoices of the
periods BEFORE its own start, besides first, prepaid and granted ones. When such a
row is renewed, the invoice of its own start is there (`y.seen.start \in cycles`
between invoice and advance), so the new row is covered up to the new start. Writing
an old row back takes the end back to one that was covered then, and invoices are
never taken away.

The other three follow a row from the load to the write. `TrialInv`: while only
requests that write single columns are made, a row whose trial has ended is never
trialing again, and a trialing row has not been billed; whoever renews a row loaded it
active.
`RatingInv`: a usage on an invoice is claimed, or its actor is about to claim it; and
of two invoices one claim came second and logged that. `CouponInv`: with the loops alone
on the row, every start a row can have is the trial's end plus a multiple `i` of the
interval, `applied` counts the discounts up to there, and a discounted start has
`1 + i < CouponPeriods`; the discounted starts then inject into the periods of the coupon.

### The arguments for stored value

`StoreInv` is the types together with `WalletIsItsTopUps`: a drain that is clamped to what
remains keeps every residue natural, and the balance, being their sum, too.
`CountInv` tells where each recharge is: captures are the remembered keys and those
forgotten, credits are the keys of the database, and each captured key that is not credited is held
by an actor on its way to credit it, was lost by a fault, or was forgotten. Notes stay
ended because each update asks for the status it read, or is one transaction.

`StoredValueIsOwed` needs what the two sides are worth between a movement and its
posting: Customer Credit plus the legs that still wait (`Owing`, at most two an
actor) equals wallet plus spendable notes, always, while nothing has failed
(`LiabilityInv`). A leg posted or a movement made changes one summand of either sum, or
of both. `InvoicesOweTheRest` follows an invoice through `generateInvoice`
(`OwedInv`): it is fresh, finished, or worked on by exactly one actor at one of
five stages, each of which says what the row, the draws and the receivable are
by then. An actor's `invoice` and the settlement waiting in its `todo` say who that is.

The sums are `SumFunctionOnSet` of the community modules, a fold over a
CHOOSEn order. What a fold returns is induction over a finite set, which the library's
induction rule cannot be instantiated for here; `FunctionSums` proves the few facts needed (the sum
of one more element, of a function changed at one argument, of natural summands)
from a SMALLEST subset that would refute them, which exists by well-foundedness of
the strict-subset ordering.

### The arguments for refunds

`RefundedOnce` needs that an actor about to call the gateway for a note holds it
alone, and that the note is issued and was never refunded (`HeldAlone`). Only the
approval that finds the note pending, or the insert of a new one, starts such a
hold; and an approval is taken back only by the actor that holds it.

`NoteFollowsGateway` rests on that: whoever is about to call finds the note untouched at the
gateway, so the call decides its state and its answer; the state from then on only moves
forward. An answer on its way, or an event sent, is true of the state, and stays true until it
is written down (`Knows`, `EventsTrue`). What is written down of an answer is "processed" for
all but "pending", so a note that says processed has been refunded or was answered with one
of the two statuses that the property names; and a refund that was taken is booked, or held by
the actor that books it (`Booked`).

`RefundsStayWithinPaid` is inductive over the notes that COUNT, those issued at once and
not declined (`Live`): an insert adds one within the limit it has just read, and no other step
adds any. `TaxSlicesAddUp` is about rounding: the tax of a sum is not the sum of
the taxes, and the code takes the difference of two cumulated portions instead. While
bookings do not overlap (`Bookers`) the slices booked so far are the tax of the notes settled
so far (`Taxes`), and the next slice is the difference to the tax of those and one more;
what it reads as settled is what the gateway took (`Asked`, `Recorded`). That the slices stay
within `0..Tax` (`RefundsTypeCorrect`) holds in any case.

### The argument for recognition

A month's event has many writers: worker, repeated claims, cancellations, refunds,
downgrades. Every UPDATE among them names the status it wants to find, so each alone
respects `EventIsFinal` (`StepKeeps`, one lemma per update). The exception is the
insert of a schedule's events, which overwrites in the model whatever is there. That
nothing is there is `InsertsOnce`, an invariant over actors and rows: an id without a
schedule has no events, an actor about to insert has just created its schedule and no
event of it exists, and no two actors are about to insert for one schedule. `EventInv`
adds the shapes (`Shape`): the actions set an actor's record field by field, and the
lemmas `Sets...Enters` say once what record that leaves. `Stage` says at which point
of an unwind what it still takes (`take`), has taken and wants are ordered;
`RecognitionTypeCorrect` needs that, since the code subtracts.

`PostingsMatchEvents` is about the worker's claim (`Books`): what it claimed is still
as it was read, held by that worker alone, and a claimed event is held by somebody. The
last is what makes the requeue of stale claims harmless while nobody dies; the posting of
a held event then belongs to the event (`Worth`) before and after it is marked.

`DeferredRevenueMatches` is an accounting equation (`Accounts`): at every step

    deferred = StillToRecognize - debt + (Net, where the invoice is not scheduled yet) - Outstanding + InMotion

`Outstanding` is what is written off and no schedule ever had, or one still has;
`InMotion` adds up what each actor has taken out of a schedule and not posted, posted and
not marked, or claimed from the debt and not inserted (`Moving`, by program counter). A step
changes one summand and one actor's `Moving`, as `Balanced` says; only the steps that schedule
the invoice, or end a write-off, trade one summand for another.

A debt that nothing will draw would balance it with a negative Deferred Revenue, so a second
invariant says where the debt is (`DebtInv`): unless somebody was `misled`, it was taken
from a net amount that waits for its schedule, is no more than what is left of that, and is
gone from the moment the schedule is inserted. Hence what waits is natural, and a quiet
Deferred Revenue is never below its schedule.

The equation is not inductive, and does not hold throughout. `Lawful` says what each request
may find whatever goes wrong, `Orderly` that one actor at a time schedules the invoice,
that a write-off paid after all is being recovered, and what a write-off finds and leaves of
the schedule; `InTime` what an unwind knows of its progress. Once a second schedule exists,
or must come, or a check will meet a write-off and be `misled` (`Out`: `Twice`, `Anew`,
`Doomed`), `DeferredMatches` asks nothing, and the invariant asks only that it stays so.

`Separate` keeps apart the operations after which the next settlement schedules the full
amount anew (section 3). It is no more than needed: with any of the least sets it excludes
as the only member of `Lives`, TLC refutes `DeferredMatches`. These are accrual or a return
with a downgrade; accrual or a return with a cancellation and a write-off; a return with a
refund and a write-off; a downgrade with a write-off. `MCRecognition` assumes `Separate` of
the lives the run `recognition` takes.

### What stays with TLC

Liveness (`PaymentSettles`, `DunningEnds`, `DueIsRenewed`, `ScheduledPauseEnds`), since
fairness and ENABLED are out of this prover's reach; no module here uses RECURSIVE.
`ReceivableMatches` with write-offs and offline receipts, which `back_office` checks for one
handler at a time and `ReceivableIsOwed` leaves out (with two, a write-off between a settlement's
read and its claim breaks it, section 3).
`DeferredMatches` for lives that are not `Separate` is false, as section 4 says.

## 5. What is abstracted

- One invoice, subscription or wallet at a time, one tenant, one entity, one
  currency. Invoices of one customer share a receivable account and those of one tenant a
  cash account; `OtherBalances` stands for what the others have there, natural amounts at any
  moment. `StoredValue` has several invoices on one wallet.
- Amounts are naturals; the code's int64 minor units do not overflow at
  invoice scale, and `ledgerAmount` rejects negative ones.
- The TigerBeetle mirror of the ledger, telemetry, mails, the bandit's choice of
  a date, `gateway_payment_id` and the buyer's saved card change nothing the
  properties see.
- The order of drawing: a drain takes dated residue first and otherwise any split of
  paid and promotional; credit is drawn from notes in any order.
- The recognition schedule in `InvoiceSettlement`: `Recognized` is a constant there, and
  `Recognition` has the invoice's life as a few steps. An invoice recognized at once
  (`createImmediateRecognition`) is the case `Recognized = Total - Tax` of `Journal`.
- Who may issue, approve or void a note: roles are data, and that an approver is not
  the creator is not modelled.
- Event types other than the ones named; GoCardless and Razorpay deliveries end
  in the same `MarkInvoicePaid` and `ReverseSettledPayment`.
- Dunning campaigns as a third owner of the row.
- The choice of gateway and the interactive fallback when no saved method is
  reachable (it only creates an order, which charges nobody).
- Calendar dates: a period is a number of ticks, a date NULL, past or in the future.

### Not modelled

`PROJECT.json` gives the reason for each. In short: dunning campaigns and the batches of
GoCardless and Razorpay repeat claims and handlers that are modelled, and are the next to
add; the debit loop of mandates claims nothing, because nothing in `src/` sets
`pre_debit_notified` or the first `next_debit_at`; the idempotency store and the
outbound webhooks are leases of their own that the models do without, since every
request may be repeated; e-invoicing, metering, accounting, identity and reports
do not move money; proration, progressive billing and usage billed as it arrives compute
amounts, which are data here; a dispute is one deduplicated posting to open and one to close.

## 6. Plan

What is left, in this order.

1. `InboundEvents`: the remaining Stripe event types, GoCardless batches and
   Razorpay, against `InvoiceSettlement`'s row. Properties: no paid invoice is
   overwritten by a late failure, an attempt never goes back, every event of a batch
   takes effect.
2. `DunningCampaign`: executions as third owner, composed with `Collections`'
   claims. Properties: one owner, recovery ends the campaign, every exhausted
   campaign hands back.
3. `Idempotency` (middleware, Redis and memory stores, locker) and
   `WebhookDelivery`: leases with expiry. Theorem: one execution per key while
   reservations outlive work.
4. `Recognized` of `Journal` as a variable that `Recognition` moves, so that a
   write-off's three legs and the schedule are checked in one instance.
5. A proof of `ReceivableMatches` for one handler at a time with write-offs and offline
   receipts.
