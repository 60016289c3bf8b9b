---------------------------- MODULE Collections ----------------------------
(***************************************************************************)
(* How one overdue invoice is collected: the dunning scheduler sweeps it,  *)
(* hands it to the retry worker, the worker charges the saved card until   *)
(* it pays or the attempts run out, and meanwhile the customer, a bank     *)
(* debit and an operator touch the same row.                               *)
(*                                                                         *)
(* A runner is a scheduler or worker loop of some instance of the program; *)
(* each of its steps is one database statement or one gateway call.  The   *)
(* instances share the invoices row and nothing else: the scheduler lock   *)
(* is a no-op without Redis, so a claim leases the row (ADR-003).          *)
(***************************************************************************)
EXTENDS Integers, FiniteSets

CONSTANTS
    Runners,      \* scheduler and worker loops, over all instances
    Mandates,     \* may the subscription pay through a UPI mandate?
    MaxRetries,   \* DunningConfig.MaxRetries
    MaxAttempts,  \* retries after which DecideRetry gives up
    Ages,         \* may the invoice be CancelAfterDays overdue?
    Stimuli,      \* the other actors that take part
    MaxClicks,    \* how often the operator acts
    Overrun,      \* a lease may lapse while its holder still works
    Faults,       \* kinds of faults that happen ...
    MaxFaults     \* ... and how many

ASSUME CollectionsAssumption ==
    /\ Mandates \subseteq BOOLEAN /\ Mandates # {} /\ Overrun \in BOOLEAN
    /\ MaxRetries \in Nat /\ MaxAttempts \in Nat
    /\ Ages \subseteq BOOLEAN /\ Ages # {}
    /\ Stimuli \subseteq {"customer", "debit", "return", "operator", "void", "savedBank"}
    /\ Faults \subseteq {"crash", "infra", "api", "settle", "ledger", "lookup"}
    /\ MaxClicks \in Nat /\ MaxFaults \in Nat

VARIABLES
    mandate,        \* the subscription pays through a UPI mandate
    row,            \* the invoices row
    attempt,        \* payment_attempts.status of the bank debit last begun
    captured,       \* idempotency keys the gateway took the money for ...
    declined,       \* ... and those it declined
    unclear,        \* ... and those it answered with an API error (history)
    paidElsewhere,  \* the customer's own payment or debit holds
    writtenOff,     \* a write-off is booked and not recovered
    canceled,       \* the subscription was canceled for non-payment
    runner,         \* each runner's program counter and the row it loaded
    clicks,         \* operator actions so far
    faults          \* faults so far

vars == <<mandate, row, attempt, captured, declined, unclear, paidElsewhere,
          writtenOff, canceled, runner, clicks, faults>>
card == <<captured, declined, unclear>>
money == <<attempt, card, paidElsewhere>>
books == <<writtenOff, canceled>>
bounds == <<mandate, clicks, faults>>

\* next: next_retry_at is NULL, past or in the future (a lease is just that).
\* settled: amount_paid covers the total.
Row == [status : {"open", "past_due", "uncollectible", "void", "paid"},
        next : {"none", "due", "later"}, retries : Nat,
        managedBy : {"scheduler", "worker"}, paused : BOOLEAN, settled : BOOLEAN]

Overdue == [status |-> "open", next |-> "none", retries |-> 0,
            managedBy |-> "scheduler", paused |-> FALSE, settled |-> FALSE]

PC == {"idle", "sweep", "dun", "charge", "reschedule", "settle", "reload", "clear",
       "declined", "giveUp", "writeOff", "cancel", "post"}

Idle == [pc |-> "idle", seen |-> Overdue]

Init ==
    /\ mandate \in Mandates
    /\ row = Overdue
    /\ attempt = "none"
    /\ captured = {} /\ declined = {} /\ unclear = {}
    /\ paidElsewhere = FALSE
    /\ writtenOff = FALSE /\ canceled = FALSE
    /\ runner = [r \in Runners |-> Idle]
    /\ clicks = 0
    /\ faults = 0

----------------------------------------------------------------------------

Quiet == \A r \in Runners : runner[r].pc = "idle"

Continue(r, pc, seen) == runner' = [runner EXCEPT ![r] = [pc |-> pc, seen |-> seen]]
Goto(r, pc) == Continue(r, pc, runner[r].seen)
Done(r) == runner' = [runner EXCEPT ![r] = Idle]

\* next_retry_at passes.  A lease outlasts the work it covers unless Overrun.
Elapse ==
    /\ row.next = "later"
    /\ Overrun \/ Quiet
    /\ row' = [row EXCEPT !.next = "due"]
    /\ UNCHANGED <<money, books, runner, bounds>>

Collectible == row.status \in {"open", "past_due"}

\* The UPDATE ... RETURNING of both claims.
Claim(r, pc) ==
    /\ runner[r].pc = "idle"
    /\ Collectible /\ ~row.paused
    /\ row' = [row EXCEPT !.next = "later"]
    /\ Continue(r, pc, row')
    /\ UNCHANGED <<money, books, bounds>>

----------------------------------------------------------------------------
(* The dunning scheduler.                                                  *)

ClaimOverdueForDunning(r) ==
    /\ row.next # "later" /\ row.managedBy = "scheduler"
    /\ Claim(r, "sweep")

\* A debit in flight leaves the claimed row to its lease.
CheckInFlight(r) ==
    /\ runner[r].pc = "sweep"
    /\ IF attempt = "processing" THEN Done(r) ELSE Goto(r, "dun")
    /\ UNCHANGED <<row, money, books, bounds>>

TooOld(r, old) == old \/ runner[r].seen.retries >= MaxRetries

\* MarkAsUncollectible, by id alone.
MarkAsUncollectible(r) ==
    /\ runner[r].pc = "dun"
    /\ \E old \in Ages : TooOld(r, old)
    /\ row' = [row EXCEPT !.status = "uncollectible", !.next = "none"]
    /\ Goto(r, "writeOff")
    /\ UNCHANGED <<money, books, bounds>>

\* Mutant: the handoff takes an attempt off the count.
HandOffCountsDown(r) ==
    /\ runner[r].pc = "dun"
    /\ \E old \in Ages : ~TooOld(r, old)
    /\ row' = [row EXCEPT !.status = "past_due", !.next = "later",
                          !.retries = runner[r].seen.retries - 1,
                          !.managedBy = IF mandate THEN "scheduler" ELSE "worker"]
    /\ Done(r)
    /\ UNCHANGED <<money, books, bounds>>

\* UpdateRetryInfoWithDunning, by id alone: on to the retry worker, except that
\* a mandate stays with the scheduler.
HandOff(r) ==
    /\ runner[r].pc = "dun"
    /\ \E old \in Ages : ~TooOld(r, old)
    /\ row' = [row EXCEPT !.status = "past_due", !.next = "later",
                          !.retries = runner[r].seen.retries + 1,
                          !.managedBy = IF mandate THEN "scheduler" ELSE "worker"]
    /\ Done(r)
    /\ UNCHANGED <<money, books, bounds>>

----------------------------------------------------------------------------
(* The retry worker.                                                       *)

ClaimDueForRetry(r) ==
    /\ row.next = "due" /\ row.managedBy = "worker"
    /\ Claim(r, "charge")

\* InvoiceRepository.Update writes every column of the loaded row but the pause.
Update(inv) == row' = [inv EXCEPT !.paused = row.paused]

\* The gateway answers a key once and replays its answer; k is retry-<id>-<k>.
CardCaptures(k) ==
    /\ "savedBank" \notin Stimuli
    /\ k \notin declined
    /\ captured' = captured \cup {k}
    /\ UNCHANGED <<declined, attempt, paidElsewhere>>
CardDeclines(k) ==
    /\ k \notin captured
    /\ declined' = declined \cup {k}
    /\ UNCHANGED <<captured, attempt, paidElsewhere>>

\* When the saved method is a bank account the debit is only begun.
BankTakes(k) ==
    /\ "savedBank" \in Stimuli
    /\ k \notin declined
    /\ captured' = captured \cup {k}
    /\ attempt' = "processing"
    /\ UNCHANGED <<declined, paidElsewhere>>

\* chargeInvoice: nothing is charged when the loaded row owes nothing, and an
\* answer other than success, "processing" included, is a failed attempt.
ChargeInvoice(r) ==
    /\ runner[r].pc = "charge"
    /\ LET inv == runner[r].seen
       IN  \/ inv.settled /\ Goto(r, "settle") /\ UNCHANGED money
           \/ ~inv.settled /\ CardCaptures(inv.retries) /\ Goto(r, "settle")
           \/ ~inv.settled /\ CardDeclines(inv.retries) /\ Goto(r, "declined")
           \/ ~inv.settled /\ BankTakes(inv.retries) /\ Goto(r, "declined")
    /\ UNCHANGED <<row, unclear, books, bounds>>

\* Mutant: a charge without an answer counts as an attempt.
InfraErrorCountsAsAttempt(r) ==
    LET inv == runner[r].seen
    IN  Continue(r, "reschedule", [inv EXCEPT !.retries = @ + 1])

\* The same attempt is to be made again in five minutes.
InfraError(r) == Goto(r, "reschedule")

\* Mutant: no date is set.
RescheduleWithoutDate(r) ==
    /\ runner[r].pc = "reschedule"
    /\ Update([runner[r].seen EXCEPT !.next = "none"])
    /\ Done(r)
    /\ UNCHANGED <<money, books, bounds>>

Reschedule(r) ==
    /\ runner[r].pc = "reschedule"
    /\ Update([runner[r].seen EXCEPT !.next = "later"])
    /\ Done(r)
    /\ UNCHANGED <<money, books, bounds>>

\* MarkInvoicePaid: the guarded transition, and the recovery of a write-off.
MarkInvoicePaid ==
    IF row.status \in {"paid", "void"} THEN UNCHANGED <<row, writtenOff>>
    ELSE /\ row' = [row EXCEPT !.status = "paid", !.settled = TRUE]
         /\ writtenOff' = (writtenOff /\ row.status # "uncollectible")

Settle(r) ==
    /\ runner[r].pc = "settle"
    /\ MarkInvoicePaid
    /\ Goto(r, "reload")
    /\ UNCHANGED <<money, canceled, bounds>>

Reload(r) ==
    /\ runner[r].pc = "reload"
    /\ Continue(r, "clear", row)
    /\ UNCHANGED <<row, money, books, bounds>>

ClearDunning(r) ==
    /\ runner[r].pc = "clear"
    /\ Update([runner[r].seen EXCEPT !.next = "none"])
    /\ Done(r)
    /\ UNCHANGED <<money, books, bounds>>

\* One retry more: the next date, or the final attempt's record.
RetryFailed(r) ==
    /\ runner[r].pc = "declined"
    /\ LET inv == [runner[r].seen EXCEPT !.retries = @ + 1]
       IN  IF inv.retries >= MaxAttempts
           THEN Update([inv EXCEPT !.next = "none"]) /\ Goto(r, "giveUp")
           ELSE Update([inv EXCEPT !.status = "past_due", !.next = "later"]) /\ Done(r)
    /\ UNCHANGED <<money, books, bounds>>

MarkUncollectibleScoped(r, pc) ==
    IF Collectible
    THEN row' = [row EXCEPT !.status = "uncollectible", !.next = "none"] /\ Goto(r, pc)
    ELSE UNCHANGED row /\ Done(r)

\* Mutant: nothing is posted.
GiveUpUnbooked(r) ==
    /\ runner[r].pc = "giveUp"
    /\ MarkUncollectibleScoped(r, "idle")
    /\ UNCHANGED <<money, books, bounds>>

GiveUp(r) ==
    /\ runner[r].pc = "giveUp"
    /\ MarkUncollectibleScoped(r, "writeOff")
    /\ UNCHANGED <<money, books, bounds>>

\* RecordInvoiceWriteOff, then for dunning CancelForNonPayment.
PostWriteOff(r) ==
    /\ runner[r].pc \in {"writeOff", "post"}
    /\ writtenOff' = TRUE
    /\ IF runner[r].pc = "writeOff" THEN Goto(r, "cancel") ELSE Done(r)
    /\ UNCHANGED <<row, money, canceled, bounds>>

CancelForNonPayment(r) ==
    /\ runner[r].pc = "cancel"
    /\ canceled' = TRUE
    /\ Done(r)
    /\ UNCHANGED <<row, money, writtenOff, bounds>>

----------------------------------------------------------------------------
(* What goes wrong.                                                        *)

Fault(kind) ==
    /\ kind \in Faults
    /\ faults < MaxFaults
    /\ faults' = faults + 1
    /\ UNCHANGED mandate

\* The process dies, or a statement fails and the loop moves on to other rows.
Crash(r) ==
    /\ Fault("crash")
    /\ runner[r].pc # "idle"
    /\ Done(r)
    /\ UNCHANGED <<row, money, books, clicks>>

\* What the gateway may have done with a key when its answer does not tell.
MayTake(k) ==
    \/ CardCaptures(k) \/ CardDeclines(k) \/ BankTakes(k)
    \/ UNCHANGED <<captured, declined, attempt, paidElsewhere>>

\* The transport fails and the gateway's answer is lost.
ChargeUnanswered(r) ==
    /\ Fault("infra")
    /\ runner[r].pc = "charge" /\ ~runner[r].seen.settled
    /\ MayTake(runner[r].seen.retries)
    /\ InfraError(r)
    /\ UNCHANGED <<row, unclear, books, clicks>>

\* Stripe answers with an API error: its own failure, a rate limit, a key still in
\* use.  Every *stripe.Error is a failed attempt, whatever became of the charge.
ApiError(r) ==
    /\ Fault("api")
    /\ runner[r].pc = "charge" /\ ~runner[r].seen.settled
    /\ MayTake(runner[r].seen.retries)
    /\ unclear' = unclear \cup {runner[r].seen.retries}
    /\ Goto(r, "declined")
    /\ UNCHANGED <<row, books, clicks>>

\* MarkInvoicePaid fails: the dunning state stays for the next poll.
SettleFails(r) ==
    /\ Fault("settle")
    /\ runner[r].pc = "settle"
    /\ Done(r)
    /\ UNCHANGED <<row, money, books, clicks>>

\* The write-off leg is logged as lost and the cancellation goes on.
LedgerFails(r) ==
    /\ Fault("ledger")
    /\ runner[r].pc = "writeOff"
    /\ Goto(r, "cancel")
    /\ UNCHANGED <<row, money, books, clicks>>

\* The in-flight lookup fails and dunning goes on.
LookupFails(r) ==
    /\ Fault("lookup")
    /\ runner[r].pc = "sweep"
    /\ Goto(r, "dun")
    /\ UNCHANGED <<row, money, books, clicks>>

----------------------------------------------------------------------------
(* The customer, the bank and the operator.                                *)

Payable == row.status \in {"open", "past_due", "uncollectible"}

\* The customer pays at the hosted checkout and its webhook settles.
CustomerPays ==
    /\ "customer" \in Stimuli
    /\ Payable /\ ~paidElsewhere
    /\ paidElsewhere' = TRUE
    /\ MarkInvoicePaid
    /\ UNCHANGED <<attempt, card, canceled, runner, bounds>>

DebitBegins ==
    /\ "debit" \in Stimuli
    /\ attempt = "none" /\ Payable
    /\ attempt' = "processing"
    /\ UNCHANGED <<row, card, paidElsewhere, books, runner, bounds>>

DebitClears ==
    /\ attempt = "processing"
    /\ attempt' = "succeeded"
    /\ paidElsewhere' = TRUE
    /\ MarkInvoicePaid
    /\ UNCHANGED <<card, canceled, runner, bounds>>

DebitFails ==
    /\ attempt = "processing"
    /\ attempt' = "failed"
    /\ UNCHANGED <<row, card, paidElsewhere, books, runner, bounds>>

\* ReverseSettledPayment: days later, the bank takes the debit back.
DebitReturned ==
    /\ "return" \in Stimuli
    /\ Overrun \/ Quiet
    /\ attempt = "succeeded"
    /\ attempt' = "returned"
    /\ paidElsewhere' = FALSE
    /\ row' = IF row.status # "paid" THEN row
              ELSE [row EXCEPT !.status = "past_due", !.settled = FALSE]
    /\ UNCHANGED <<card, books, runner, bounds>>

Click ==
    /\ "operator" \in Stimuli
    /\ clicks < MaxClicks
    /\ clicks' = clicks + 1
    /\ UNCHANGED mandate

\* Mutant: the worker gets a mandate invoice, too.
RequeueMandateToo ==
    /\ Click
    /\ row.status = "past_due" /\ ~row.paused /\ attempt # "processing"
    /\ row' = [row EXCEPT !.next = "due", !.managedBy = "worker"]
    /\ UNCHANGED <<money, books, runner, faults>>

\* RetryNow: the guarded UPDATE that hands the row to the worker at once.
RequeueForRetry ==
    /\ Click
    /\ row.status = "past_due" /\ ~row.paused /\ ~mandate /\ attempt # "processing"
    /\ row' = [row EXCEPT !.next = "due", !.managedBy = "worker"]
    /\ UNCHANGED <<money, books, runner, faults>>

SetDunningPaused ==
    /\ Click
    /\ Payable
    /\ row' = [row EXCEPT !.paused = ~@]
    /\ UNCHANGED <<money, books, runner, faults>>

\* CollectionsActionService.MarkUncollectible; the posting follows.
WriteOffByHand(r) ==
    /\ Click
    /\ runner[r].pc = "idle"
    /\ Collectible
    /\ MarkUncollectibleScoped(r, "post")
    /\ UNCHANGED <<money, books, faults>>

VoidIfOpen ==
    /\ "void" \in Stimuli
    /\ row.status = "open"
    /\ row' = [row EXCEPT !.status = "void"]
    /\ UNCHANGED <<money, books, runner, bounds>>

----------------------------------------------------------------------------

Work(r) ==
    \/ CheckInFlight(r) \/ MarkAsUncollectible(r) \/ HandOff(r)
    \/ ChargeInvoice(r) \/ Reschedule(r) \/ Settle(r) \/ Reload(r) \/ ClearDunning(r)
    \/ RetryFailed(r) \/ GiveUp(r) \/ PostWriteOff(r) \/ CancelForNonPayment(r)

Next ==
    \/ Elapse
    \/ CustomerPays \/ DebitBegins \/ DebitClears \/ DebitFails \/ DebitReturned
    \/ RequeueForRetry \/ SetDunningPaused \/ VoidIfOpen
    \/ \E r \in Runners :
        \/ ClaimOverdueForDunning(r) \/ ClaimDueForRetry(r) \/ Work(r)
        \/ WriteOffByHand(r)
        \/ Crash(r) \/ ChargeUnanswered(r) \/ ApiError(r) \/ SettleFails(r)
        \/ LedgerFails(r) \/ LookupFails(r)

Spec == Init /\ [][Next]_vars

\* Time passes, the loops tick and work what they claimed, and a bank debit is
\* answered in the end.
FairSpec ==
    /\ Spec
    /\ WF_vars(Elapse)
    /\ WF_vars(DebitClears \/ DebitFails)
    /\ SF_vars(\E r \in Runners : ClaimOverdueForDunning(r))
    /\ SF_vars(\E r \in Runners : ClaimDueForRetry(r))
    /\ \A r \in Runners : WF_vars(Work(r))

----------------------------------------------------------------------------
(* Properties.                                                             *)

\* Type invariant.
TypeOK ==
    /\ mandate \in BOOLEAN
    /\ row \in Row
    /\ attempt \in {"none", "processing", "succeeded", "failed", "returned"}
    /\ captured \subseteq Nat /\ declined \subseteq Nat /\ unclear \subseteq Nat
    /\ paidElsewhere \in BOOLEAN /\ writtenOff \in BOOLEAN /\ canceled \in BOOLEAN
    /\ runner \in [Runners -> [pc : PC, seen : Row]]
    /\ clicks \in 0..MaxClicks /\ faults \in 0..MaxFaults

\* The charges whose key the gateway never answered with an API error.
Known == captured \ unclear

\* The saved card is charged at most once for an invoice, however many workers
\* re-run an attempt after a crash, a lost answer or a lapsed lease: the retry
\* count in the idempotency key only moves past an attempt that was declined, or
\* answered with an API error.  Only such an attempt may have been charged and be
\* followed by another charge.
ChargedOnce == Cardinality(Known) <= 1

\* What is wanted and does not hold, since an API error counts as a decline: without
\* exception the card is charged once for an invoice (docs/ANTI_PATTERNS.md:
\* "Never silently retry a money operation.  Idempotency keys and explicit retry
\* semantics only; a blind retry can double-charge.").
CardChargedOnce == Cardinality(captured) <= 1

\* The inductive invariant behind ChargedOnce: a retry count is reached only by
\* declines and API errors, an invoice leaves the scheduler only by a handoff, and a mandate never.
Answered(k) == 1..(k - 1) \subseteq declined \cup unclear
RowOK(x) ==
    IF mandate THEN x.managedBy = "scheduler"
    ELSE IF x.managedBy = "scheduler"
    THEN x.retries = 0 /\ ("operator" \in Stimuli => x.status # "past_due")
    ELSE x.retries # 0 /\ Answered(x.retries)
RunnerOK(x) ==
    /\ RowOK(x.seen)
    /\ x.pc \in {"sweep", "dun"} => mandate \/ x.seen.retries = 0
    /\ x.pc \in {"charge", "reschedule", "declined"} => ~mandate /\ x.seen.managedBy = "worker"
    /\ x.pc = "declined" => x.seen.retries \in declined \cup unclear
KeysOK ==
    /\ captured \cap declined = {}
    /\ \A k \in captured : k # 0 /\ Answered(k)
    /\ mandate => captured = {} /\ declined = {} /\ unclear = {}
CInv == TypeOK /\ RowOK(row) /\ (\A r \in Runners : RunnerOK(runner[r])) /\ KeysOK

\* An invoice whose card was charged is never given up, however the charge's
\* answer or its settlement failed: the attempt is repeated until it settles.  An
\* attempt answered with an API error is the exception: it counts as failed.
ChargedIsNotGivenUp ==
    Quiet /\ row.status = "uncollectible" => Known = {}

\* Giving up is complete, whichever loop does it: the subscription ends, and the
\* receivable is relieved unless its posting can fail.
GivingUpIsComplete ==
    Quiet /\ row.status = "uncollectible" => canceled /\ (writtenOff \/ "ledger" \in Faults)

\* Neither a handoff, a sweep nor an operator's click charges a mandate invoice
\* through the worker (ENG-168).
MandateIsNotRetried == mandate => captured = {} /\ declined = {} /\ unclear = {}

\* A bank return reopened what the worker had collected and cleared: no date, and
\* not the scheduler's.
Stranded == attempt = "returned" /\ row.managedBy = "worker" /\ row.next = "none"

\* Dunning ends: an unpaid invoice is collected or given up, handed from loop to
\* loop without ever falling between them, but for the one case above.
DunningEnds == Collectible ~> ~Collectible \/ Stranded
=============================================================================
