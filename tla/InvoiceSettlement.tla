------------------------- MODULE InvoiceSettlement -------------------------
(***************************************************************************)
(* How one issued invoice is settled, reopened and written off by handlers *)
(* that run concurrently: gateway webhooks, the checkout success page, the *)
(* operator's write-off and the offline-payment desk.                      *)
(*                                                                         *)
(* A thread runs one handler at a time, one database statement per step:   *)
(* SubscriptionService.MarkInvoicePaid and ReverseSettledPayment, and the  *)
(* LedgerService calls they make.  The invoice row, the ledger, the        *)
(* payment attempts and the inbound-webhook table are all they share.      *)
(***************************************************************************)
EXTENDS Journal, Sequences

CONSTANTS
    Threads,     \* request handlers that run at the same time
    Payments,    \* PaymentIntents the customer may complete
    Copies,      \* events one bank return raises (charge.refunded, refund.updated)
    Receipts,    \* [amount, tds]: what the offline desk may record
    Stimuli,     \* the optional callers that take part
    Pace,        \* how far deliveries may lag behind the movements of money
    MaxFaults    \* how many crashes and ledger errors happen

ASSUME SettlementAssumption ==
    /\ Copies \in Nat \ {0}
    /\ Receipts \subseteq [amount : Nat, tds : Nat]
    /\ Stimuli \subseteq {"poll", "stalePoll", "doublePay", "writeOff", "void"}
    /\ Pace \in {"prompt", "lateCopies", "any"}
    /\ MaxFaults \in Nat

VARIABLES
    invoice,     \* the invoices row: status, amount_paid, tds_amount
    ledger,      \* its journal
    payments,    \* what the gateway did with each PaymentIntent
    attempts,    \* payment_attempts.status
    handled,     \* events recorded by inboundDedup.MarkProcessed
    thread,      \* each handler's program counter and locals
    faults       \* faults so far

vars == <<invoice, ledger, payments, attempts, handled, thread, faults>>

Status == {"open", "past_due", "uncollectible", "void", "paid"}
Invoice == [status : Status, amountPaid : Nat, tds : Nat]

Events == [kind : {"succeeded"}, payment : Payments, copy : {1}]
            \cup [kind : {"returned"}, payment : Payments, copy : 1..Copies]
Requests == [kind : {"poll"}, payment : Payments]
            \cup [kind : {"writeOff", "none"}]
            \cup [kind : {"offline"}, receipt : Receipts]

PC == {"idle", "settle", "claim", "recover", "recovering", "book", "booking",
       "reverse", "lookup", "reopen", "invert", "writeOff", "recordTds", "finish"}

Issued == [status |-> "open", amountPaid |-> Wallet, tds |-> 0]

Handler(pc, job, seen) == [pc |-> pc, job |-> job, seen |-> seen, todo |-> <<>>]
Idle == Handler("idle", [kind |-> "none"], Issued)

Init ==
    /\ invoice = Issued
    /\ ledger = IssuedJournal
    /\ payments = [p \in Payments |-> "pending"]
    /\ attempts = [p \in Payments |-> "processing"]
    /\ handled = {}
    /\ thread = [t \in Threads |-> Idle]
    /\ faults = 0

----------------------------------------------------------------------------
(* The gateway and the customer.                                           *)

Raised == {e \in Events : \/ e.kind = "succeeded" /\ payments[e.payment] # "pending"
                          \/ e.kind = "returned" /\ payments[e.payment] = "returned"}

Quiet == \A t \in Threads : thread[t].pc = "idle"

\* Nothing is left to deliver or to run.
Quiescent == Quiet /\ Raised \subseteq handled

\* Money moves days apart: by then every event of the last movement has been
\* handled ("prompt"), or one of its events has ("lateCopies").  "any" lets
\* the next movement overtake the deliveries of the one before.
MoneyMayMove ==
    CASE Pace = "prompt"     -> Quiescent
      [] Pace = "lateCopies" -> /\ Quiet
                                /\ \A e \in Raised : \E f \in handled :
                                      f.kind = e.kind /\ f.payment = e.payment
      [] Pace = "any"        -> TRUE

\* The customer pays an invoice that still asks for money.
Capture(p) ==
    /\ payments[p] = "pending"
    /\ invoice.status \in {"open", "past_due", "uncollectible"}
    /\ "doublePay" \in Stimuli \/ \A q \in Payments : payments[q] # "captured"
    /\ MoneyMayMove
    /\ payments' = [payments EXCEPT ![p] = "captured"]
    /\ UNCHANGED <<invoice, ledger, attempts, handled, thread, faults>>

\* Days later the bank takes the money back.
BankReturn(p) ==
    /\ payments[p] = "captured"
    /\ MoneyMayMove
    /\ payments' = [payments EXCEPT ![p] = "returned"]
    /\ UNCHANGED <<invoice, ledger, attempts, handled, thread, faults>>

----------------------------------------------------------------------------
(* A handler's steps.                                                      *)

Continue(t, pc, seen, todo) ==
    thread' = [thread EXCEPT ![t] = [@ EXCEPT !.pc = pc, !.seen = seen, !.todo = todo]]
Goto(t, pc) == Continue(t, pc, thread[t].seen, <<>>)
Plan(t, pc, batches) == Continue(t, pc, thread[t].seen, batches)
Done(t) == thread' = [thread EXCEPT ![t] = Idle]
Begin(t, pc, job, seen) ==
    /\ thread[t].pc = "idle"
    /\ thread' = [thread EXCEPT ![t] = Handler(pc, job, seen)]

\* handlePaymentIntentSucceeded settles the invoice of the intent.
PaymentSucceeded(t, e) ==
    /\ e.kind = "succeeded"
    /\ Begin(t, "settle", e, Issued)
    /\ UNCHANGED attempts

\* handleACHReturn marks the attempt returned before it reverses.
ACHReturned(t, e) ==
    /\ e.kind = "returned"
    /\ Begin(t, "reverse", e, Issued)
    /\ attempts' = [attempts EXCEPT ![e.payment] = "returned"]

\* Variants with a plausible bug carry the suffix of what they get wrong.
DeliverWithoutDedup(t, e) ==
    /\ e \in Raised
    /\ PaymentSucceeded(t, e) \/ ACHReturned(t, e)
    /\ UNCHANGED <<invoice, ledger, payments, handled, faults>>

\* HandleStripe: alreadyProcessed, then the handler of the event's type.
Deliver(t, e) ==
    /\ e \in Raised \ handled
    /\ PaymentSucceeded(t, e) \/ ACHReturned(t, e)
    /\ UNCHANGED <<invoice, ledger, payments, handled, faults>>

\* Mutant: the page does not ask the gateway.
PollUnverified(t, p) ==
    /\ "poll" \in Stimuli
    /\ invoice.status # "paid"
    /\ Begin(t, "settle", [kind |-> "poll", payment |-> p], Issued)
    /\ UNCHANGED <<invoice, ledger, payments, attempts, handled, faults>>

\* CheckoutSuccess: the buyer's page verifies that the intent succeeded, which
\* it stays after a return, and settles.
Poll(t, p) ==
    /\ "poll" \in Stimuli
    /\ \/ payments[p] = "captured"
       \/ payments[p] = "returned" /\ "stalePoll" \in Stimuli
    /\ invoice.status # "paid"
    /\ Begin(t, "settle", [kind |-> "poll", payment |-> p], Issued)
    /\ UNCHANGED <<invoice, ledger, payments, attempts, handled, faults>>

\* MarkInvoicePaid loads the invoice.
ReadToSettle(t) ==
    /\ thread[t].pc = "settle"
    /\ Continue(t, IF invoice.status \in {"paid", "void"} THEN "finish" ELSE "claim",
                invoice, <<>>)
    /\ UNCHANGED <<invoice, ledger, payments, attempts, handled, faults>>

\* Mutant: a written-off invoice cannot be paid.
MarkPaidNotUncollectible(t) ==
    /\ thread[t].pc = "claim"
    /\ IF invoice.status \in {"paid", "void", "uncollectible"}
       THEN Goto(t, "finish") /\ UNCHANGED invoice
       ELSE /\ invoice' = [invoice EXCEPT !.status = "paid", !.amountPaid = Total - Credit]
            /\ Goto(t, "book")
    /\ UNCHANGED <<ledger, payments, attempts, handled, faults>>

\* InvoiceRepository.MarkPaid: the conditional UPDATE.
MarkPaid(t) ==
    /\ thread[t].pc = "claim"
    /\ IF invoice.status \in {"paid", "void"}
       THEN Goto(t, "finish") /\ UNCHANGED invoice
       ELSE /\ invoice' = [invoice EXCEPT !.status = "paid", !.amountPaid = Total - Credit]
            /\ Goto(t, IF thread[t].seen.status = "uncollectible" THEN "recover" ELSE "book")
    /\ UNCHANGED <<ledger, payments, attempts, handled, faults>>

\* RecordWriteOffRecovery reads the ledger.
PlanRecovery(t) ==
    /\ thread[t].pc = "recover"
    /\ Plan(t, "recovering", <<RecoveryLegs(ledger)>>)
    /\ UNCHANGED <<invoice, ledger, payments, attempts, handled, faults>>

\* RecordPaymentWithSettled reads the occurrence; each leg it builds from the
\* loaded invoice is then a transaction of its own.
PlanPayment(t) ==
    /\ thread[t].pc = "book"
    /\ LET inv == thread[t].seen
           occ == PaymentOccurrence(ledger)
       IN  Plan(t, "booking",
                <<TdsLegs(occ, inv.tds), CashLegs(occ, inv.tds, inv.amountPaid)>>)
    /\ UNCHANGED <<invoice, ledger, payments, attempts, handled, faults>>

AfterLedger(pc) == IF pc \in {"recover", "recovering"} THEN "book" ELSE "finish"

\* CreateTransaction / CreateTransactions: the next batch commits.
PostNext(t) ==
    /\ thread[t].pc \in {"recovering", "booking"}
    /\ LET rest == Tail(thread[t].todo)
           pc == thread[t].pc
       IN  Plan(t, IF rest = <<>> THEN AfterLedger(pc) ELSE pc, rest)
    /\ ledger' = Post(ledger, Head(thread[t].todo))
    /\ UNCHANGED <<invoice, payments, attempts, handled, faults>>

\* A ledger read or write fails: the service logs it and carries on (ADR-002).
LedgerFails(t) ==
    /\ faults < MaxFaults
    /\ thread[t].pc \in {"recover", "recovering", "book", "booking", "invert", "writeOff"}
    /\ Goto(t, AfterLedger(thread[t].pc))
    /\ faults' = faults + 1
    /\ UNCHANGED <<invoice, ledger, payments, attempts, handled>>

\* ReverseSettledPayment loads the invoice.
ReadToReverse(t) ==
    /\ thread[t].pc = "reverse"
    /\ Continue(t, IF invoice.status = "paid" THEN "lookup" ELSE "finish", invoice, <<>>)
    /\ UNCHANGED <<invoice, ledger, payments, attempts, handled, faults>>

\* Mutant: a return forgets what was paid otherwise than in cash.
NonCashForgotten(inv, cash) == 0

\* The part of the total that was not cash stays paid.
NonCash(inv, cash) ==
    LET rest == Total - Credit - inv.tds - cash IN IF rest < 0 THEN 0 ELSE rest

LookUpCash(t) ==
    /\ thread[t].pc = "lookup"
    /\ LET inv == thread[t].seen
       IN  Continue(t, "reopen",
                [inv EXCEPT !.amountPaid = NonCash(inv, LatestCash(ledger))], <<>>)
    /\ UNCHANGED <<invoice, ledger, payments, attempts, handled, faults>>

\* InvoiceRepository.ReverseToUnpaid: the conditional UPDATE.
ReverseToUnpaid(t) ==
    /\ thread[t].pc = "reopen"
    /\ IF invoice.status # "paid"
       THEN Goto(t, "finish") /\ UNCHANGED invoice
       ELSE /\ invoice' = [invoice EXCEPT !.status = "past_due",
                                          !.amountPaid = thread[t].seen.amountPaid]
            /\ Goto(t, "invert")
    /\ UNCHANGED <<ledger, payments, attempts, handled, faults>>

\* RecordPaymentReversal reads the leg it inverts.
PlanReversal(t) ==
    /\ thread[t].pc = "invert"
    /\ Plan(t, "booking", <<ReversalLegs(ledger)>>)
    /\ UNCHANGED <<invoice, ledger, payments, attempts, handled, faults>>

\* CollectionsActionService.MarkUncollectible: the conditional UPDATE ...
MarkUncollectible(t) ==
    /\ "writeOff" \in Stimuli
    /\ invoice.status \in {"open", "past_due"}
    /\ invoice' = [invoice EXCEPT !.status = "uncollectible"]
    /\ Begin(t, "writeOff", [kind |-> "writeOff"], Issued)
    /\ UNCHANGED <<ledger, payments, attempts, handled, faults>>

\* ... then RecordInvoiceWriteOff reads the ledger.
PlanWriteOff(t) ==
    /\ thread[t].pc = "writeOff"
    /\ Plan(t, "booking", <<WriteOffLegs(ledger)>>)
    /\ UNCHANGED <<invoice, ledger, payments, attempts, handled, faults>>

\* InvoiceRepository.VoidIfOpen, for a gift cancelled before it was paid.
VoidIfOpen ==
    /\ "void" \in Stimuli
    /\ invoice.status = "open"
    /\ invoice' = [invoice EXCEPT !.status = "void"]
    /\ UNCHANGED <<ledger, payments, attempts, handled, thread, faults>>

\* RecordOfflinePayment loads the invoice and bounds the deduction ...
RecordOffline(t, r) ==
    /\ r.tds > 0 => r.tds <= Total - invoice.amountPaid - invoice.tds
    /\ Begin(t, "recordTds", [kind |-> "offline", receipt |-> r],
             [invoice EXCEPT !.tds = @ + r.tds])
    /\ UNCHANGED <<invoice, ledger, payments, attempts, handled, faults>>

\* ... writes the whole loaded row back when there is a deduction, and settles
\* when the money, the deduction and what was paid before cover the total.
RecordTds(t) ==
    /\ thread[t].pc = "recordTds"
    /\ LET inv == thread[t].seen
           r == thread[t].job.receipt
       IN  /\ invoice' = IF r.tds > 0 THEN inv ELSE invoice
           /\ IF r.amount + inv.tds + inv.amountPaid >= Total THEN Goto(t, "settle") ELSE Done(t)
    /\ UNCHANGED <<ledger, payments, attempts, handled, faults>>

\* settleAttempt, then markProcessed and the acknowledgement.
Finish(t) ==
    /\ thread[t].pc = "finish"
    /\ LET job == thread[t].job
       IN  /\ handled' = handled \cup ({job} \cap Events)
           /\ attempts' = IF job.kind # "succeeded" THEN attempts
                          ELSE [attempts EXCEPT ![job.payment] = "succeeded"]
    /\ Done(t)
    /\ UNCHANGED <<invoice, ledger, payments, faults>>

\* The process dies, or a statement whose error is returned fails: the event is
\* not acknowledged and the gateway will deliver it again.
Crash(t) ==
    /\ faults < MaxFaults
    /\ thread[t].pc # "idle"
    /\ faults' = faults + 1
    /\ Done(t)
    /\ UNCHANGED <<invoice, ledger, payments, attempts, handled>>

----------------------------------------------------------------------------

Step(t) ==
    \/ ReadToSettle(t) \/ MarkPaid(t) \/ PlanRecovery(t) \/ PlanPayment(t)
    \/ ReadToReverse(t) \/ LookUpCash(t) \/ ReverseToUnpaid(t) \/ PlanReversal(t)
    \/ PlanWriteOff(t) \/ RecordTds(t) \/ PostNext(t) \/ Finish(t)

Next ==
    \/ \E p \in Payments : Capture(p) \/ BankReturn(p)
    \/ VoidIfOpen
    \/ \E t \in Threads :
        \/ Step(t) \/ LedgerFails(t) \/ Crash(t) \/ MarkUncollectible(t)
        \/ \E e \in Events : Deliver(t, e)
        \/ \E p \in Payments : Poll(t, p)
        \/ \E r \in Receipts : RecordOffline(t, r)

Spec == Init /\ [][Next]_vars

(* A handler that has started runs on, and a gateway delivers an event     *)
(* again until it is acknowledged.                                         *)
FairSpec ==
    /\ Spec
    /\ \A t \in Threads : WF_vars(Step(t))
    /\ \A e \in Events : SF_vars(\E t \in Threads : Deliver(t, e))

----------------------------------------------------------------------------
(* Properties.                                                             *)

\* Type invariant: every variable holds a value of its kind, and a handler's
\* pending batches hold legs only.
TypeOK ==
    /\ invoice \in Invoice
    /\ IsJournal(ledger)
    /\ payments \in [Payments -> {"pending", "captured", "returned"}]
    /\ attempts \in [Payments -> {"processing", "succeeded", "returned"}]
    /\ handled \subseteq Events
    /\ thread \in [Threads -> [pc : PC, job : Events \cup Requests, seen : Invoice,
                               todo : Seq(SUBSET Legs)]]
    /\ faults \in 0..MaxFaults

\* The legs some handler has computed and not posted yet.
Waiting(todo) == UNION {todo[i] : i \in DOMAIN todo}
Pending == UNION {Waiting(thread[t].todo) : t \in Threads}

\* However handlers interleave, die and lose postings, cash is booked once per
\* settle/return cycle: no reversal without its own cash leg, of the same amount,
\* and never two cash legs that are not reversed.
CashBookedOnce == Alternates(ledger, Pending, "payment", "reversal")

\* The same for a write-off and the recovery of a late payment.
WriteOffRecoveredOnce == Alternates(ledger, Pending, "writeOff", "recovery")

\* A handler that is posting has a batch to post, and batches are finite.
PostingReady ==
    \A t \in Threads :
        /\ thread[t].pc \in {"recovering", "booking"} => thread[t].todo # <<>>
        /\ \A i \in DOMAIN thread[t].todo : IsFiniteSet(thread[t].todo[i])

\* The inductive invariant.
IInv == TypeOK /\ PostingReady /\ CashBookedOnce /\ WriteOffRecoveredOnce

\* Each pair of postings implements the alternation of BookingCycle.
CashCycle == INSTANCE BookingCycle
    WITH booked <- ledger["payment"], inverted <- ledger["reversal"]
WriteOffCycle == INSTANCE BookingCycle
    WITH booked <- ledger["writeOff"], inverted <- ledger["recovery"]
CashAlternates == CashCycle!Spec
WriteOffAlternates == WriteOffCycle!Spec

\* What the books say the customer owes when the invoice says it owes `owed`.
Owed == IF invoice.status \in {"paid", "uncollectible"} THEN 0
        ELSE Total - Credit - invoice.amountPaid

\* When nothing is running, the receivable in the ledger is what the invoice
\* row still asks for: no leg was lost, doubled or netted wrongly on any path
\* through settle, return, write-off and recovery.  (A voided invoice keeps its
\* receivable: nothing posts on a void.)
ReceivableMatches ==
    Quiescent /\ invoice.status # "void" => Balance(ledger, "AR") = Owed

\* A paid invoice is backed by money the gateway still holds, once every event
\* is handled: a reopened invoice is not paid again by a stale delivery.
PaidIsFunded ==
    Quiescent /\ invoice.status = "paid" => \E p \in Payments : payments[p] = "captured"

\* Every bank return reverses at most one settlement, whatever number of events
\* and deliveries reported it.
ReversedOncePerReturn ==
    Count(ledger, "reversal") <= Cardinality({p \in Payments : payments[p] = "returned"})

\* What ReconciliationService.Run reports of the invoice, next to the others.
Reported(others) ==
    \/ InvoiceMismatch(ledger) \/ TaxMismatch(ledger) \/ CreditMismatch(ledger)
    \/ PaymentMismatch(ledger, invoice.status, invoice.amountPaid)
    \/ WriteOffMismatch(ledger, invoice.status)
    \/ AbnormalSign(ledger, others)

\* Reconciliation reports a paid invoice whose receivable is not clear, unless it is a
\* credit balance that the customer's other invoices outweigh, even though every posting
\* is best-effort and any handler may die in the middle.
PaidDriftIsReported ==
    Quiescent /\ invoice.status = "paid" /\ Balance(ledger, "AR") # 0 =>
        \A others \in Others :
            Reported(others) \/ Balance(ledger, "AR") \in (-others.receivable)..(-1)

\* What is wanted and does not hold, since PaymentMismatch is of paid invoices only.
\* ReverseSettledPayment: "Non-fatal per ADR-002: a failed posting is caught by
\* reconciliation, and the invoice is already correctly reopened."
LostReversalIsCaught ==
    Quiescent /\ invoice.status = "past_due" /\ Balance(ledger, "AR") # Owed =>
        \A others \in Others : Reported(others)

\* Reconciliation is silent on books that are right.
NoFalseAlarm ==
    Quiescent /\ invoice.status # "void" /\ Balance(ledger, "AR") = Owed =>
        \A others \in Others : ~Reported(others)

\* Money the gateway captured settles the invoice, unless the bank takes it back
\* or the invoice was voided.
PaymentSettles ==
    \A p \in Payments :
        payments[p] = "captured" ~> \/ invoice.status \in {"paid", "void"}
                                    \/ payments[p] = "returned"
=============================================================================
