------------------------------- MODULE Refunds -------------------------------
(***************************************************************************)
(* Refund credit notes of one paid invoice.  A note is inserted under a    *)
(* lock on the invoice that keeps the refunds within what was paid; then   *)
(* the gateway is called, its answer is written to the note, and the       *)
(* refund and its share of the tax are posted.  A refund of somebody who   *)
(* may not issue one waits for an approval, and the gateway's last word    *)
(* may come days later, by webhook, more than once.                        *)
(*                                                                         *)
(* What a refund unwinds of the recognition schedule is Recognition.       *)
(***************************************************************************)
EXTENDS Integers, FiniteSets, Functions

CONSTANTS
    Actors,      \* requests and webhook handlers, over all instances
    Notes,       \* ids of credit_notes rows
    Paid,        \* AmountPaid, and Total, of the invoice
    Tax,         \* TaxAmount of the invoice
    Amounts,     \* what a refund may be for
    MaxFaults    \* deaths of an actor, lost answers and failed statements

ASSUME RefundsAssumption ==
    /\ Paid \in Nat \ {0} /\ Tax \in 0..Paid
    /\ Amounts \subseteq Nat \ {0} /\ MaxFaults \in Nat
    /\ IsFiniteSet(Notes)

VARIABLES
    method,      \* how the invoice was paid; offline it has no gateway payment id
    reopened,    \* the invoice was reopened because its debit is taken for returned
    note,        \* credit_notes rows
    sent,        \* gateway: state of each note's refund, how often one was made, and
                 \* what its request was answered
    told,        \* gateway: events sent, delivered any number of times
    posted,      \* code-4 leg of each note
    taxed,       \* tax reversed for each note
    actor,       \* each actor's program counter and what it has read
    overlapped,  \* history: a refund was taxed while another was under way
    faults       \* faults so far

vars == <<method, reopened, note, sent, told, posted, taxed, actor, overlapped, faults>>
invoice == <<method, reopened>>
gateway == <<sent, told>>
books == <<posted, taxed>>

None == "none"
Note == [status : {None, "pending_approval", "issued", "rejected"},
         refund : {None, "pending", "processed", "refund_failed", "manual_required"},
         amount : Nat, maker : BOOLEAN, refundId : BOOLEAN]
\* Refund passes the gateway's status on as it is; "failed" stands for canceled too.
Answers == {"succeeded", "pending", "requires_action", "failed"}
Sent == [state : {None, "declined", "pending", "succeeded", "failed"}, count : Nat,
         answer : Answers \cup {None}]
Told == [note : Notes, succeeded : BOOLEAN]
Actor == [pc : {"idle", "approve", "manual", "refund", "failed", "record", "tax", "post", "postTax",
                "advance"},
          note : Notes \cup {None}, answer : Answers \cup {None}, tax : Int]
Idle == [pc |-> "idle", note |-> None, answer |-> None, tax |-> 0]

Init ==
    /\ method \in {"offline", "card", "debit"} /\ reopened = FALSE
    /\ note = [n \in Notes |-> [status |-> None, refund |-> None, amount |-> 0,
                                maker |-> FALSE, refundId |-> FALSE]]
    /\ sent = [n \in Notes |-> [state |-> None, count |-> 0, answer |-> None]] /\ told = {}
    /\ posted = [n \in Notes |-> FALSE] /\ taxed = [n \in Notes |-> 0]
    /\ actor = [a \in Actors |-> Idle]
    /\ overlapped = FALSE /\ faults = 0

----------------------------------------------------------------------------

At(a, pc) == actor[a].pc = pc
Goto(a, pc) == actor' = [actor EXCEPT ![a].pc = pc]
Done(a) == actor' = [actor EXCEPT ![a] = Idle]
Quiet == \A a \in Actors : actor[a] = Idle
Mine(a) == actor[a].note
SumOver(f) == FoldFunction(+, 0, f)
AmountOf(ns) == SumOver([n \in Notes |-> IF n \in ns THEN note[n].amount ELSE 0])

\* Mutant: a refund the gateway has not confirmed yet is not counted.
ConfirmedRefunds == {n \in Notes : note[n].refund \in {"processed", "manual_required"}}

\* SumActiveRefundsForInvoice
ActiveRefunds == {n \in Notes : note[n].refund \in {"pending", "processed", "manual_required"}}

UpdateRefund(n, refund, id) ==
    note' = [note EXCEPT ![n].refund = refund, ![n].refundId = id]
UpdateStatus(n, from, to) ==
    note' = [note EXCEPT ![n].status = IF @ = from THEN to ELSE @]

\* Rounded half up, and never more than the invoice's tax.
RefundTaxPortion(amount) ==
    LET rounded == (2 * amount * Tax + Paid) \div (2 * Paid)
    IN IF amount <= 0 THEN 0 ELSE IF rounded > Tax THEN Tax ELSE rounded

\* Mutant: each refund is taxed as if it were the only one.
SliceAlone(amount, prior) == RefundTaxPortion(amount)

\* Mutant: the shares are subtracted the wrong way round.
SliceSwapped(amount, prior) ==
    RefundTaxPortion(prior) - RefundTaxPortion(prior + amount)

RefundTaxSlice(amount, prior) ==
    RefundTaxPortion(prior + amount) - RefundTaxPortion(prior)

Fault == faults < MaxFaults /\ faults' = faults + 1

Crash(a) ==
    /\ actor[a] # Idle /\ Fault
    /\ Done(a)
    /\ UNCHANGED <<invoice, note, gateway, books, overlapped>>

----------------------------------------------------------------------------
(* Requests.                                                               *)

\* CreateRefundWithinLimit: the sum and the insert, under the invoice's lock.  A
\* reopened invoice has nothing left that was paid.
Insert(n, amount, status, refund, maker) ==
    /\ note[n].status = None
    /\ AmountOf(ActiveRefunds) + amount <= (IF reopened THEN 0 ELSE Paid)
    /\ note' = [note EXCEPT ![n] = [status |-> status, refund |-> refund, amount |-> amount,
                                    maker |-> maker, refundId |-> FALSE]]

\* An owner, an admin or an API key issues the refund.
CreateRefund(a) ==
    /\ At(a, "idle")
    /\ \E n \in Notes, amount \in Amounts :
           /\ Insert(n, amount, "issued", IF method = "offline" THEN "manual_required" ELSE "pending", FALSE)
           /\ IF method = "offline" THEN UNCHANGED actor
              ELSE actor' = [actor EXCEPT ![a].pc = "refund", ![a].note = n]
    /\ UNCHANGED <<invoice, gateway, books, overlapped, faults>>

\* Anybody else only asks for it.
RequestRefund(a) ==
    /\ At(a, "idle")
    /\ \E n \in Notes, amount \in Amounts : Insert(n, amount, "pending_approval", None, TRUE)
    /\ UNCHANGED <<invoice, gateway, books, actor, overlapped, faults>>

\* Approve reads the note ...
ReadPending(a) ==
    /\ At(a, "idle")
    /\ \E n \in Notes :
           /\ note[n].status = "pending_approval"
           /\ actor' = [actor EXCEPT ![a].pc = "approve", ![a].note = n]
    /\ UNCHANGED <<invoice, note, gateway, books, overlapped, faults>>

\* Mutant: the approval relies on what it has read.
ApproveUnguarded(a) ==
    /\ At(a, "approve")
    /\ note' = [note EXCEPT ![Mine(a)].status = "issued"]
    /\ Goto(a, IF method = "offline" THEN "manual" ELSE "refund")
    /\ UNCHANGED <<invoice, gateway, books, overlapped, faults>>

\* ... and only the approval that finds it still pending goes on.
Approve(a) ==
    /\ At(a, "approve")
    /\ UpdateStatus(Mine(a), "pending_approval", "issued")
    /\ IF note[Mine(a)].status # "pending_approval" THEN Done(a)
       ELSE Goto(a, IF method = "offline" THEN "manual" ELSE "refund")
    /\ UNCHANGED <<invoice, gateway, books, overlapped, faults>>

Reject(a) ==
    /\ At(a, "approve")
    /\ UpdateStatus(Mine(a), "pending_approval", "rejected")
    /\ Done(a)
    /\ UNCHANGED <<invoice, gateway, books, overlapped, faults>>

\* An approved refund of a payment the gateway knows nothing of.
MarkManual(a) ==
    /\ At(a, "manual")
    /\ UpdateRefund(Mine(a), "manual_required", FALSE)
    /\ Done(a)
    /\ UNCHANGED <<invoice, gateway, books, overlapped, faults>>

\* Where even that cannot be written, or the invoice cannot be loaded, the approval
\* is taken back.
RevertApproval(a) ==
    /\ At(a, "manual") \/ (At(a, "refund") /\ note[Mine(a)].maker)
    /\ Fault
    /\ UpdateStatus(Mine(a), "issued", "pending_approval")
    /\ Done(a)
    /\ UNCHANGED <<invoice, gateway, books, overlapped>>

----------------------------------------------------------------------------
(* The gateway, and what is made of its answer.                            *)

Tell(n, succeeded) == told' = told \cup {[note |-> n, succeeded |-> succeeded]}

GatewayDeclines(a) ==
    /\ At(a, "refund")
    /\ sent' = [sent EXCEPT ![Mine(a)].state = "declined"]
    /\ Goto(a, "failed")
    /\ UNCHANGED <<invoice, note, told, books, overlapped, faults>>

\* The refund is made, under way, waits for the customer or has failed at once; the
\* answer may get lost and looks like an error.
GatewayRefunds(a) ==
    /\ At(a, "refund")
    /\ \E answer \in Answers, answered \in BOOLEAN :
           LET received == IF answered THEN answer ELSE None IN
           /\ sent' = [sent EXCEPT ![Mine(a)] =
                  [state |-> IF answer = "requires_action" THEN "pending" ELSE answer,
                   count |-> @.count + 1, answer |-> received]]
           /\ IF answer \in {"succeeded", "failed"} THEN Tell(Mine(a), answer = "succeeded")
              ELSE UNCHANGED told
           /\ actor' = [actor EXCEPT ![a].pc = IF answered THEN "record" ELSE "failed",
                                     ![a].answer = received]
           /\ IF answered THEN UNCHANGED faults ELSE Fault
    /\ UNCHANGED <<invoice, note, books, overlapped>>

\* A refund under way is made or fails, and one that was made can still come back.
GatewaySettles(n) ==
    /\ \E succeeded \in BOOLEAN :
           /\ sent[n].state \in (IF succeeded THEN {"pending"} ELSE {"pending", "succeeded"})
           /\ sent' = [sent EXCEPT ![n].state = IF succeeded THEN "succeeded" ELSE "failed"]
           /\ Tell(n, succeeded)
    /\ UNCHANGED <<invoice, note, books, actor, overlapped, faults>>

MarkRefundFailed(a) ==
    /\ At(a, "failed")
    /\ UpdateRefund(Mine(a), "refund_failed", FALSE)
    /\ Done(a)
    /\ UNCHANGED <<invoice, gateway, books, overlapped, faults>>

\* Mutant: an accepted refund is taken for a made one.
RecordAsProcessed(a) ==
    /\ At(a, "record")
    /\ UpdateRefund(Mine(a), "processed", TRUE)
    /\ Goto(a, "tax")
    /\ UNCHANGED <<invoice, gateway, books, overlapped, faults>>

\* Every answer but "pending" counts as a refund that was made.
RecordOutcome(a) ==
    /\ At(a, "record")
    /\ UpdateRefund(Mine(a), IF actor[a].answer = "pending" THEN "pending" ELSE "processed", TRUE)
    /\ Goto(a, "tax")
    /\ UNCHANGED <<invoice, gateway, books, overlapped, faults>>

\* The refunds that count before this one; those under way count too.
AllocateTax(a) ==
    LET n == Mine(a)
        prior == AmountOf(ActiveRefunds) - note[n].amount
    IN
    /\ At(a, "tax")
    /\ actor' = [actor EXCEPT ![a].pc = "post",
                              ![a].tax = RefundTaxSlice(note[n].amount, IF prior < 0 THEN 0 ELSE prior)]
    /\ overlapped' = (overlapped \/ \E b \in Actors \ {a} :
                          actor[b].pc \in {"refund", "failed", "record", "tax", "post", "postTax"})
    /\ UNCHANGED <<invoice, note, gateway, books, faults>>

\* Mutant: a refund under way is not booked.
RecordProcessedRefund(a) ==
    /\ At(a, "post")
    /\ posted' = [posted EXCEPT ![Mine(a)] = actor[a].answer = "succeeded"]
    /\ Goto(a, "postTax")
    /\ UNCHANGED <<invoice, note, gateway, taxed, overlapped, faults>>

RecordRefund(a) ==
    /\ At(a, "post")
    /\ posted' = [posted EXCEPT ![Mine(a)] = TRUE]
    /\ Goto(a, "postTax")
    /\ UNCHANGED <<invoice, note, gateway, taxed, overlapped, faults>>

\* Its failure is only logged.
RefundPostFails(a) ==
    /\ At(a, "post") /\ Fault
    /\ Goto(a, "postTax")
    /\ UNCHANGED <<invoice, note, gateway, books, overlapped>>

RecordRefundTaxReversal(a) ==
    /\ At(a, "postTax")
    /\ taxed' = [taxed EXCEPT ![Mine(a)] = actor[a].tax]
    /\ Done(a)
    /\ UNCHANGED <<invoice, note, gateway, posted, overlapped, faults>>

----------------------------------------------------------------------------
(* ProcessGatewayRefundEvent: the note is found by its refund id, and only *)
(* a pending refund moves.  An event whose id no note has is acknowledged, *)
(* but first applyStripeRefund takes it for a return by the bank where it  *)
(* can: a success of the full amount of a debit.                           *)

Outcome(e) == IF e.succeeded THEN "succeeded" ELSE "failed"

ReadEvent(a) ==
    /\ At(a, "idle")
    /\ \E e \in told :
           /\ note[e.note].refundId /\ note[e.note].refund = "pending"
           /\ actor' = [actor EXCEPT ![a].pc = "advance", ![a].note = e.note,
                                     ![a].answer = Outcome(e)]
    /\ UNCHANGED <<invoice, note, gateway, books, overlapped, faults>>

AdvanceRefund(a) ==
    /\ At(a, "advance")
    /\ UpdateRefund(Mine(a), IF actor[a].answer = "succeeded" THEN "processed" ELSE "refund_failed", TRUE)
    /\ Done(a)
    /\ UNCHANGED <<invoice, gateway, books, overlapped, faults>>

\* handleACHReturn; the reversal itself is ReadToReverse of InvoiceSettlement.
ACHReturned(a) ==
    /\ At(a, "idle") /\ method = "debit"
    /\ \E e \in told :
           e.succeeded /\ ~note[e.note].refundId /\ note[e.note].amount = Paid
    /\ reopened' = TRUE
    /\ UNCHANGED <<method, note, gateway, books, actor, overlapped, faults>>

----------------------------------------------------------------------------

Request(a) ==
    \/ CreateRefund(a) \/ RequestRefund(a) \/ ReadPending(a) \/ Approve(a) \/ Reject(a)
    \/ MarkManual(a) \/ RevertApproval(a)
    \/ GatewayDeclines(a) \/ GatewayRefunds(a) \/ MarkRefundFailed(a) \/ RecordOutcome(a)
    \/ AllocateTax(a) \/ RecordRefund(a) \/ RefundPostFails(a) \/ RecordRefundTaxReversal(a)

Next ==
    \/ \E a \in Actors : Request(a) \/ ReadEvent(a) \/ AdvanceRefund(a) \/ ACHReturned(a)
                         \/ Crash(a)
    \/ \E n \in Notes : GatewaySettles(n)

Spec == Init /\ [][Next]_vars

----------------------------------------------------------------------------

TypeOK ==
    /\ method \in {"offline", "card", "debit"} /\ reopened \in BOOLEAN
    /\ note \in [Notes -> Note] /\ sent \in [Notes -> Sent] /\ told \subseteq Told
    /\ posted \in [Notes -> BOOLEAN] /\ taxed \in [Notes -> 0..Tax]
    /\ actor \in [Actors -> Actor]
    /\ overlapped \in BOOLEAN /\ faults \in 0..MaxFaults

\* Refunds issued without an approval never send back more than was paid, unless an
\* answer got lost: concurrent requests see each other's notes.
RefundsWithinPaid ==
    faults = 0 =>
        AmountOf({n \in Notes : ~note[n].maker /\ sent[n].state \in {"pending", "succeeded"}}) <= Paid

\* A note is refunded once at most, whatever its approvals raced with or died of.
RefundedOnce == \A n \in Notes : sent[n].count <= 1

\* The gateway has made the refund, whether or not it came back later.
Made(n) == [note |-> n, succeeded |-> TRUE] \in told

\* A note says failed when the gateway has not made its refund, and processed when it
\* has, unless the gateway's answer was neither made nor pending; and once its request
\* is over it is booked if and only if the gateway accepted the call.
NoteFollowsGateway ==
    faults = 0 => \A n \in Notes :
        /\ note[n].refund = "refund_failed" => sent[n].state \in {"declined", "failed"}
        /\ note[n].refund = "processed" =>
               Made(n) \/ sent[n].answer \in {"requires_action", "failed"}
        /\ Quiet => (posted[n] <=> sent[n].state \in {"pending", "succeeded", "failed"})

\* The slices of refunds that do not overlap add up to the tax of their sum, as long
\* as none of them comes back.
TaxAddsUp ==
    LET taken == {n \in Notes : sent[n].state \in {"pending", "succeeded"}} IN
    /\ faults = 0 /\ Quiet /\ ~overlapped
    /\ \A n \in Notes : sent[n].state # "failed"
    => SumOver(taxed) = RefundTaxPortion(AmountOf(taken))

\* applyStripeRefund: "A merchant-initiated refund always has one [a credit note]; a
\* succeeded refund with none is an involuntary bank claw-back".
RefundIsNoReturn == ~reopened

\* What is wanted and does not hold, since RecordOutcome takes all but pending for made.
\* applyStripeRefund: "pending / requires_action - nothing to advance yet; a later
\* event will settle it", so a note is processed only when its refund has been made.
ProcessedIsMade == \A n \in Notes : note[n].refund = "processed" => Made(n)
=============================================================================
