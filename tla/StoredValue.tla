----------------------------- MODULE StoredValue -----------------------------
(***************************************************************************)
(* What a customer has in store: a prepaid wallet and account credit       *)
(* (adjustment credit notes), both owed on one ledger account, Customer    *)
(* Credit, and both drawn down when an invoice is generated.               *)
(*                                                                         *)
(* An actor is a request or a sweep.  Each movement of stored value is one *)
(* transaction on rows locked FOR UPDATE; the posting that belongs to it   *)
(* is a later statement, and its failure is only logged.  An actor's       *)
(* postings to come are its todo.                                          *)
(***************************************************************************)
EXTENDS Integers, Sequences, FiniteSets, Functions

CONSTANTS
    Actors,      \* requests and sweeps, over all instances of the program
    Invoices,    \* invoices to generate, of Total each
    Notes,       \* adjustment credit notes to create, of NoteAmount each
    Total,
    NoteAmount,
    Grant,       \* amount of a top-up by hand ...
    Sources,     \* ... of these kinds
    MaxTopUps,   \* ... and how often
    Threshold,   \* auto_recharge_threshold ...
    Recharge,    \* ... and auto_recharge_amount
    Requests,    \* which of the rarer operations are called
    MaxFaults,   \* deaths of an actor and failed statements
    MaxLapses    \* keys the gateway forgets

None == "none"

ASSUME StoredValueAssumption ==
    /\ {Total, NoteAmount, Grant, Recharge} \subseteq Nat \ {0}
    /\ {Threshold, MaxTopUps, MaxFaults, MaxLapses} \subseteq Nat
    /\ Sources \subseteq {"paid", "promo", "dated"}
    /\ Requests \subseteq {"close", "approve", "reject", "void", "maker"}

\* Finitely many requests run at once, on finitely many notes; None is no invoice.
ASSUME IdentityAssumption ==
    IsFiniteSet(Actors) /\ IsFiniteSet(Notes) /\ None \notin Invoices

VARIABLES
    wallet,     \* wallets row: balance, and whether closed_at is set
    residue,    \* remaining of its top-ups: paid, promotional, dated, and dated but expired
    note,       \* credit_notes rows
    invoice,    \* invoices rows
    drawn,      \* per invoice: drain transactions, and credit_note_applications
    books,      \* Customer Credit, and Accounts Receivable by invoice
    captured,   \* gateway: recharges captured, and the keys it remembers
    keys,       \* wallet_transactions.idempotency_key
    credited,   \* auto_recharge rows
    actor,      \* each actor's program counter, what it holds, and its postings
    topUps,     \* top-ups by hand so far
    faults,     \* deaths and failed statements so far
    lapses      \* keys forgotten so far

vars == <<wallet, residue, note, invoice, drawn, books, captured, keys, credited,
          actor, topUps, faults, lapses>>
store == <<wallet, residue>>
recharges == <<captured, keys, credited>>
bounds == <<topUps, faults, lapses>>

Leg == [invoice : Invoices \cup {None}, amount : Int]

\* seen: the wallet balance a recharge read.  paid: the invoice's in-memory
\* AmountPaid.
Actor == [pc : {"idle", "receivable", "lookup", "drain", "persist", "credits", "topUp", "charge",
                "recharge", "close", "approve", "reject", "void"},
          invoice : Invoices \cup {None}, note : Notes \cup {None},
          source : {"paid", "promo", "dated"}, seen : Nat, paid : 0..Total, todo : Seq(Leg)]

Idle == [pc |-> "idle", invoice |-> None, note |-> None, source |-> "paid",
         seen |-> 0, paid |-> 0, todo |-> <<>>]

Init ==
    /\ wallet = [balance |-> 0, closed |-> FALSE]
    /\ residue = [paid |-> 0, promo |-> 0, dated |-> 0, lapsed |-> 0]
    /\ note = [n \in Notes |-> [status |-> None, balance |-> 0, due |-> FALSE]]
    /\ invoice = [i \in Invoices |-> [status |-> None, amountPaid |-> 0, creditApplied |-> 0]]
    /\ drawn = [i \in Invoices |-> [wallet |-> 0, credit |-> 0]]
    /\ books = [credit |-> 0, receivable |-> [i \in Invoices |-> 0]]
    /\ captured = [count |-> 0, known |-> {}] /\ keys = {} /\ credited = 0
    /\ actor = [a \in Actors |-> Idle]
    /\ topUps = 0 /\ faults = 0 /\ lapses = 0

----------------------------------------------------------------------------

Least(x, y) == IF x <= y THEN x ELSE y
Total4(r) == r.paid + r.promo + r.dated + r.lapsed
SumOver(f) == FoldFunction(+, 0, f)

Quiet == \A a \in Actors : actor[a] = Idle
At(a, pc) == actor[a].pc = pc /\ actor[a].todo = <<>>

Done(a) == actor' = [actor EXCEPT ![a] = Idle]
Goto(a, pc) == actor' = [actor EXCEPT ![a].pc = pc]
PostAndEnd(a, legs) == actor' = [actor EXCEPT ![a] = [Idle EXCEPT !.todo = legs]]

Credit(amount) == [invoice |-> None, amount |-> amount]
\* A leg DR Customer Credit / CR Accounts Receivable.
Settle(i, amount) == [invoice |-> i, amount |-> -amount]

\* A posting runs; a posting fails and is logged.
Post(a) ==
    LET leg == Head(actor[a].todo) IN
    /\ actor[a].todo # <<>>
    /\ books' = [credit |-> books.credit + leg.amount,
                 receivable |-> [i \in Invoices |->
                     books.receivable[i] + IF i = leg.invoice THEN leg.amount ELSE 0]]
    /\ actor' = [actor EXCEPT ![a].todo = Tail(@)]
    /\ UNCHANGED <<store, note, invoice, drawn, recharges, bounds>>

LosePosting(a) ==
    /\ actor[a].todo # <<>> /\ faults < MaxFaults
    /\ faults' = faults + 1
    /\ actor' = [actor EXCEPT ![a].todo = Tail(@)]
    /\ UNCHANGED <<store, note, invoice, drawn, books, recharges, topUps, lapses>>

Crash(a) ==
    /\ actor[a] # Idle /\ faults < MaxFaults
    /\ faults' = faults + 1
    /\ Done(a)
    /\ UNCHANGED <<store, note, invoice, drawn, books, recharges, topUps, lapses>>

----------------------------------------------------------------------------
(* Generating an invoice: the row, its receivable, the wallet, the credit. *)

CreateInvoice(a, i) ==
    /\ At(a, "idle")
    /\ invoice[i].status = None
    /\ invoice' = [invoice EXCEPT ![i].status = "open"]
    /\ actor' = [actor EXCEPT ![a] = [Idle EXCEPT !.pc = "receivable", !.invoice = i]]
    /\ UNCHANGED <<store, note, drawn, books, recharges, bounds>>

RecordInvoiceLeg(a) ==
    LET i == actor[a].invoice IN
    /\ At(a, "receivable")
    /\ books' = [books EXCEPT !.receivable[i] = @ + Total]
    /\ Goto(a, "lookup")
    /\ UNCHANGED <<store, note, invoice, drawn, recharges, bounds>>

\* The lookup sees open wallets only, and takes no lock.
LookUpWallet(a) ==
    /\ At(a, "lookup")
    /\ Goto(a, IF wallet.closed \/ wallet.balance = 0 THEN "credits" ELSE "drain")
    /\ UNCHANGED <<store, note, invoice, drawn, books, recharges, bounds>>

\* Mutant: a top-up is not clamped to what remains of it.
DrainOverdraws(a) ==
    /\ At(a, "drain")
    /\ residue' = [residue EXCEPT !.paid = @ - Total]
    /\ wallet' = [wallet EXCEPT !.balance = @ - Total]
    /\ drawn' = [drawn EXCEPT ![actor[a].invoice].wallet = @ + Total]
    /\ actor' = [actor EXCEPT ![a].pc = "persist", ![a].paid = Total,
                              ![a].todo = <<Settle(actor[a].invoice, Total)>>]
    /\ UNCHANGED <<note, invoice, books, recharges, bounds>>

\* Residue that has a date goes first, unless the date has passed; the rest by age,
\* which is not modelled: any split of paid and promotional residue.
Drain(a) ==
    LET i == actor[a].invoice
        taken == Least(Total, residue.paid + residue.promo + residue.dated)
        dated == Least(taken, residue.dated)
    IN
    /\ At(a, "drain")
    /\ IF wallet.balance = 0 \/ taken = 0
       THEN Goto(a, "credits") /\ UNCHANGED <<store, drawn>>
       ELSE /\ \E promo \in 0..Least(taken - dated, residue.promo) :
                  /\ taken - dated - promo <= residue.paid
                  /\ residue' = [residue EXCEPT !.dated = @ - dated, !.promo = @ - promo,
                                                !.paid = @ - (taken - dated - promo)]
            /\ wallet' = [wallet EXCEPT !.balance = @ - taken]
            /\ drawn' = [drawn EXCEPT ![i].wallet = @ + taken]
            /\ actor' = [actor EXCEPT ![a].pc = "persist", ![a].paid = taken,
                                      ![a].todo = <<Settle(i, taken)>>]
    /\ UNCHANGED <<note, invoice, books, recharges, bounds>>

\* Mutant: paid only when more than all is covered.
CoveredStrictly(owed, amount) == IF amount > owed THEN "paid" ELSE "open"

Covered(owed, amount) == IF amount >= owed THEN "paid" ELSE "open"
GoOnToCredits(a) == IF actor[a].paid < Total THEN Goto(a, "credits") ELSE Done(a)

\* InvoiceRepo.Update writes the whole row from memory.
PersistDrain(a) ==
    /\ At(a, "persist")
    /\ invoice' = [invoice EXCEPT ![actor[a].invoice] =
           [status |-> Covered(Total, actor[a].paid), amountPaid |-> actor[a].paid,
            creditApplied |-> 0]]
    /\ GoOnToCredits(a)
    /\ UNCHANGED <<store, note, drawn, books, recharges, bounds>>

\* The lookup, the drain or the update fails, which is only logged.
StatementFails(a) ==
    /\ At(a, "lookup") \/ At(a, "drain") \/ At(a, "persist")
    /\ faults < MaxFaults
    /\ faults' = faults + 1
    /\ GoOnToCredits(a)
    /\ UNCHANGED <<store, note, invoice, drawn, books, recharges, topUps, lapses>>

Spendable(n) == IF note[n].status = "issued" THEN note[n].balance ELSE 0

\* Notes are drawn down one after the other, oldest first (their order is not
\* modelled), until all that is owed is covered or no note is left: all but one of
\* the notes drawn from are used up.
ApplyAdjustmentCredits(a) ==
    LET i == actor[a].invoice
        owed == Total - actor[a].paid
        available == [n \in Notes |-> Spendable(n)]
    IN
    /\ At(a, "credits")
    /\ \/ /\ \A n \in Notes : available[n] = 0
          /\ Done(a) /\ UNCHANGED <<note, invoice, drawn>>
       \/ \E from \in [Notes -> 0..NoteAmount], applied \in 1..owed :
          /\ SumOver(from) = applied
          /\ \A n \in Notes : from[n] <= available[n]
          /\ applied = owed \/ from = available
          /\ Cardinality({n \in Notes : from[n] \notin {0, available[n]}}) <= 1
          /\ note' = [n \in Notes |->
                 [note[n] EXCEPT !.balance = @ - from[n],
                                 !.status = IF from[n] > 0 /\ from[n] = available[n]
                                            THEN "used" ELSE @]]
          /\ invoice' = [invoice EXCEPT ![i].creditApplied = applied,
                                        ![i].status = IF applied >= owed THEN "paid" ELSE @]
          /\ drawn' = [drawn EXCEPT ![i].credit = @ + applied]
          /\ PostAndEnd(a, <<Settle(i, applied)>>)
    /\ UNCHANGED <<store, books, recharges, bounds>>

----------------------------------------------------------------------------
(* The wallet.                                                             *)

TopUp(a, source) ==
    /\ At(a, "idle") /\ topUps < MaxTopUps
    /\ ~wallet.closed
    /\ topUps' = topUps + 1
    /\ actor' = [actor EXCEPT ![a] = [Idle EXCEPT !.pc = "topUp", !.source = source]]
    /\ UNCHANGED <<store, note, invoice, drawn, books, recharges, faults, lapses>>

Received(source, amount) ==
    /\ wallet' = [wallet EXCEPT !.balance = @ + amount]
    /\ residue' = CASE source = "paid"  -> [residue EXCEPT !.paid = @ + amount]
                    [] source = "promo" -> [residue EXCEPT !.promo = @ + amount]
                    [] source = "dated" -> [residue EXCEPT !.dated = @ + amount]

AddTopUp(a) ==
    /\ At(a, "topUp")
    /\ Received(actor[a].source, Grant)
    /\ PostAndEnd(a, <<Credit(Grant)>>)
    /\ UNCHANGED <<note, invoice, drawn, books, recharges, bounds>>

\* The sweep lists open wallets below their threshold ...
ListDueForRecharge(a) ==
    /\ At(a, "idle")
    /\ ~wallet.closed /\ wallet.balance < Threshold
    /\ actor' = [actor EXCEPT ![a] = [Idle EXCEPT !.pc = "charge", !.seen = wallet.balance]]
    /\ UNCHANGED <<store, note, invoice, drawn, books, recharges, bounds>>

\* ... and charges the saved card under a key made of the wallet and the balance
\* read: the gateway captures, or replays its answer to a key it remembers.
Capture(key) == captured' = [count |-> captured.count + IF key \in captured.known THEN 0 ELSE 1,
                             known |-> captured.known \cup {key}]

ChargeSavedPaymentMethod(a) ==
    /\ At(a, "charge")
    /\ \/ Capture(actor[a].seen) /\ Goto(a, "recharge")
       \/ actor[a].seen \notin captured.known /\ Done(a) /\ UNCHANGED captured \* declined
    /\ UNCHANGED <<store, note, invoice, drawn, books, keys, credited, bounds>>

ChargeUnanswered(a) ==
    /\ At(a, "charge") /\ faults < MaxFaults
    /\ faults' = faults + 1
    /\ Capture(actor[a].seen)
    /\ Done(a)
    /\ UNCHANGED <<store, note, invoice, drawn, books, keys, credited, topUps, lapses>>

\* The gateway forgets keys after a day.
ForgetKey(key) ==
    /\ lapses < MaxLapses
    /\ lapses' = lapses + 1
    /\ captured' = [captured EXCEPT !.known = @ \ {key}]
    /\ UNCHANGED <<store, note, invoice, drawn, books, keys, credited, actor, topUps, faults>>

\* Mutant: the top-up of a recharge carries no key.
CreditUnkeyed(a) ==
    /\ At(a, "recharge")
    /\ Received("paid", Recharge)
    /\ credited' = credited + 1
    /\ PostAndEnd(a, <<Credit(Recharge)>>)
    /\ UNCHANGED <<note, invoice, drawn, books, captured, keys, bounds>>

\* The top-up is keyed too, so that a concurrent sweep credits nothing.
CreditRecharge(a) ==
    LET key == actor[a].seen IN
    /\ At(a, "recharge")
    /\ IF key \in keys
       THEN Done(a) /\ UNCHANGED <<store, keys, credited>>
       ELSE /\ Received("paid", Recharge)
            /\ keys' = keys \cup {key} /\ credited' = credited + 1
            /\ PostAndEnd(a, <<Credit(Recharge)>>)
    /\ UNCHANGED <<note, invoice, drawn, books, captured, bounds>>

CloseWallet(a) ==
    /\ At(a, "idle") /\ "close" \in Requests
    /\ ~wallet.closed
    /\ actor' = [actor EXCEPT ![a] = [Idle EXCEPT !.pc = "close"]]
    /\ UNCHANGED <<store, note, invoice, drawn, books, recharges, bounds>>

\* Mutant: closing leaves the residue of the top-ups as it is.
CloseKeepsResidue(a) ==
    LET forfeited == residue.promo + residue.dated + residue.lapsed IN
    /\ At(a, "close")
    /\ ~wallet.closed
    /\ wallet' = [balance |-> 0, closed |-> TRUE]
    /\ PostAndEnd(a, <<Credit(-residue.paid), Credit(-forfeited)>>)
    /\ UNCHANGED <<residue, note, invoice, drawn, books, recharges, bounds>>

\* What was paid is refunded, the rest forfeited: a posting each.
Close(a) ==
    LET forfeited == residue.promo + residue.dated + residue.lapsed IN
    /\ At(a, "close")
    /\ IF wallet.closed
       THEN Done(a) /\ UNCHANGED store
       ELSE /\ wallet' = [balance |-> 0, closed |-> TRUE]
            /\ residue' = [paid |-> 0, promo |-> 0, dated |-> 0, lapsed |-> 0]
            /\ PostAndEnd(a, <<Credit(-residue.paid), Credit(-forfeited)>>)
    /\ UNCHANGED <<note, invoice, drawn, books, recharges, bounds>>

\* The date of the dated residue passes.
Lapse ==
    /\ residue.dated > 0
    /\ residue' = [residue EXCEPT !.dated = 0, !.lapsed = @ + residue.dated]
    /\ UNCHANGED <<wallet, note, invoice, drawn, books, recharges, actor, bounds>>

ExpireOverdue(a) ==
    /\ At(a, "idle")
    /\ residue.lapsed > 0
    /\ residue' = [residue EXCEPT !.lapsed = 0]
    /\ wallet' = [wallet EXCEPT !.balance = IF @ < residue.lapsed THEN 0 ELSE @ - residue.lapsed]
    /\ PostAndEnd(a, <<Credit(-residue.lapsed)>>)
    /\ UNCHANGED <<note, invoice, drawn, books, recharges, bounds>>

----------------------------------------------------------------------------
(* Adjustment credit notes.                                                *)

\* A checker's note is issued at once, a maker's waits for approval.
CreateNote(a, n) ==
    /\ At(a, "idle")
    /\ note[n].status = None
    /\ \E status \in {"issued"} \cup IF "maker" \in Requests THEN {"pending"} ELSE {} :
           /\ note' = [note EXCEPT ![n].status = status, ![n].balance = NoteAmount]
           /\ PostAndEnd(a, IF status = "issued" THEN <<Credit(NoteAmount)>> ELSE <<>>)
    /\ UNCHANGED <<store, invoice, drawn, books, recharges, bounds>>

\* Approve, Reject and Void load the note and check it, and the update that
\* follows checks it again.
Load(a, n, op) ==
    /\ At(a, "idle") /\ op \in Requests
    /\ note[n].status = IF op = "void" THEN "issued" ELSE "pending"
    /\ actor' = [actor EXCEPT ![a] = [Idle EXCEPT !.pc = op, !.note = n]]
    /\ UNCHANGED <<store, note, invoice, drawn, books, recharges, bounds>>

\* Mutant: the update does not check again what was loaded.
ApproveLoaded(a) ==
    /\ At(a, "approve")
    /\ note' = [note EXCEPT ![actor[a].note].status = "issued"]
    /\ PostAndEnd(a, <<Credit(NoteAmount)>>)
    /\ UNCHANGED <<store, invoice, drawn, books, recharges, bounds>>

Approve(a) ==
    LET n == actor[a].note IN
    /\ At(a, "approve")
    /\ IF note[n].status = "pending"
       THEN /\ note' = [note EXCEPT ![n].status = "issued"]
            /\ PostAndEnd(a, <<Credit(NoteAmount)>>)
       ELSE Done(a) /\ UNCHANGED note
    /\ UNCHANGED <<store, invoice, drawn, books, recharges, bounds>>

Reject(a) ==
    LET n == actor[a].note IN
    /\ At(a, "reject")
    /\ note' = [note EXCEPT ![n].status = IF @ = "pending" THEN "rejected" ELSE @]
    /\ Done(a)
    /\ UNCHANGED <<store, invoice, drawn, books, recharges, bounds>>

\* Mutant: what is written off is the amount of the note, not what is left of it.
WriteOffInFull(a, n, status) ==
    /\ note' = [note EXCEPT ![n].status = status, ![n].balance = 0]
    /\ PostAndEnd(a, <<Credit(-NoteAmount)>>)

WriteOff(a, n, status) ==
    /\ note' = [note EXCEPT ![n].status = status, ![n].balance = 0]
    /\ PostAndEnd(a, <<Credit(-note[n].balance)>>)

VoidAdjustmentCredit(a) ==
    LET n == actor[a].note IN
    /\ At(a, "void")
    /\ IF Spendable(n) > 0 THEN WriteOff(a, n, "void") ELSE Done(a) /\ UNCHANGED note
    /\ UNCHANGED <<store, invoice, drawn, books, recharges, bounds>>

\* The expiry date of a note passes.
FallDue(n) ==
    /\ note[n].status # None /\ ~note[n].due
    /\ note' = [note EXCEPT ![n].due = TRUE]
    /\ UNCHANGED <<store, invoice, drawn, books, recharges, actor, bounds>>

ClaimExpiredCredit(a, n) ==
    /\ At(a, "idle")
    /\ Spendable(n) > 0 /\ note[n].due
    /\ WriteOff(a, n, "expired")
    /\ UNCHANGED <<store, invoice, drawn, books, recharges, bounds>>

Next ==
    \/ Lapse
    \/ \E n \in Notes : FallDue(n)
    \/ \E key \in captured.known : ForgetKey(key)
    \/ \E a \in Actors :
        \/ Post(a) \/ LosePosting(a) \/ Crash(a)
        \/ \E i \in Invoices : CreateInvoice(a, i)
        \/ RecordInvoiceLeg(a) \/ LookUpWallet(a) \/ Drain(a) \/ PersistDrain(a)
        \/ StatementFails(a) \/ ApplyAdjustmentCredits(a)
        \/ \E s \in Sources : TopUp(a, s)
        \/ AddTopUp(a)
        \/ ListDueForRecharge(a) \/ ChargeSavedPaymentMethod(a) \/ ChargeUnanswered(a)
        \/ CreditRecharge(a)
        \/ CloseWallet(a) \/ Close(a) \/ ExpireOverdue(a)
        \/ \E n \in Notes : \/ CreateNote(a, n) \/ ClaimExpiredCredit(a, n)
                            \/ \E op \in {"approve", "reject", "void"} : Load(a, n, op)
        \/ Approve(a) \/ Reject(a) \/ VoidAdjustmentCredit(a)

Spec == Init /\ [][Next]_vars

----------------------------------------------------------------------------
(* Properties.                                                             *)

\* Type invariant over the rows, the accounts and the actors.
TypeOK ==
    /\ wallet \in [balance : Nat, closed : BOOLEAN]
    /\ residue \in [paid : Nat, promo : Nat, dated : Nat, lapsed : Nat]
    /\ note \in [Notes -> [status : {None, "pending", "issued", "used", "expired", "void",
                                     "rejected"},
                           balance : 0..NoteAmount, due : BOOLEAN]]
    /\ invoice \in [Invoices -> [status : {None, "open", "paid"},
                                 amountPaid : 0..Total, creditApplied : 0..Total]]
    /\ drawn \in [Invoices -> [wallet : Nat, credit : Nat]]
    /\ books \in [credit : Int, receivable : [Invoices -> Int]]
    /\ captured \in [count : Nat, known : SUBSET Nat]
    /\ keys \subseteq Nat /\ credited \in Nat
    /\ actor \in [Actors -> Actor]
    /\ topUps \in Nat /\ faults \in Nat /\ lapses \in Nat

\* A wallet's balance is what is left of its top-ups, whatever tops it up, drains,
\* expires and closes it at the same time: each of them moves both, in one
\* transaction on the locked row.
WalletIsItsTopUps == wallet.balance = Total4(residue)

\* Once every posting has run, Customer Credit is what customers can still draw:
\* the wallet, and the issued notes.
LiabilityMatches ==
    Quiet /\ faults = 0 =>
        books.credit = wallet.balance + SumOver([n \in Notes |-> Spendable(n)])

\* Once every posting has run, an invoice says what was drawn for it, no more than
\* its total; its receivable is the rest; and it is paid if nothing is left.
InvoiceOwesTheRest ==
    Quiet /\ faults = 0 => \A i \in Invoices : invoice[i].status # None =>
        LET rest == Total - drawn[i].wallet - drawn[i].credit IN
        /\ invoice[i].amountPaid = drawn[i].wallet
        /\ invoice[i].creditApplied = drawn[i].credit
        /\ books.receivable[i] = rest
        /\ rest >= 0
        /\ invoice[i].status = "paid" <=> rest = 0

\* The keys of recharges: the wallet is never credited for more recharges than the
\* card was charged, and in the end for fewer only because of a failure or of a key
\* the gateway forgot, however many sweeps run at once.
RechargedOnce ==
    /\ credited <= captured.count
    /\ Quiet => captured.count - credited <= faults + lapses

\* A note that was used, expired, voided or rejected stays what it is, whatever
\* approval, rejection, void or sweep is still on its way.
NoteIsFinal ==
    [][\A n \in Notes : note[n].status \in {"used", "expired", "void", "rejected"} =>
           /\ note'[n].status = note[n].status
           /\ note'[n].balance = note[n].balance]_vars
=============================================================================
