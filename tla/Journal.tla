------------------------------ MODULE Journal ------------------------------
(***************************************************************************)
(* The double-entry journal of one invoice, as the settlement services     *)
(* write it (internal/service/ledger.go) and as the PostgreSQL ledger      *)
(* stores it (internal/adapter/db/ledger_repository.go).                   *)
(*                                                                         *)
(* A leg is one row of ledger_transactions.  The partial unique index on   *)
(* (reference_id, code, occurrence) and ON CONFLICT DO NOTHING make a leg  *)
(* of one invoice a function of its code and its occurrence, so a journal  *)
(* maps each code to the amounts of its posted occurrences.                *)
(***************************************************************************)
EXTENDS Integers, FiniteSets, FiniteSetsExt

CONSTANTS
    Total,       \* what the invoice bills, in minor units
    Tax,         \* the part of Total that is tax
    Credit,      \* account credit applied when the invoice was generated
    Wallet,      \* prepaid wallet money drained when it was generated
    Recognized,  \* pre-tax revenue already recognized; all of it for a one-off
    OtherBalances \* what other invoices may have in the same AR or Cash account

ASSUME AmountsAssumption ==
    /\ Total \in Nat \ {0}
    /\ Tax \in 0..Total
    /\ Credit \in Nat /\ Wallet \in Nat /\ Credit + Wallet < Total
    /\ Recognized \in 0..(Total - Tax)
    /\ OtherBalances \subseteq Nat

PreTax == Total - Tax
Deferred == PreTax - Recognized

(***************************************************************************)
(* The accounts each code debits and credits.  "Deferred" stands for the   *)
(* revenue account the invoice was booked to, which is Revenue when there  *)
(* is no subscription.                                                     *)
(***************************************************************************)
Entry ==
    [ invoice         |-> [dr |-> "AR",       cr |-> "Deferred"],   \* 1
      payment         |-> [dr |-> "Cash",     cr |-> "AR"],         \* 3
      tax             |-> [dr |-> "Deferred", cr |-> "Tax"],        \* 6
      credit          |-> [dr |-> "Credit",   cr |-> "AR"],         \* 7
      tds             |-> [dr |-> "TDS",      cr |-> "AR"],         \* 10
      drain           |-> [dr |-> "Credit",   cr |-> "AR"],         \* 12
      reversal        |-> [dr |-> "AR",       cr |-> "Cash"],       \* 19
      writeOff        |-> [dr |-> "Deferred", cr |-> "AR"],         \* 22
      writeOffTax     |-> [dr |-> "Tax",      cr |-> "AR"],         \* 23
      recovery        |-> [dr |-> "AR",       cr |-> "Deferred"],   \* 24
      recoveryTax     |-> [dr |-> "AR",       cr |-> "Tax"],        \* 25
      badDebt         |-> [dr |-> "BadDebt",  cr |-> "AR"],         \* 26
      badDebtRecovery |-> [dr |-> "AR",       cr |-> "BadDebt"] ]   \* 27

Codes == DOMAIN Entry

\* A leg to post.
Legs == [code : Codes, occ : Nat, amount : Nat]
Leg(code, occ, amount) == [code |-> code, occ |-> occ, amount |-> amount]

NoLegs == [o \in {} |-> 0]

IsJournal(j) ==
    /\ j = [c \in Codes |-> [o \in DOMAIN j[c] |-> j[c][o]]]
    /\ \A c \in Codes : /\ IsFiniteSet(DOMAIN j[c])
                        /\ \A o \in DOMAIN j[c] : o \in Nat /\ j[c][o] \in Nat

----------------------------------------------------------------------------
(* Writing: applyLedgerTx inserts a leg unless its key is taken, and every *)
(* leg of one CreateTransactions call commits or none does.                *)

Post(j, legs) ==
    [c \in Codes |->
        LET new == {l \in legs : l.code = c}
        IN  [o \in DOMAIN j[c] \cup {l.occ : l \in new} |->
                IF o \in DOMAIN j[c] THEN j[c][o]
                ELSE (CHOOSE l \in new : l.occ = o).amount]]

(* Reading: CountTransactionsByReferenceAndCode, the highest-occurrence    *)
(* leg of GetLatestTransactionByReferenceAndCode, and the reconciler's     *)
(* SUM(amount).                                                            *)

Count(j, c) == Cardinality(DOMAIN j[c])

Latest(j, c) == CHOOSE o \in DOMAIN j[c] : \A p \in DOMAIN j[c] : p <= o

Posted(j, c) == SumFunction(j[c])

\* The account's balance, debits less credits.
Balance(j, account) ==
    LET posted == [c \in Codes |-> Posted(j, c)]
    IN  SumFunctionOnSet(posted, {c \in Codes : Entry[c].dr = account})
      - SumFunctionOnSet(posted, {c \in Codes : Entry[c].cr = account})

----------------------------------------------------------------------------
(* The legs each service call computes.                                    *)

\* The legs of a freshly generated invoice: RecordInvoice, then the wallet
\* drain and the credit application of generateInvoice.
IssuedJournal ==
    LET Once(amount) == IF amount > 0 THEN [o \in {0} |-> amount] ELSE NoLegs
    IN  [c \in Codes |->
            CASE c = "invoice" -> Once(Total)
              [] c = "tax"     -> Once(Tax)
              [] c = "credit"  -> Once(Credit)
              [] c = "drain"   -> Once(Wallet)
              [] OTHER         -> NoLegs]

\* Legs that move money: a zero leg is never built.
Moving(legs) == {l \in legs : l.amount > 0}

\* Variants with a plausible bug carry the suffix of what they get wrong.
OccurrenceAlwaysZero(j) == 0
OccurrenceCountsPayments(j) == Count(j, "payment")

\* RecordPaymentWithSettled: the TDS leg and the net cash leg, at the
\* occurrence given by the completed settle/reverse cycles.
PaymentOccurrence(j) == Count(j, "reversal")
TdsLegs(occ, tds) == Moving({Leg("tds", occ, tds)})
CashLegs(occ, tds, settled) ==
    Moving({Leg("payment", occ, Total - Credit - tds - settled)})

ReversalLegsNegated(j) ==
    {Leg("reversal", o, -j["payment"][o]) : o \in DOMAIN j["payment"]}
ReversalLegsOfTotal(j) ==
    IF DOMAIN j["payment"] = {} THEN {} ELSE {Leg("reversal", Latest(j, "payment"), Total)}

\* RecordPaymentReversal inverts the latest cash leg, at its occurrence.
ReversalLegs(j) ==
    IF DOMAIN j["payment"] = {} THEN {}
    ELSE LET o == Latest(j, "payment")
         IN  {Leg("reversal", o, j["payment"][o])}

\* LatestSettledCashAmount.
LatestCash(j) ==
    IF DOMAIN j["payment"] = {} THEN 0 ELSE j["payment"][Latest(j, "payment")]

WriteOffLegsWithoutDueCheck(j) ==
    LET occ == Count(j, "writeOff")
    IN  Moving({Leg("writeOff", occ, Deferred), Leg("badDebt", occ, Recognized),
                Leg("writeOffTax", occ, Tax)})

\* RecordInvoiceWriteOff: due only when every earlier write-off is recovered.
WriteOffLegs(j) ==
    LET occ == Count(j, "writeOff")
    IN  IF occ # Count(j, "recovery") THEN {}
        ELSE Moving({Leg("writeOff", occ, Deferred),
                     Leg("badDebt", occ, Recognized),
                     Leg("writeOffTax", occ, Tax)})

\* RecordWriteOffRecovery: inverts the latest leg of each write-off code.
RecoveryOf == [writeOff |-> "recovery", badDebt |-> "badDebtRecovery",
               writeOffTax |-> "recoveryTax"]
RecoveryLegsSkipBadDebt(j) ==
    {Leg(RecoveryOf[c], Count(j, "recovery"), j[c][Latest(j, c)]) :
        c \in {d \in {"writeOff", "writeOffTax"} : DOMAIN j[d] # {}}}
RecoveryLegsOffByOne(j) ==
    {Leg(RecoveryOf[c], Count(j, "writeOff"), j[c][Latest(j, c)]) :
        c \in {d \in DOMAIN RecoveryOf : DOMAIN j[d] # {}}}
RecoveryLegs(j) ==
    LET occ == Count(j, "recovery")
    IN  IF Count(j, "writeOff") <= occ THEN {}
        ELSE {Leg(RecoveryOf[c], occ, j[c][Latest(j, c)]) :
                c \in {d \in DOMAIN RecoveryOf : DOMAIN j[d] # {}}}

----------------------------------------------------------------------------
(* The occurrence discipline (design-ledger-occurrence.md) for a code b and *)
(* its inverse i, in a journal and the legs still to be posted to it.      *)

\* Inverses fill the occurrences 0, 1, ... without a gap and copy what they
\* invert; at most one booking is not inverted yet; and no pending leg can
\* ever take an occurrence further ahead.
Alternates(j, pending, b, i) ==
    LET n == Count(j, i)
    IN  /\ DOMAIN j[i] = 0..(n - 1)
        /\ DOMAIN j[b] = 0..(n - 1) \/ DOMAIN j[b] = 0..n
        /\ \A o \in DOMAIN j[i] : j[i][o] = j[b][o]
        /\ \A l \in pending :
            /\ l.code = b => l.occ \in 0..n
            /\ l.code = i => l.occ \in DOMAIN j[b] /\ l.amount = j[b][l.occ]

----------------------------------------------------------------------------
(* The reconciler's checks (reconciliation.go reports each as a            *)
(* discrepancy).  All but the last are of one invoice.                     *)

InvoiceMismatch(j) == Posted(j, "invoice") # Total

PaymentMismatchGross(j, status, amountPaid) ==
    /\ status = "paid"
    /\ Posted(j, "payment") + Posted(j, "tds") + Posted(j, "drain") # amountPaid

PaymentMismatch(j, status, amountPaid) ==
    /\ status = "paid"
    /\ Posted(j, "payment") + Posted(j, "tds") + Posted(j, "drain")
         - Posted(j, "reversal") # amountPaid

WriteOffMismatch(j, status) ==
    /\ status = "uncollectible"
    /\ Posted(j, "writeOff") + Posted(j, "writeOffTax") + Posted(j, "badDebt")
         # Total

TaxMismatch(j) == Posted(j, "tax") # Tax

CreditMismatch(j) == Posted(j, "credit") # Credit

AbnormalSignOfCashOnly(j, others) == Balance(j, "Cash") + others.cash < 0

\* Trial balance: a receivable or cash balance on the credit side.  The receivable
\* account is the customer's and the cash account the tenant's, so what other invoices
\* have there hides what is wrong with this one.
Others == [receivable : OtherBalances, cash : OtherBalances]
AbnormalSign(j, others) ==
    \/ Balance(j, "AR") + others.receivable < 0
    \/ Balance(j, "Cash") + others.cash < 0
=============================================================================
