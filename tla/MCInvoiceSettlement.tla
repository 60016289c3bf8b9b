------------------------ MODULE MCInvoiceSettlement ------------------------
(* Small instances of InvoiceSettlement for TLC. *)
EXTENDS InvoiceSettlement, TLC

CONSTANTS t1, t2, p1, p2

OneThread == {t1}
TwoThreads == {t1, t2}
OnePayment == {p1}
TwoPayments == {p1, p2}
NoPayments == {}
Symmetry == Permutations(Threads) \cup Permutations(Payments)

NoReceipts == {}
NoStimuli == {}
DeskReceipts == {[amount |-> 4, tds |-> 0], [amount |-> 2, tds |-> 1], [amount |-> 0, tds |-> 3]}
=============================================================================
