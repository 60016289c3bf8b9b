---------------------------- MODULE MCRecognition ----------------------------
(* Small instances of Recognition for TLC. *)
EXTENDS Recognition, TLC

CONSTANTS a1, a2, s1, s2

OneActor == {a1}
TwoActors == {a1, a2}
OneSchedule == {s1}
TwoSchedules == {s1, s2}
RefundedInvoice == {{"downgrade", "refund"}}
Invoices == {{"cancel", "downgrade", "refund"}, {"accrual", "writeOff"},
             {"return", "writeOff"}}
\* What DeferredRevenueMatches asks of them.
ASSUME InvoicesAreSeparate == Separate
RecognitionSymmetry == Permutations(Actors) \cup Permutations(Schedules)
=============================================================================
