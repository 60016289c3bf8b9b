CONSTANTS
  Total = 5
  Tax = 1
  Credit = 1
  Wallet = 1
  Recognized = 0
  OtherBalances = {0, 3, 5}
  t1 = t1
  t2 = t2
  p1 = p1
  p2 = p2
  Threads <- TwoThreads
  Payments <- TwoPayments
  Copies = 1
  Receipts <- NoReceipts
  Stimuli = {"writeOff"}
  Pace = "any"
  MaxFaults = 1
SPECIFICATION Spec
SYMMETRY Symmetry
INVARIANTS CashBookedOnce WriteOffRecoveredOnce PaidDriftIsReported
PROPERTIES CashAlternates WriteOffAlternates
CHECK_DEADLOCK FALSE
