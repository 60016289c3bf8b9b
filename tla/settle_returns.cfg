CONSTANTS
  Total = 5
  Tax = 1
  Credit = 1
  Wallet = 1
  Recognized = 0
  OtherBalances = {0, 3}
  t1 = t1
  t2 = t2
  p1 = p1
  p2 = p2
  Threads <- TwoThreads
  Payments <- TwoPayments
  Copies = 2
  Receipts <- NoReceipts
  Stimuli = {"poll"}
  Pace = "prompt"
  MaxFaults = 0
SPECIFICATION Spec
SYMMETRY Symmetry
INVARIANTS TypeOK ReceivableMatches PaidIsFunded ReversedOncePerReturn NoFalseAlarm
CHECK_DEADLOCK FALSE
