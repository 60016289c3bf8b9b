CONSTANTS
  Total = 4
  Tax = 1
  Credit = 0
  Wallet = 0
  Recognized = 1
  OtherBalances = {0}
  t1 = t1
  t2 = t2
  p1 = p1
  p2 = p2
  Threads <- OneThread
  Payments <- NoPayments
  Copies = 1
  Receipts <- DeskReceipts
  Stimuli = {"writeOff", "void"}
  Pace = "prompt"
  MaxFaults = 0
SPECIFICATION Spec
INVARIANTS ReceivableMatches
CHECK_DEADLOCK FALSE
