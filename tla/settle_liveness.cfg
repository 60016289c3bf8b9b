CONSTANTS
  Total = 5
  Tax = 1
  Credit = 1
  Wallet = 0
  Recognized = 0
  OtherBalances = {0}
  t1 = t1
  t2 = t2
  p1 = p1
  p2 = p2
  Threads <- TwoThreads
  Payments <- OnePayment
  Copies = 1
  Receipts <- NoReceipts
  Stimuli = {"writeOff", "void", "poll", "stalePoll"}
  Pace = "prompt"
  MaxFaults = 2
SPECIFICATION FairSpec
PROPERTIES PaymentSettles
CHECK_DEADLOCK FALSE
