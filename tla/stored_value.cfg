CONSTANTS
  a1 = a1
  a2 = a2
  i1 = i1
  i2 = i2
  n1 = n1
  n2 = n2
  Actors <- TwoActors
  Invoices <- TwoInvoices
  Notes <- OneNote
  Total = 2
  NoteAmount = 2
  Grant = 1
  Sources = {"promo", "dated"}
  MaxTopUps = 1
  Threshold = 1
  Recharge = 1
  Requests = {"close", "approve", "reject", "void", "maker"}
  MaxFaults = 1
  MaxLapses = 1
SPECIFICATION Spec
CHECK_DEADLOCK FALSE
SYMMETRY StoreSymmetry
INVARIANTS TypeOK WalletIsItsTopUps LiabilityMatches InvoiceOwesTheRest RechargedOnce
PROPERTIES NoteIsFinal
