CONSTANTS
  a1 = a1
  a2 = a2
  n1 = n1
  n2 = n2
  Actors <- TwoActors
  Notes <- TwoNotes
  Paid = 3
  Tax = 1
  Amounts = {1, 2, 3}
  MaxFaults = 1
SPECIFICATION Spec
CHECK_DEADLOCK FALSE
SYMMETRY RefundsSymmetry
INVARIANTS TypeOK RefundsWithinPaid RefundedOnce NoteFollowsGateway TaxAddsUp
