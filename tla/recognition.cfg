CONSTANTS
  a1 = a1
  a2 = a2
  s1 = s1
  s2 = s2
  Actors <- TwoActors
  Schedules <- TwoSchedules
  Months = 2
  Net = 3
  Credits = {1, 3}
  Lives <- Invoices
  MaxFaults = 1
SPECIFICATION Spec
CHECK_DEADLOCK FALSE
SYMMETRY RecognitionSymmetry
INVARIANTS TypeOK DeferredMatches PostedMatchesEvents
PROPERTIES EventIsFinal
