CONSTANTS
  r1 = r1
  r2 = r2
  Runners <- TwoRunners
  Mandates = {FALSE, TRUE}
  MaxRetries = 2
  MaxAttempts = 3
  Ages = {FALSE, TRUE}
  Stimuli = {"customer", "debit", "operator", "void"}
  MaxClicks = 2
  Overrun = TRUE
  Faults = {"crash", "infra", "api", "settle", "ledger", "lookup"}
  MaxFaults = 2
SPECIFICATION Spec
SYMMETRY RunnerSymmetry
INVARIANTS TypeOK ChargedOnce MandateIsNotRetried
CHECK_DEADLOCK FALSE
