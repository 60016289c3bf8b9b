CONSTANTS
  r1 = r1
  r2 = r2
  Runners <- TwoRunners
  Mandates = {FALSE, TRUE}
  MaxRetries = 2
  MaxAttempts = 3
  Ages = {FALSE, TRUE}
  Stimuli = {"debit", "customer", "return"}
  MaxClicks = 0
  Overrun = FALSE
  Faults = {"infra", "api", "settle", "lookup"}
  MaxFaults = 2
SPECIFICATION FairSpec
INVARIANTS ChargedIsNotGivenUp GivingUpIsComplete
PROPERTIES DunningEnds
CHECK_DEADLOCK FALSE
