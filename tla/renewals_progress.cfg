CONSTANTS
  a1 = a1
  a2 = a2
  Actors <- TwoActors
  Trials = {FALSE, TRUE}
  Interval = 2
  MaxNow = 3
  CouponPeriods = 2
  Requests = {"pause", "resume", "cancelNow", "cancelAtEnd", "reactivate", "extend", "prepay"}
  MaxRequests = 2
  Overrun = TRUE
  MaxFaults = 1
SPECIFICATION FairSpec
CHECK_DEADLOCK FALSE
PROPERTIES DueIsRenewed ScheduledPauseEnds
