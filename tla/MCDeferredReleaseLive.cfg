SPECIFICATION FairSpec
CONSTANTS
  H = 1
  MaxTimelines = 1
  Offers = TRUE
  MaxValue = 1
  MaxFaults = 0
PROPERTIES CreditReturns DrainEnds
CHECK_DEADLOCK FALSE
