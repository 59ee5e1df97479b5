SPECIFICATION Spec
CONSTANTS
  H = 1
  MaxTimelines = 1
  Offers = FALSE
  MaxValue = 2
  MaxFaults = 1
INVARIANTS ReleaseTypeOK FreshLease CallbacksBounded SleepIsWatched
PROPERTIES CreditFollowsCompletion QuarantineKept
CHECK_DEADLOCK FALSE
