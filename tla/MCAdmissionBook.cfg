SPECIFICATION BookSpec
CONSTANTS
  Capacity = 5
  History = 1
  Reserve = 1
  Allocated = 2
  Fixed = 1
  Budget = 7
  MaxIncarnations = 2
  LastIncarnation = 5
  LastAllocation = 5
INVARIANTS BookTypeOK ReserveKept CountersAgree WithinBudget RetryFits
PROPERTIES IdsNeverReused
CHECK_DEADLOCK FALSE
