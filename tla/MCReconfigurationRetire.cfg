SPECIFICATION Spec
CONSTANTS
  Capacity = 3
  History = 1
  Reserve = 1
  Allocated = 1
  Fixed = 0
  Budget = 3
  MaxIncarnations = 1
  LastIncarnation = 2
  LastAllocation = 3
  Frames = 1
  ClaimBytes = 1
  AllocationBytes = 1
  Asynchronous = {1}
  MaxCursor = 1
  Written = {1}
INVARIANTS ArenaTypeOK MappedCharged UseCharged LedgerMatches ShutdownReadySafe OfferFitsSettled
