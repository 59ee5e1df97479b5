SPECIFICATION FairSpec
CONSTANTS
  Producer = producer
  Releasers = {r1}
  MaxCursor = 1
  MaxEpoch = 1
  Buffer = 1
  DrainBytes = 1
  Interests = {{"data"}, {"capacity"}}
PROPERTIES WaitReturns CancelReturns
