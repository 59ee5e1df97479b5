SPECIFICATION Spec
CONSTANTS
  Producer = producer
  Releasers = {r1}
  MaxCursor = 1
  MaxEpoch = 1
  Buffer = 2
  DrainBytes = 1
  Interests = {{"data"}, {"capacity"}, {"data", "capacity"}}
INVARIANTS WaitTypeOK NoLostWake ChangedIsReal
