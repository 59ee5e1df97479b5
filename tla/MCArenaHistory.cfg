SPECIFICATION Spec
CONSTANTS
  c1 = c1
  c2 = c2
  c3 = c3
  t1 = t1
  t2 = t2
  t3 = t3
  Resources = 4
  History = 2
  Reserve = 1
  Frames = 1
  Consumers = {c1}
  Threads = {t1}
  Owner <- OneThread
  MaxGeneration = 5
INVARIANTS RingAdvertised HistoryRetained RingLeadsToHistory
CHECK_DEADLOCK FALSE
