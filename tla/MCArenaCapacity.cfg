SPECIFICATION QuietSpec
CONSTANTS
  c1 = c1
  c2 = c2
  c3 = c3
  t1 = t1
  t2 = t2
  t3 = t3
  Resources = 4
  History = 1
  Reserve = 1
  Frames = 1
  Consumers = {c1, c2, c3}
  Threads = {t1, t2, t3}
  Owner <- OneThreadEach
  MaxGeneration = 5
INVARIANT NeverDropped
SYMMETRY Symmetry
CHECK_DEADLOCK FALSE
