SPECIFICATION Spec
CONSTANTS
  c1 = c1
  c2 = c2
  c3 = c3
  t1 = t1
  t2 = t2
  t3 = t3
  Resources = 3
  History = 1
  Reserve = 1
  Frames = 1
  Consumers = {c1}
  Threads = {t1, t2}
  Owner <- TwoThreadsOfOne
  MaxGeneration = 3
INVARIANTS TypeOK LeaseStable DescriptorAgrees ClaimsTracked ClaimOwned
PROPERTIES ImplementsStore
CHECK_DEADLOCK FALSE
