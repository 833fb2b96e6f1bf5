CONSTANTS
  Threads = {t1, t2, t3, t4}
  Values = {v1, v2}
  Null = Null
  QueueSize = 3
SYMMETRY Symmetric
SPECIFICATION Spec
INVARIANTS
  SlotsAccounted
  Exclusion
PROPERTIES
  ImplementsFifo
