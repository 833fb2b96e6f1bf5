CONSTANTS
  Threads = {t1, t2}
  Buffers = {1, 2, 3, 4, 5}
  Null = Null
  SuperSize = 1
  IncGrow = 1
  Low32 <- DistinctLow
SPECIFICATION Spec
ACTION_CONSTRAINT LowestFirst
INVARIANTS
  TypeOK
  ExclusiveOwnership
  AssertsHold
PROPERTIES
  ImplementsThreadHeap
