CONSTANTS
  Threads = {t1, t2, t3}
  Producers = {t1}
  Buffers = {1, 2, 3, 4, 5, 6, 7}
  Null = Null
  SuperSize = 1
  IncGrow = 1
  Low32 <- DistinctLow
SPECIFICATION FairSpec
ACTION_CONSTRAINT ProducersAllocate
INVARIANTS
  ExclusiveOwnership
  HomePool
PROPERTIES
  PushOnly
  PushProgress
