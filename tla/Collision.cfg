CONSTANTS
  Threads = {t1, t2, t3}
  Producers = {t1, t2}
  Buffers = {1, 2, 3, 4, 5, 6, 7}
  Null = Null
  SuperSize = 2
  IncGrow = 1
  Low32 <- CollidingLow
SPECIFICATION Spec
ACTION_CONSTRAINT ProducersAllocate
INVARIANT HomePool
