CONSTANTS
  Threads = {t1, t2}
  Producers = {t1}
  Buffers = {1, 2, 3, 4, 5, 6, 7, 8, 9, 10}
  Null = Null
  SuperSize = 2
  IncGrow = 2
  Low32 <- DistinctLow
SPECIFICATION FairSpec
ACTION_CONSTRAINT ProducersAllocate
PROPERTIES
  SentIsFrozen
  ImplementsThreadHeap
  CallsReturn
  CallsDrain
