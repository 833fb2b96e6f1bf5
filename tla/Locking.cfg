CONSTANTS
  PageSizes = {0, 8, 14}
  Requests = {0, 1, 2, 3, 4, 5}
  Memory = 28
  FIRSTPOOL = 1
  NPOOLS = 2
  IntBits = 4
  BatchOf <- Batch
  Padding = 2
  PoolMemory = 12
  NPools = 2
  Starts = {0, 1}
  StartPool = 1
  Grow = 2
  Unit = 1
  Real = 2
  MaxTurns = 8
  Threads = {t1, t2}
  NoThread = NoThread
  Keys = {0, 1, 2}
  Nbuckets = 2
  HashOf <- KeyHash
  UniqueKeys = {1}
  NodeNames = {n1, n2}
  MaxHeight = 2
  Objects = {o1, o2}
  Null = Null
  Waiters = {1, 2, 3}
  Initials = {0, 1}
  Programs = {{INFINITE}, {INFINITE, 1}}
  INFINITE = INFINITE
  NsPerSec = 2
  MaxCount = 3
SPECIFICATION SpecLocking
SYMMETRY Symmetric
VIEW StructureLocking
INVARIANTS
  UnitsAccounted
  UnitsApart
  TableSound
  SleepersWoken
PROPERTIES
  SmallestClass
  NeverEarly
