------------------------------ MODULE MCLocking ------------------------------
(* What the rest is built on, for TLC: the size classes of one thread, the  *)
(* pools that threads share, the locked hash table, the semaphores and the  *)
(* events, one of them per behaviour and all of them in the variables of    *)
(* the hash table.                                                          *)
EXTENDS Integers, FiniteSets, TLC

CONSTANTS
  PageSizes, Requests, Memory, FIRSTPOOL, NPOOLS,     \* of the size classes
  IntBits, BatchOf(_), Padding,
  PoolMemory, NPools, Starts, StartPool, Grow,        \* of the pools
  Unit, Real, MaxTurns,
  Threads, NoThread,                                  \* of the pools and the table
  Keys, Nbuckets, HashOf(_), UniqueKeys, NodeNames, MaxHeight,   \* of the table
  Objects, Null,
  Waiters, Initials, Programs, INFINITE,              \* of the semaphores and events
  NsPerSec, MaxCount

ASSUME TableAssumption ==
  /\ Nbuckets \in Nat \ {0} /\ \A k \in Keys : HashOf(k) \in Nat
  /\ NoThread \notin Threads /\ Null \notin Objects \cup NodeNames \cup [key : Keys, value : Objects, height : 1 .. MaxHeight]
  /\ IsFiniteSet(Threads) /\ IsFiniteSet(NodeNames) /\ MaxHeight \in Nat \ {0}
ASSUME SemaphoreAssumption ==
  IsFiniteSet(Waiters) /\ NoThread \notin Waiters /\ Initials \subseteq Nat

VARIABLES
  part,
  shared, Bucket_l, bucket, node, refcount, pc, op, key, b, found, retval, removedU, before

NoSize == -1
EndOfList == -2
Batch(p) == IF p = 0 THEN 2 ELSE 1
KeyHash(k) == k

Classes == INSTANCE VariableAllocator WITH
  UnitsTail <- EndOfList, Unused <- NoSize,
  PageSize <- shared, IncGrow <- op, unit <- node, head <- bucket, NAllocated <- refcount,
  brk <- b, regions <- retval, home <- before, ret <- key
Pooled == INSTANCE Multipool WITH
  Memory <- PoolMemory, UnitsTail <- EndOfList, Unused <- NoSize, IncGrow <- Grow,
  NextPool <- key, turns <- op, unit <- node, head <- bucket, NAllocated <- refcount,
  FreeUnits_lock <- Bucket_l, brk <- b, held <- retval, pool <- found, pb <- removedU,
  asserts <- shared
Table == INSTANCE HashTableMT WITH hash <- HashOf
Signals == INSTANCE Semaphore WITH
  Threads <- Waiters, Kinds <- {"cv", "posix", "dispatch", "windows"}, MAXSEMAPHOREVALUE <- MaxCount,
  kind <- op, waits <- before, value <- refcount, m <- Bucket_l, msTimeout <- key, ts <- found,
  res <- retval
Events == INSTANCE EventSync WITH
  Threads <- Waiters, SemaphoreMax <- MaxCount,
  Kinds <- {"zero", "zeroalt", "one", "two", "three", "four", "cv"},
  kind <- op, flag <- refcount, cs <- Bucket_l, timed <- shared, res <- retval

ASSUME ConstantsAssumption == Classes!PoolsRight /\ Pooled!PoolsRight
\* What PoolsRight makes of the sizes: none overflows.
ASSUME SizesAssumption ==
  /\ PageSizes \subseteq Nat /\ Requests \subseteq Nat
  /\ \A p \in Classes!Pools : BatchOf(p) \in Nat \ {0} /\ Classes!Realsize[p] \in Nat \ {0}

vars ==
  <<part, shared, Bucket_l, bucket, node, refcount, pc, op, key, b, found, retval, removedU, before>>

InitLocking ==
  \/ part = "classes" /\ Classes!Init /\ Bucket_l = 0 /\ pc = 0 /\ found = 0 /\ removedU = 0
  \/ part = "pooled" /\ Pooled!Init /\ before = 0
  \/ part = "table" /\ Table!Init
  \/ part = "semaphore" /\ Signals!Init
       /\ shared = 0 /\ bucket = 0 /\ node = 0 /\ b = 0 /\ removedU = 0
  \/ part = "event" /\ Events!Init
       /\ bucket = 0 /\ node = 0 /\ key = 0 /\ b = 0 /\ found = 0 /\ removedU = 0 /\ before = 0

ClassesStep == part = "classes" /\ Classes!Next /\ UNCHANGED <<part, Bucket_l, pc, found, removedU>>
PooledStep == part = "pooled" /\ Pooled!Next /\ UNCHANGED <<part, before>>
TableStep == part = "table" /\ Table!Next /\ UNCHANGED part
SemaphoreStep ==
  part = "semaphore" /\ Signals!Next /\ UNCHANGED <<part, shared, bucket, node, b, removedU>>
EventStep ==
  part = "event" /\ Events!Next /\ UNCHANGED <<part, bucket, node, key, b, found, removedU, before>>

NextLocking == ClassesStep \/ PooledStep \/ TableStep \/ SemaphoreStep \/ EventStep
SpecLocking == InitLocking /\ [][NextLocking]_vars

\* Threads, nodes and objects of the table differ in name only.
Symmetric == Permutations(Threads) \cup Permutations(NodeNames) \cup Permutations(Objects)
\* What the size classes returned matters to SmallestClass alone.
StructureLocking ==
  IF part = "classes" THEN <<part, shared, op, node, bucket, refcount, b, retval, before>> ELSE vars
------------------------------------------------------------------------------
\* Free, allocated and counted: VariableAllocator and Multipool.
UnitsAccounted ==
  /\ part = "classes" => Classes!UnitsAccounted
  /\ part = "pooled" => Pooled!UnitsSound

\* No two units overlap: VariableAllocator.
UnitsApart == part = "classes" => Classes!UnitsApart

\* An allocation comes from the smallest class that is large enough, whose
\* count it raises; a request that is too large gets 0 and changes no memory,
\* list or count: VariableAllocator.
SmallestClass == [][part = "classes" => Classes!SmallestClassStep]_vars

\* What a search under the lock found holds until the unlock, objects live as
\* long as they are referred to, keys stay unique, clear sweeps: HashTableMT.
TableSound ==
  part = "table" =>
    Table!SearchesHold /\ Table!ObjectsCounted /\ Table!KeysUnique /\ Table!ClearSweeps

\* A signal wakes a sleeper who is there to use it: Semaphore_CV.
SleepersWoken == part = "semaphore" => Signals!SleepersWoken

\* No wait passes an event that is not set: EventSync.
NeverEarly == [][part = "event" => Events!NeverEarlyStep]_vars
==============================================================================
