# A verification of tmalloc

tmalloc (`src/`) is a replacement of malloc with one pool of memory per thread, together with
the containers and the portability layer it was developed with. This directory holds TLA+
models of it, TLC configurations, and proofs checked by TLAPS.

## The system

| component | state | operations | interaction | correct when |
|---|---|---|---|---|
| thread-local allocator (`tmalloc.cpp` 446-616, `tmalloc-include.h` 264-307) | per thread `allocator`, `destMap`, `headLinkList`; per buffer tag and status in its header; superbuffers | `_tmalloc`, `_tfree`, `_trealloc`, `_TMfreelist`, `addNode` | threads share `headLinkList` and the `next` fields of published superbuffers | every unit is in one place and goes home; the asserts hold; calls return |
| unlocked pools and size classes (`tmalloc.cpp` 168-412) | free list, `NAllocated`, headers; 26 pools | `alloc`, `free`, `grow`, `setSize`, `ceillog2` | called by the allocator of one thread | units do not overlap, are long enough and return to their class |
| locked fixed-size allocator (`tmalloc.cpp` 40-166), multipool (414-443) | free list under `FreeUnits_lock`; `NextPool` | `alloc`, `free`, `grow` | threads share everything | as above, with any number of threads |
| `BoundedQueue`, `Channel` (`datastructmt.h` 176-288) | ring, positions | `enqueue`, `dequeue`; `empty`, `full`, `waiting`, `available` | semaphores and a lock; atomic increments | first in, first out, nothing lost, nobody waits in vain |
| `HashTableMT` (`datastructmt.h` 28-173) | buckets (skip lists), a lock for each | `insert`, `lookup`, `lookupInsert`, `lookupApply`, `remove`, `lookupRemove`, `clear` | `RWLock`, `SkipList`, `Ptr` | what a search found holds until the unlock |
| `RWLock`, `Semaphore`, `EventSync` (`os-*.h`) | mutexes, condition variables, counters | `lock`, `lockRead`, `wait`, `signal`, `set`, `reset` | wrappers of the system's, several per platform | no lost wake-up, no wait that passes early, no lock left behind |
| lists and hash tables (`datastruct.h` 55-490, 1470-1590) | heads, tails, links inside the elements | push, pop, add, insert, remove, lookup, clear | `HashTable` has sorted lists as buckets and is `destMap` of the allocator | sequences; both directions and both chains of an element agree |
| skip lists and sets (490-1465, 1690-1760) | nodes with towers, keys that may belong to the list | insert, lookup, replace, remove, ranges, copy, assignment | `Set` is a skip list | an ordered multimap; nodes and keys have one owner |
| stack, counted pointers (1592-1685) | array; reference count | `push`, `pop`; copy, assignment | atomic increments | last in, first out; deleted with the last reference |
| threads, `prng.h`, tests, example, makefiles | | | | not modelled |

What is hard in it:

* The list of superbuffers of a thread is read and cut by the thread without a lock while the
  other threads push with compare-and-swap. The thread never writes its head: it drains
  everything *behind* the head it has read.
* A superbuffer is itself a buffer of the sender's pool, so draining it means freeing it, which
  may fill and send a superbuffer of the drainer, which drains again: `_TMfreelist` runs inside
  the loop of `_TMfreelist`.
* A buffer is freed by any thread but must go home to the pool it was carved for.
* Memory may run out (an assert) between any two of these steps.
* The queues order their semaphores, lock and signals by hand; the channel has no lock at all.
* Every wait of the portability layer has its own dance of flag, mutex and wake-up.
* The containers link elements into several lists at once, replace their own head when a tower is
  taller than the list, and hand keys to and fro with their callers.

`PROJECT.json` lists the hazards at their lines, with the properties that watch them.

## Modules

The allocator:

* `ThreadHeap`: what the allocator promises, without superbuffers or lists. A unit has one owner
  for ever; it is free at its owner, in use, or waiting; waiting units go home in batches.
* `Tmalloc`: the allocator. One action per access to memory shared by threads, together with the
  local work that follows it. The variables are those of the code under its names (`head` is
  `headLinkList`, `super` and `pos` the fields of the item of `destMap`, `bufs` and `next` those
  of `_TMLinkListNode`), then the local variables of the function each thread is in: `curr`,
  `buf` (the parameter of `_tfree`), `arg` (what `_trealloc` holds), and `stack`, the `next` of
  each suspended `_TMfreelist`. `pc` says where a thread is.
* `TmallocRefinement`: the mapping under which `Tmalloc` implements `ThreadHeap`. A unit is in use
  or waiting as its `status` says.
* `TmallocInv`: the inductive invariant. `TmallocProof`: that it is one, and what follows for each
  state and for each step.
* `MCTmalloc`, `MCProducers`: instances for TLC.

The queues:

* `Fifo`: what a queue promises, each call taking effect at one moment; a queue whose callers wait
  (`BlockingSpec`) and one that refuses (`TryingSpec`).
* `BoundedQueue`: one action per call of a semaphore or of the lock and per statement of the
  critical section. The semaphores and the mutex of the system are modelled as what they are
  specified to do.
* `Channel`: one action per access to memory shared by sender and receiver.
* `MCBoundedQueue`, `MCQueues`: instances. `BoundedQueueProof`, `ChannelProof`: proofs.

Both queues are shown to implement `Fifo`. `BoundedQueue!Contents` has the elements from
`NextRead` on, as many as `SemItems` says and those that a writer has not signalled yet or a
reader has been promised; an enqueue takes effect when `NextWrite` moves. `Channel!Contents` are
the elements between the two positions. A full channel is refused when the sender reads
`ReceivePos`; an empty one already when the receiver reads `SendPos`, since an element may arrive
before it reads its own position and decides.

The layer below:

* `FreeUnits`: headers, free lists and regions, as operators on a function from addresses to
  headers. `VariableAllocator` (one call per action, since one thread owns the object) and
  `Multipool` (one lock call or one group of statements per action) are built from it. An address is
  an integer, so that rounding to pages and overlaps are arithmetic.
* `RWLock`: operators for the locks of every platform; `CanLockRead` says whether readers share.
* `HashTableMT`: one action for the lock, one for the search, one for what the call does with what
  it found, one for the unlock. The buckets are sequences of nodes, which is what
  `SkipList` is shown to be. Equal keys are allowed, and the calls do not agree on them: `lookupInsert`
  and the removals find the oldest node with the key (`firstEqual`); `lookup` and `lookupApply` stop at
  the first that their search meets on its way down (`seek`, `datastruct.h` 545-556), so a newer node with a taller
  tower hides an older one. A node therefore has a height. Values are counted pointers, since the comment at `datastructmt.h`
  90-96 makes a promise about these.
* `Semaphore`, `EventSync`: every implementation of the three platforms, told apart by `kind`.
  Condition variables wake up without cause, and the mutex goes to anybody.
* `MCLocking`: instances. The proofs are in `LockingProof` (events, semaphores, where the units of the
  size classes lie, the hash table) and `UnitsProof` (the free lists of the size classes and of the
  locked pools).

The containers, one action per call (they are sequential) over explicit links:

* `Deque`: sequences that are changed at their ends or inside; the test of `LinkList` has the same
  reference. `Chains` follows links from node to node; `Links` has the writes to `next` and `prev`,
  and what links are those of given sequences. `LinkList`, `SimpleLinkList`, `SLinkList`
  and `SortedLinkList` are built from it and implement `Deque`. Elements keep the pointers they had
  when they leave a list and come back with them.
* `HashTable`: two of `Links` at once, the buckets and the list of all elements.
* `StackArray` implements `Deque` with one end. `Ptr` has the increments and decrements of
  construction, destruction and assignment as steps of several threads.
* `OrderedMultimap`: sequences of items sorted by key; the test of `SkipList` has the same reference.
  `SkipList` implements it over a memory of nodes with towers of any height up to a bound, and
  `SkipListBK` adds keys by pointer, callbacks that free them and a program that holds some.
  `Set` is a `SkipList` over `Int`, whose order is that of the bytes in memory.
* `MCLists`, `MCSkipLists`: instances. `ListsProof`: proofs about the counted pointers and the stack;
  `LinksProof`: lemmas on links, for any sequences; `LinkListsProof`: the lists and the hash table.

`MCQueues`, `MCLists`, `MCSkipLists` and `MCLocking` check several components in one run. Each
behaviour is about one component, which the variable `part` names; the components share the
variables, which mean what each INSTANCE says. `ret`, what the last call returned, is compared with
the abstract specification at each step and is not part of the VIEW: nothing depends on it
afterwards.

The allocator's actions and the code:

| action | code |
|---|---|
| `CallMalloc`, `CallFree`, `CallRealloc` | entry of `_tmalloc`, `_tfree`, `_trealloc` |
| `ReadHead`, `Detach`, `DrainNode`, `DrainDone` | `_TMfreelist`: line 490; 492-498; one iteration of 501-514; the end of the loop |
| `Tfree` | `_tfree` 563-575, to the local return or to the destination |
| `NewItem` | 578-582 and `DestMapItem::DestMapItem` |
| `Store` | 583-586 |
| `AddRead`, `AddCas` | `addNode`: line 477; an iteration of 478-483 |
| `Refill` | 591-593 |
| `ResumeLoop`, `ResumeMalloc`, `ReturnToCaller` | return from `_TMfreelist` or `_tfree` to one of its callers |
| `Alloc` | 547-552, and 612-614 for `_trealloc` |
| `Abort` | `assert(buf)` in `grow` |

The other components' actions have the names of the functions (`lookupInsert`, `keyInInterval`,
`popTail`) or of the step within them (`EnqueueLock`, `AdvanceWrite`, `CopyOut`), and
`PROJECT.json` has the lines of each.

Abstractions. The free list of a pool is a set: which unit is taken is any of them, so nothing
depends on the order. All buffers have one size class, and superbuffers share it with the
application's buffers; the real program has a pool per class, in which case fewer units are
interchangeable. Contents of buffers are left out, except for the fields of superbuffers; freeing
a superbuffer or leaving a slot unwritten leaves `Null`, which stands for an indeterminate value.
`Fresh` units are memory the system has not given out yet; when it is used up, `Abort`. Loads and
stores of `headLinkList` and `next` are single atomic steps in program order: the code declares
neither atomic, and the model assumes the total store order of the x86 builds it is written for,
in which the compare-and-swap flushes what precedes it. The end of a thread is not modelled: the
code does nothing at it.

## Model checking

`MCTmalloc!LowestFirst` reduces symmetric choices: of the units in a pool, or held with the same
owner, or fresh, that no thread has in `curr`, only the lowest is taken. Such units differ in
nothing but their name, and every property is invariant under exchanging names. A unit in `curr`
of a thread is exempt, because a compare-and-swap may later compare the head with it (the reuse
of an address is thus explored). `MCProducers` splits the threads into producers, that only
allocate, and consumers, that only free, so that batches, races and nested drains happen with few
buffers.

| run | instance | states | what it shows |
|---|---|---|---|
| `pair` | 2 threads, 5 units, superbuffers of 1 | 728 000 | every call at will, `_trealloc` included: types, exclusive ownership, asserts, refinement of `ThreadHeap` |
| `contention` | 3 threads (1 producer), 7 units, superbuffers of 1 | 516 000 | failed and retried compare-and-swap, drains nested two deep: ownership, homes, pushes, some push succeeds |
| `batches` | 2 threads (1 producer), 10 units carved 2 at a time, superbuffers of 2 | 11 000 | partly filled, sent, queued and drained superbuffers: they are frozen, refinement, calls return, a call of the owner brings home what was behind the head |
| `ring` | queue of 3, 4 threads that all enqueue and dequeue, 2 values, symmetric | 40 000 | the law of the semaphores, mutual exclusion, refinement of `Fifo`, no deadlock |
| `queues` | channel of 4 slots, words of 3 bits; queue of 2 with 3 threads that do both, or a producer and a consumer | 538 000 | slots are disjoint, queries reliable, refinement of `Fifo`; elements are delivered, room is used, calls return |
| `lists` | 2 lists over 3 or 4 elements, 2 of them equal; 2 buckets and 4 elements; a stack of 2 to 6; 2 threads with 2 pointers to 2 objects | 291 000 | links, counts, order, refinement of `Deque` |
| `skip_lists` | 1 list of 2 keys or 2 lists of 1, towers of 2, 5 or 6 addresses; a set of 3 integers; keys by pointer, two of which are equal | 63 000 | towers, ownership of nodes and keys, queries, refinement of `OrderedMultimap` |
| `locking` | classes of 2 and 4 bytes, pages of 0, 8 and 14; 2 pools, 2 threads, 8 turns; 2 buckets, 3 keys of which two share a bucket, towers of 2, 2 threads, both kinds of lock; 3 threads on each semaphore and event | 2 384 000 | see below |
| `collision` | 3 threads (2 producers), 7 units, superbuffers of 2, addresses equal in their low 32 bits | | violation, see below |
| `channel_room` | a channel as in `queues` | | violation, see below |
| `event_lost` | 2 threads, `EventSyncCV` | | violation, see below |
| `timed_wait` | 2 threads, `Semaphore_POSIX`, seconds of 2 units | | violation, see below |

The bounds. Two threads exchange superbuffers in both directions and drain each other's; a third
is needed for two to push onto one list. One buffer per superbuffer makes every remote free a
push, two make partly filled superbuffers; more add nothing that is compared or indexed
differently. The units bound the lists: with 5 to 10 a list reaches two or three superbuffers, so
that a head, a node being drained and a node behind it are there at once. In every run memory runs
out in some behaviours, which exercises `Abort`; `pc`, `op` and the units bound everything else,
and no counter is cut off.

Two threads on each side of a queue can overtake each other between semaphore, lock and signal, and
three slots with two values tell every reordering from the right order; `ring` has all mixtures of
four. A channel has two threads by definition; positions of 3 bits wrap twice around 4 slots, so
that the wrap of the word and that of the ring are seen apart.

A list shows what it can do wrong with three elements (first, inner, last), of which two have equal
keys; the second list is where an element goes with its stale pointers, and what a copy may share
its nodes with. Towers of two levels have every relation of a level to the one below it, a list that
grows a level, and equal keys whose towers differ. A class of 2 bytes and one of 4 have requests of
0, 1, exactly the class, one more, and too many (5); units of 4 and 6 with their padding divide a page
of 8 or not, and none divides one of 14, which raises the batches of both classes. Two nodes in the table can have
one key, with the newer the taller, or two keys in one bucket or in both. Two threads on a lock, with the steps inside the lock apart, are enough
for a second one to come between; three on a semaphore or an event give a waiter, another who takes
what it waits for and one who signals. `NodesLeft`, `MaxTurns`, `MAXSEMAPHOREVALUE` (here 3) and
`SemaphoreMax` cut off calls that would go on for ever; the last two are asserts of the code with a
smaller number.

Symmetry is used where names are all that differs: threads and values in `ring`, lists and values in
`lists` and `skip_lists`, threads, nodes and objects of the table in `locking`. No run with a liveness property has it.

Deadlock is checked in every run. A queue may stop when all wait for elements of an empty queue or
for room in a full one; `AllWait` is the only such state in which `Next` allows a stop, and `ring`
checks that there is no other. `Semaphore!AllWait` and `EventSync!AllWait` are the same, `Ended` of
`Multipool` is the end of memory or of the turns. `EventSync!AllWait` also admits a thread that waits for
the mutex which a returned `wait` has kept: that is what `event_lost` is about.

`TableSound`, in `locking`, has four parts: what the search under the lock found is still so when the
call acts on it; an object lives while a value, a program or a `remove` that has not returned refers
to it; a key that is only inserted by `lookupInsert` is there once; `clear`, which locks one bucket
after the other, has removed what was there when it began. `UnitsAccounted` has, for the size classes,
that every unit not allocated is in the free list of the class it was carved for and in no other; for
the locked pools, where a unit may change pools, that it is in one. `SleepersWoken` is the absence of
lost wake-ups of `Semaphore_CV` for waits without timeout; with timeouts it fails (see below).
`SmallestClass` is about every call of `alloc`: one that is refused changes nothing, and any other takes from the smallest class.

Fairness. `FairSpec` of `Tmalloc` makes a thread that is inside a call take its next step (a
preemptive scheduler runs every thread); nothing makes the application call. `CallsDrain` is therefore
about the owner's calls: a list is drained by those and by nothing else, so an owner that stops calling
keeps its buffers away (the comment at the top of `tmalloc.h` says so of the head). `PushProgress`
is lock-freedom: some push onto a list with several senders succeeds. `CallsReturn`, which is more, holds with one thread pushing
onto each list. It is not claimed beyond that: with two threads pushing onto one list a
compare-and-swap may lose again and again; and with superbuffers of 1 every drained superbuffer
sends another one, so that two threads can keep each other draining for ever (the code has 64).
All three may end in `aborted`, the end of the process for want of memory.

For the queues a thread takes its next step if that stays possible (weak fairness): nothing is
assumed of the order in which the semaphores and `std::mutex` serve threads, which POSIX and C++
leave open. Hence `ElementsDelivered` and `RoomUsed` say that *some* reader or writer is served;
each call returns when there is one thread on each side and both go on calling
(`CallProducer`, `CallConsumer`), as in the test `TestBoundedQueueConcurrent`. `Semaphore` and `EventSync`
have the same fairness for the steps inside `wait`, and none for calls and spurious wake-ups.

### Violations

`collision`: `DestMapItem` hashes and compares destinations by the low 32 bits of their address
(`tmalloc-include.h` 281-286). Two `_TMThreadInfo` a multiple of 4 GB apart, which arenas of
different threads can be, share an item, and the superbuffer goes to the owner of whichever buffer
was freed last. `tmalloc.h` 9-20 promises that buffers go back to the thread that allocated them.
The run finds a pool that has a unit of another thread; with distinct addresses `HomePool` holds, as
`contention` shows for small instances and `BuffersComeHome` proves for all.

`channel_room`: `Channel::available` counts a slot that `enqueue` never fills: with `SIZE`-1 elements
it returns 1 and the channel is full (`datastructmt.h` 284-286). `AnswersSafe` has what the queries do
promise.

`event_lost`: `EventSyncCV::wait` of `os-linux.h` returns with its mutex locked (line 193), and `set`
writes the flag and signals without it (183-184). A wait may then not return although the event is
set and stays set.

`timed_wait`: `Semaphore_POSIX::wait` adds the timeout to `tv_nsec` and not to `tv_sec`
(`os-linux.h` 151). From a second on `sem_timedwait` fails with `EINVAL`, and the loop repeats the call
until there is a signal.

### Read in the code, without a run of its own

* `StackArray::push` (`datastruct.h` 1655) from one item with a factor of 1.5 does not grow and fails
  the assert that follows; growing runs the destructors of the items that stay in the stack (1624),
  which the comment at 1593-1594 excludes. `lists` starts from two items.
* `SkipList::keyInInterval` (834) with equal keys may return the excluded end of an interval open on
  the left. `Queries` claims the first key of the interval of lists with distinct keys.
* `Int::cmp` (1755) is `memcmp`: a `Set<Int>` visits 256 before 1. It is a set nevertheless (`ActsAsSet`).
* The destructor of `SkipListBK` (1103) leaks the keys of a list that was not cleared, and its public
  `copy` (1135) the head and the tail; assignment of a `SkipList` (618) loses the nodes the list had.
  `NoKeyLeaks` is about programs that clear first, `NoNodeLost` that these calls alone lose nodes.
* `SortedLinkListBK::lookup` (482) returns 0 where its comment says `getLast()`.
* A timed wait on `Semaphore_CV` may report a timeout after it was notified, which is then lost to a
  wait without timeout. `BoundedQueue`, the only user, has none with a timeout.
* `AtomicDec64` of `os-windows.h` 53 increments.
* `FixedAllocatorMultipool` does not initialise `NextPool`, and a negative one is an index below its
  array (`tmalloc.cpp` 435). `Starts` has non-negative values.
* `_tmalloc` calls `setStatus` on the 0 that `alloc` returns for a request that is too large (548);
  `Tmalloc` has requests of one size, which is not too large.
* `setSize` to a smaller class would make `free` take the unit for one of that class; the call in
  `_trealloc` (608) is commented out, and `KeepsClass` keeps the programs of `locking` to what is safe.

## Proofs

The constants are arbitrary, but for named assumptions. Each is the least that the proofs need and
that the code justifies, and TLC evaluates it for the constants of the runs.

| theorem | property | module | assumptions on the constants |
|---|---|---|---|
| `Ownership` | `ExclusiveOwnership` | `TmallocProof` | `NullAssumption`, `SizeAssumption`: no thread or buffer is null; superbuffers and growth steps have a unit |
| `BuffersComeHome` | `HomePool` | | and `DistinctAddresses`, without which it is false (`collision`) |
| `AssertsNeverFail`, `TypeCorrect` | `AssertsHold`, `TypeOK` | | as `Ownership` |
| `ListsGrowAtHead`, `SentStaysFrozen` | `PushOnly`, `SentIsFrozen` | | as `Ownership` |
| `HeapImplemented` | `ImplementsThreadHeap` | | as `BuffersComeHome` |
| `RingAccounted`, `RingExclusive`, `RingTypes` | `SlotsAccounted`, `Exclusion`, `TypeOK` | `BoundedQueueProof` | a slot or more; finitely many threads |
| `RingIsFifo` | `ImplementsFifo` | | the same |
| `NeverShared`, `AnswersAreSafe` | `NoSlotShared`, `AnswersSafe` | `ChannelProof` | `SIZE` divides `Word` and is smaller; two threads |
| `ChannelFifo` | `ChannelIsFifo` | | the same |
| `WaitsAreNeverEarly`, `NoSignalLost` | `NeverEarly`, `SleepersWoken` | `LockingProof` | `SemaphoreAssumption`: finitely many threads, initial values are not negative |
| `UnitsNeverOverlap` | `UnitsApart` | | `ConstantsAssumption`, `SizesAssumption`: real sizes and batches are positive and do not overflow |
| `TableIsSound` | `TableSound` |  | `TableAssumption`: a bucket or more, finitely many threads and nodes |
| `UnitsAreAccounted` | `UnitsAccounted` | `UnitsProof` | as `UnitsNeverOverlap` |
| `ReferencesCounted` | `CountsRight` | `ListsProof` | `PtrAssumption`: finitely many threads and pointers, each of one thread |
| `StackIsLIFO` | `LastInFirstOut` | | `StackAssumption`: the first array grows by an item or more |
| `ListsAreSound`, `ListsAreSequences` | `ChainsSound`, `Deques` | `LinkListsProof` | `ListsAssumption`: finitely many elements, none of them null or the end of a list |
| `BucketsAreSound`, `InsertionOrderKept` | `BucketsSound`, `KeepsOrder` | | and a bucket or more, keys are comparable; `BucketsAssumption`: a key has one bucket |

None of the properties but the types is inductive. What each needs besides itself:

**The allocator.** That a push does not lose a superbuffer depends on what the
units of the list are, on what their slots hold and on the item being full exactly while it is
being sent; that the cut at line 497 is safe depends on the head read earlier being still in the
list. `IInv` says all that in one form: there is a map of the memory, `k`, `o`, `i`, that gives
each unit the kind of place it is in, the thread or superbuffer it is in and the position there,
and `l`, that gives each superbuffer in a list the thread whose list it is. Each part `XAt` says
that the state variable X and the map agree, *in both directions*, which makes ownership exclusive
and complete at once. `Filled` says which slots are written, `ListIds` that the nodes behind a node
of a list are in the same list, `Detaching` that the head read stays in the list, `Items` that
only an item being sent is full, `Statuses` and `Homes` what the header of a unit says in each
place. The map is bound by an existential quantifier, since computing it from the state would need
recursion along the lists; each step lemma (`AddCasOkStep` for the push that succeeds, and so on)
names the map of the next state: a push turns the superbuffer into a head and the former head into
a successor, a drain turns slots into pool, the superbuffer into the parameter of `_tfree` and its
successor into a suspended one.

**Its steps.** `PushOnly` and `SentIsFrozen` follow from `IInv` and two facts of their own: a thread
sends only what another thread owns (`Remote`), so that it never writes its own head; and a buffer
that `_tfree` is about to store is in no list (`FreedIsUnlisted`), so that no slot of a listed superbuffer is
written. For the refinement of `ThreadHeap`, each drained superbuffer is a batch of exactly `SuperSize` units of the
drainer: the slots of the map are a bijection from positions to units.

**The bounded queue.** The semaphores' law counts the threads at each label, so it is inductive only
together with the types and with what every step does to the threads at its two labels. For the refinement `IInv` adds
what an element in hand is (`ItemsInHand`) and what the slots hold (`SlotsHold`): an
enqueue takes effect when `NextWrite` moves, which appends the element in hand to `Contents`, since the
slot was written under the same lock.

**The channel.** A thread decides on a position of the other that it read earlier. `SenderView` and
`ReceiverView` say how stale that may be: the room the sender saw is still there, since only it fills it; what the
receiver saw of `SendPos` was at some `k` of the elements now waiting. From these come the slots that both
threads are at, the answers of the queries, and the refinement, where an empty channel is refused at the
read of `SendPos`. Positions are compared modulo `Word` and slots modulo `SIZE`; the lemmas on remainders use only
that the one divides the other.

**Semaphores and events.** `SleepersWoken` counts the threads that are awake and is
inductive with `Types`, which say in particular which waits have a timeout. For events `NeverEarlyStep` needs that only the kinds with flags
take the mutex (`MutexOfFlags`).

**Units.** `UnitsApart` needs that all regions end at or below the end of what the system gave (`Below`). For
`UnitsAccounted` the free lists are described by sequences: `Chained` says that each unit not
allocated is in the sequence of exactly one head, and each link leads from a place to the next one. The model's own
recursive `FreeList` is then shown to compute that sequence, by induction over its positions (`Induct`, from a least
counterexample). Lemmas say what a pop, a push and a new batch do to the sequences. `Accounted` adds for the
size classes that a sequence has units carved for its class alone, that the counter counts those that are
out, and that their headers name the class. For the shared pools the counters add up only over all of
them, as a unit may come back to another pool than it came from; `CallsRight` and `LocksHeld` say which lock a thread
has and which pool it is at, and `OutsAre` that the units that threads hold are those not in a free list.

**The hash table.** `FoundStays` is what the holder of a lock knows of its bucket, and holds since the
others that change the bucket wait for the lock. It does not say which of several equal nodes was found, since the
calls find different ones; `TallestIs` says that `seek` finds one whenever there is one. `ClearsAhead` follows a `clear` from bucket to bucket. The counts of objects
(`Tally`) are those of values in nodes and of what calls hold. The proof brought out one clause that is easy to
miss: `removedU` belongs to `remove` alone, without which a reference would be counted in a call that does not hold it.

**Counted pointers.** `CountsReferences` relates counts to references *and* to the increments and
decrements that calls have not done yet. It is inductive with `Sourced`: an increment that is
left has a `Ptr` of its own that it is for, and its object is kept by the `Ptr` that it was copied from, which is
itself counted. So a count of zero means that nothing refers to the object and no step for it is left.

**The stack.** `StackTypes` bounds the items by the array; the condition that the smallest array grows when multiplied
by the factor carries over to all larger ones (`NewSizeIs`), so that the slot `push` writes is in the array.

**The linked lists.** `ChainsSound` says what a walk along `next` and one along `prev` find, and a walk is a
recursive function of all links: no step can be reasoned about in that form. `ListsInv` says it the other way
round: there are sequences `c[l]` without repetition, disjoint for different lists, and node `i` of a list, which is
its head, `c[l][i]` or its tail, is linked to node `i` + 1 and back (`Linked`, `Chained` of `Links`). `LinksProof`
shows that both walks then find `c[l]` (`Walk` from its recursive definition, by a least counterexample),
and what the writes of `LinkBefore`, `LinkAfter` and `Unlink` do to the sequences: insert at a place, or remove from one,
in one list and in no other. That the element may have *any* pointers when it is inserted is a
hypothesis that the lemma lacks. On top of that `SimpleGood` has the items: allocated, distinct, and counted by `nitems`;
`SinglyGood` links in one direction and `Tail` the last element or null; `SortedGood` keys that do not
fall, and where `lookup` stops.

**The hash table.** An element has links of two lists, so the invariant (`TableGood`) is two of `Chained`, and: the
elements of a bucket are those of `AllElements` with its hash; and equal keys are in a bucket in the opposite order of
`AllElements`. The last is what makes `lookup` find the newest, and is not implied by the rest: it needs that
`lookup` stops *before* equal keys and that `remove` keeps the order of both.

Only model-checked: all liveness, and what needs `ENABLED`, which are out of the provers' reach; `SmallestClass`,
which is about recursive arithmetic (`ceillog2`); all of `MCSkipLists`, whose towers are chains at every level.

## Not modelled

Creating and joining threads, thread-local storage, the clock and the choice of the platform are calls
of the system and preprocessing. `prng.h` is arithmetic whose quality is statistical. `trylock`,
`CondVar` and the destructors of the locks, semaphores and events do nothing that another component
uses. Assigning a skip list to itself and copying a list object (whose default copy shares its
nodes) are undefined behaviour at once and no code of the repository does it. The tests,
the example and the makefiles were read as documentation of how the code is used; the reference
lists of two tests and the threads of a third are modelled.

## Plan

1. Done: the allocator, its refinement, its invariant, the theorems above.
2. Done: the queues, the pools, the locks, semaphores and events, the hash table, the containers.
3. Done: `PushOnly`, `SentIsFrozen` and the refinement of `ThreadHeap`; the bounded queue and the channel
   with their refinements of `Fifo`; events, semaphores, units, the hash table with locks, counted pointers, the stack.
4. Done: `ChainsSound` and `BucketsSound`, with a description by sequences as `Chained` of `UnitsProof`
   but for links in both directions, and the refinements of `Deque` from it.
5. To come: `Towers` of the skip lists by one such description for each level.
