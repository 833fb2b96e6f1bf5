---------------------------- MODULE LockingProof -----------------------------
(***************************************************************************)
(* MCLocking, for any number of threads: what a wait for an event or a     *)
(* semaphore returns, and whom a signal wakes; where the units of the size *)
(* classes lie; and what a thread knows of its bucket of the hash table    *)
(* while it has the lock.                                                  *)
(***************************************************************************)
EXTENDS MCLocking, FiniteSetTheorems, SequenceTheorems, WellFoundedInduction, TLAPS

-----------------------------------------------------------------------------
(* Events.                                                                 *)

EventInv == part = "event" => Events!Types /\ Events!MutexOfFlags

\* The types hold at first, and nobody is in a wait.
LEMMA EventInit ==
  ASSUME InitLocking
  PROVE  EventInv
<1>1. SUFFICES ASSUME part = "event"
               PROVE  Events!Types /\ Events!MutexOfFlags
  BY DEF EventInv
<1>2. Events!Init
  BY <1>1 DEF InitLocking
<1>3. QED
  BY <1>2 DEF Events!Init, Events!Types, Events!MutexOfFlags

\* Every step of an event keeps the types, and the places of the threads.
LEMMA EventNext ==
  ASSUME EventInv, part = "event", Events!Next
  PROVE  (Events!Types /\ Events!MutexOfFlags)'
<1>1. Events!Types /\ Events!MutexOfFlags
  BY DEF EventInv
<1>2. CASE Events!AllWait
  BY <1>1, <1>2 DEF Events!AllWait, Events!vars, Events!Types, Events!MutexOfFlags
<1> USE DEF Events!Types, Events!MutexOfFlags, Events!Goes, Events!Returns, Events!Flags, Events!Resettable
<1>3. ASSUME NEW t \in Waiters, Events!CallWait(t) \/ Events!set(t) \/ Events!reset(t)
      PROVE  (Events!Types /\ Events!MutexOfFlags)'
  BY <1>1, <1>3 DEF Events!CallWait, Events!set, Events!reset
<1>4. ASSUME NEW t \in Waiters, Events!WaitEvent(t) \/ Events!Timeout(t)
      PROVE  (Events!Types /\ Events!MutexOfFlags)'
  BY <1>1, <1>4 DEF Events!WaitEvent, Events!Timeout
<1>5. ASSUME NEW t \in Waiters, Events!AcquireExclusive(t) \/ Events!WaitSemaphore(t)
      PROVE  (Events!Types /\ Events!MutexOfFlags)'
  BY <1>1, <1>5 DEF Events!AcquireExclusive, Events!WaitSemaphore
<1>6. ASSUME NEW t \in Waiters, Events!LockCV(t) \/ Events!TestCV(t) \/ Events!SleepCV(t) \/ Events!SpuriousCV(t)
      PROVE  (Events!Types /\ Events!MutexOfFlags)'
  BY <1>1, <1>6 DEF Events!LockCV, Events!TestCV, Events!SleepCV, Events!SpuriousCV
<1>7. ASSUME NEW t \in Waiters, Events!SignalCV(t)
      PROVE  (Events!Types /\ Events!MutexOfFlags)'
  BY <1>1, <1>7 DEF Events!SignalCV
<1>8. QED
  BY <1>2, <1>3, <1>4, <1>5, <1>6, <1>7 DEF Events!Next, Events!WaitStep

\* The other parts of the system leave the events alone.
LEMMA PartStays ==
  ASSUME [NextLocking]_vars
  PROVE  /\ part' = part
         /\ part = "event" => Events!Next \/ UNCHANGED vars
         /\ part = "semaphore" => Signals!Next \/ UNCHANGED vars
         /\ part = "table" => Table!Next \/ UNCHANGED vars
BY DEF NextLocking, vars, ClassesStep, PooledStep, TableStep, SemaphoreStep, EventStep

\* The types of the events hold, and only a wait on a flag takes the mutex.
LEMMA EventInvariant == SpecLocking => []EventInv
<1>1. InitLocking => EventInv
  BY EventInit
<1>2. ASSUME EventInv, [NextLocking]_vars
      PROVE  EventInv'
  <2>1. CASE UNCHANGED vars
    BY <1>2, <2>1 DEF vars, EventInv, Events!Types, Events!MutexOfFlags, Events!Flags
  <2>2. CASE part = "event" /\ Events!Next
    BY <1>2, <2>2, EventNext, PartStays DEF EventInv
  <2>3. QED
    BY <1>2, <2>1, <2>2, PartStays DEF EventInv
<1>3. QED
  BY <1>1, <1>2, PTL DEF SpecLocking

\* No wait passes an event that is not set, but one whose timeout expires,
\* and an event of the kinds One and Three lets one wait pass for each set,
\* for any number of threads that set, wait, time out and wake by themselves.
THEOREM WaitsAreNeverEarly == SpecLocking => NeverEarly
<1> DEFINE Step == part = "event" => Events!NeverEarlyStep
<1>1. ASSUME EventInv, [NextLocking]_vars
      PROVE  [Step]_vars
  <2>1. SUFFICES ASSUME part = "event", Events!Next, NEW t \in Waiters,
                        Events!Inside(t), pc'[t] = "ready"
                 PROVE  \/ refcount > 0 /\ retval'[t] = 0 /\ (op \in Events!OneEach => refcount' = refcount - 1)
                        \/ shared[t] /\ retval'[t] = 1
    BY <1>1, PartStays DEF Events!NeverEarlyStep
  <2>2. Events!Types /\ Events!MutexOfFlags
    BY <1>1, <2>1 DEF EventInv
  <2>3. pc[t] \notin {"ready", "signal"}
    BY <2>1 DEF Events!Inside
  <2> USE DEF Events!Types, Events!Goes, Events!Returns
  <2>4. CASE Events!AllWait
    BY <2>1, <2>3, <2>4 DEF Events!AllWait, Events!vars
  <2>5. ASSUME NEW u \in Waiters, Events!CallWait(u) \/ Events!set(u) \/ Events!reset(u)
        PROVE  FALSE
    BY <2>1, <2>2, <2>3, <2>5 DEF Events!CallWait, Events!set, Events!reset
  <2>6. ASSUME NEW u \in Waiters, Events!LockCV(u) \/ Events!SleepCV(u) \/ Events!SpuriousCV(u) \/ Events!SignalCV(u)
        PROVE  FALSE
    BY <2>1, <2>2, <2>3, <2>6 DEF Events!LockCV, Events!SleepCV, Events!SpuriousCV, Events!SignalCV
  <2>7. ASSUME NEW u \in Waiters, Events!WaitEvent(u) \/ Events!Timeout(u)
        PROVE  \/ refcount > 0 /\ retval'[t] = 0 /\ (op \in Events!OneEach => refcount' = refcount - 1)
               \/ shared[t] /\ retval'[t] = 1
    BY <2>1, <2>2, <2>3, <2>7
       DEF Events!WaitEvent, Events!Timeout, Events!GivesUp, Events!Resettable, Events!OneEach
  <2>8. ASSUME NEW u \in Waiters, Events!AcquireExclusive(u) \/ Events!WaitSemaphore(u)
        PROVE  refcount > 0 /\ retval'[t] = 0 /\ refcount' = refcount - 1
    BY <2>1, <2>2, <2>3, <2>8 DEF Events!AcquireExclusive, Events!WaitSemaphore
  <2>9. ASSUME NEW u \in Waiters, Events!TestCV(u)
        PROVE  refcount > 0 /\ retval'[t] = 0 /\ op \notin Events!OneEach
    BY <2>1, <2>2, <2>3, <2>9
       DEF Events!TestCV, Events!Passes, Events!MutexOfFlags, Events!Flags, Events!OneEach
  <2>10. QED
    BY <2>1, <2>4, <2>5, <2>6, <2>7, <2>8, <2>9 DEF Events!Next, Events!WaitStep
<1>2. QED
  BY <1>1, EventInvariant, PTL DEF SpecLocking, NeverEarly

-----------------------------------------------------------------------------
(* Semaphores.                                                             *)

SemaphoreInv == part = "semaphore" => Signals!Types /\ Signals!SleepersWoken

\* Semaphore counts as this module does.
LEMMA SignalsCount == \A S : Signals!Cardinality(S) = Cardinality(S)
BY DEF Signals!Cardinality, Cardinality

\* How the number of the threads that are awake changes.
LEMMA AwakeCount ==
  /\ IsFiniteSet(Signals!Awake) /\ Cardinality(Signals!Awake) \in Nat
  /\ \A t : /\ Cardinality(Signals!Awake \cup {t}) =
                 Cardinality(Signals!Awake) + (IF t \in Signals!Awake THEN 0 ELSE 1)
            /\ Cardinality(Signals!Awake \ {t}) =
                 Cardinality(Signals!Awake) - (IF t \in Signals!Awake THEN 1 ELSE 0)
<1>1. Signals!Awake \subseteq Waiters
  BY DEF Signals!Awake
<1>2. IsFiniteSet(Signals!Awake)
  BY <1>1, SemaphoreAssumption, FS_Subset
<1>3. Cardinality(Signals!Awake) \in Nat
  BY <1>2, FS_CardinalityType
<1>4. ASSUME NEW t
      PROVE  /\ Cardinality(Signals!Awake \cup {t}) =
                  Cardinality(Signals!Awake) + (IF t \in Signals!Awake THEN 0 ELSE 1)
             /\ Cardinality(Signals!Awake \ {t}) =
                  Cardinality(Signals!Awake) - (IF t \in Signals!Awake THEN 1 ELSE 0)
  BY <1>2, <1>3, FS_AddElement, FS_RemoveElement
<1>5. QED
  BY <1>2, <1>3, <1>4

\* Every semaphore keeps the types of its variables.
LEMMA SemaphoreTypes ==
  ASSUME Signals!Types, Signals!Next
  PROVE  Signals!Types'
<1> USE DEF Signals!Goes, Signals!Returns, Signals!unchanged
<1> DEFINE Places == {"ready", "lock", "lock to signal", "test", "asleep", "woken",
                      "increment", "notify", "wait"}
<1>0. /\ refcount \in Nat /\ op \in {"cv", "posix", "dispatch", "windows"}
      /\ pc \in [Waiters -> Places] /\ key \in [Waiters -> before \cup {INFINITE}]
  BY DEF Signals!Types
<1>b. refcount \in Nat
  BY <1>0
<1>a. ASSUME refcount' \in Nat, pc' \in [Waiters -> Places], UNCHANGED <<op, before, key>>
      PROVE  Signals!Types'
  BY <1>0, <1>a DEF Signals!Types
<1>1. CASE Signals!AllWait
  BY <1>0, <1>1, <1>a DEF Signals!AllWait, Signals!vars
<1>2. ASSUME NEW t \in Waiters, Signals!CallWait(t)
      PROVE  Signals!Types'
  <2>1. PICK ms \in before : key' = [key EXCEPT ![t] = ms]
    BY <1>2 DEF Signals!CallWait
  <2>2. UNCHANGED <<op, before, refcount>> /\ pc' \in [Waiters -> Places]
    BY <1>0, <1>2 DEF Signals!CallWait
  <2>3. key' \in [Waiters -> before \cup {INFINITE}]
    BY <1>0, <2>1
  <2>4. QED
    BY <1>0, <2>2, <2>3 DEF Signals!Types
<1>3. ASSUME NEW t \in Waiters,
             \/ Signals!CallSignal(t) \/ Signals!Lock(t) \/ Signals!Spurious(t) \/ Signals!Timeout(t)
             \/ Signals!Relock(t) \/ Signals!Increment(t)
      PROVE  Signals!Types'
  <2>0. UNCHANGED <<op, before, key>>
    BY <1>3 DEF Signals!CallSignal, Signals!Lock, Signals!Spurious, Signals!Timeout, Signals!Relock, Signals!Increment
  <2>a. refcount' = refcount \/ refcount' = refcount + 1
    BY <1>3 DEF Signals!CallSignal, Signals!Lock, Signals!Spurious, Signals!Timeout, Signals!Relock, Signals!Increment
  <2>1. refcount' \in Nat
    BY <1>b, <2>a
  <2>2. pc' \in [Waiters -> Places]
    BY <1>0, <1>3 DEF Signals!CallSignal, Signals!Lock, Signals!Spurious, Signals!Timeout, Signals!Relock, Signals!Increment
  <2>3. QED
    BY <2>0, <2>1, <2>2, <1>a
<1>4. ASSUME NEW t \in Waiters, Signals!Test(t) \/ Signals!Takes(t) \/ Signals!TimesOut(t)
      PROVE  Signals!Types'
  <2>0. UNCHANGED <<op, before, key>>
    BY <1>4 DEF Signals!Test, Signals!Takes, Signals!TimesOut
  <2>1. refcount' \in Nat
    BY <1>b, <1>4 DEF Signals!Test, Signals!Takes, Signals!TimesOut
  <2>2. pc' \in [Waiters -> Places]
    BY <1>0, <1>4 DEF Signals!Test, Signals!Takes, Signals!TimesOut
  <2>3. QED
    BY <2>0, <2>1, <2>2, <1>a
<1>5. ASSUME NEW t \in Waiters, Signals!Notify(t)
      PROVE  Signals!Types'
  <2>1. UNCHANGED <<op, before, key>> /\ refcount' \in Nat /\ pc' \in [Waiters -> Places]
    BY <1>0, <1>5 DEF Signals!Notify
  <2>2. QED
    BY <2>1, <1>a
<1>6. QED
  BY <1>1, <1>2, <1>3, <1>4, <1>5
     DEF Signals!Next, Signals!WaitStep, Signals!SemWait, Signals!SemTimedwait, Signals!DispatchWait,
         Signals!WaitForSingleObject

\* With waits that never give up, no step leaves a sleeper behind: a thread
\* goes to sleep at value 0 only, whoever takes one leaves the awake with it,
\* and whoever adds one is awake until it has woken somebody.
LEMMA SleepersNext ==
  ASSUME Signals!Types, Signals!SleepersWoken, Signals!Next
  PROVE  Signals!SleepersWoken'
<1> DEFINE n == Cardinality(Signals!Awake)
           A == Signals!Awake
<1> USE DEF Signals!unchanged
<1>1. SUFFICES ASSUME op' = "cv", before' = {INFINITE}, Signals!Asleep' # {}
               PROVE  refcount' <= n'
  BY SignalsCount DEF Signals!SleepersWoken
<1>0. UNCHANGED <<op, before>>
  BY DEF Signals!Next, Signals!AllWait, Signals!vars, Signals!CallWait, Signals!CallSignal,
     Signals!WaitStep, Signals!Lock, Signals!Test, Signals!Spurious, Signals!Timeout, Signals!Relock,
     Signals!Increment, Signals!Notify, Signals!SemWait, Signals!SemTimedwait, Signals!DispatchWait,
     Signals!WaitForSingleObject, Signals!Takes, Signals!TimesOut
<1>2. op = "cv" /\ before = {INFINITE} /\ \A t \in Waiters : key[t] = INFINITE
  BY <1>0, <1>1 DEF Signals!Types
<1>3. refcount \in Nat /\ n \in Nat /\ \A t : Cardinality(A \cup {t}) = n + (IF t \in A THEN 0 ELSE 1)
                                         /\ Cardinality(A \ {t}) = n - (IF t \in A THEN 1 ELSE 0)
  BY AwakeCount DEF Signals!Types
<1>4. Signals!Asleep # {} => refcount <= n
  BY <1>2, SignalsCount DEF Signals!SleepersWoken
<1> HIDE DEF n
<1> USE DEF Signals!Asleep, Signals!Goes, Signals!Returns
<1>5. CASE Signals!AllWait
  <2>1. A' = A /\ UNCHANGED <<refcount, pc>>
    BY <1>5 DEF Signals!AllWait, Signals!vars, Signals!Awake
  <2>2. QED
    BY <1>1, <1>4, <2>1 DEF n
<1>6. ASSUME NEW t \in Waiters, \/ Signals!CallWait(t) \/ Signals!CallSignal(t)
                                \/ Signals!Lock(t) /\ pc[t] = "lock to signal"
      PROVE  refcount' <= n'
  <2>1. A' = A /\ refcount' = refcount /\ Signals!Asleep' = Signals!Asleep
    BY <1>2, <1>6 DEF Signals!CallWait, Signals!CallSignal, Signals!Lock, Signals!Types, Signals!Awake
  <2>2. QED
    BY <1>1, <1>4, <2>1 DEF n
<1>7. ASSUME NEW t \in Waiters, Signals!Lock(t), pc[t] = "lock"
      PROVE  refcount' <= n'
  <2>1. A' = A \cup {t} /\ refcount' = refcount /\ Signals!Asleep' = Signals!Asleep
    BY <1>2, <1>7 DEF Signals!Lock, Signals!Types, Signals!Awake
  <2>2. QED
    BY <1>1, <1>3, <1>4, <2>1 DEF n
<1>8. ASSUME NEW t \in Waiters, Signals!Test(t)
      PROVE  refcount' <= n'
  <2>1. A' = A \ {t} /\ t \in A
    BY <1>8 DEF Signals!Test, Signals!Types, Signals!Awake
  <2>2. n' = n - 1
    BY <1>3, <2>1 DEF n
  <2>3. CASE refcount = 0
    <3>1. refcount' = 0
      BY <1>8, <2>3 DEF Signals!Test
    <3>2. t \in A => n >= 1
      <4>1. Cardinality(A \ {t}) \in Nat
        BY AwakeCount, FS_RemoveElement, FS_CardinalityType
      <4>2. QED
        BY <1>3, <4>1
    <3>3. QED
      BY <1>3, <2>1, <2>2, <3>1, <3>2
  <2>4. CASE refcount # 0
    <3>1. Signals!Asleep' = Signals!Asleep /\ refcount' = refcount - 1
      BY <1>8, <2>4 DEF Signals!Test, Signals!Types
    <3>2. QED
      BY <1>1, <1>3, <1>4, <2>2, <3>1
  <2>5. QED
    BY <2>3, <2>4
<1>9. ASSUME NEW t \in Waiters, Signals!Spurious(t)
      PROVE  refcount' <= n'
  <2>1. A' = A \cup {t} /\ refcount' = refcount /\ Signals!Asleep # {}
    BY <1>9 DEF Signals!Spurious, Signals!Types, Signals!Awake
  <2>2. QED
    BY <1>3, <1>4, <2>1 DEF n
<1>10. ASSUME NEW t \in Waiters, Signals!Timeout(t)
       PROVE  FALSE
  BY <1>2, <1>10 DEF Signals!Timeout
<1>11. ASSUME NEW t \in Waiters, Signals!Relock(t)
       PROVE  refcount' <= n'
  <2>1. A' = A /\ refcount' = refcount /\ Signals!Asleep' = Signals!Asleep
    BY <1>11 DEF Signals!Relock, Signals!Types, Signals!Awake
  <2>2. QED
    BY <1>1, <1>4, <2>1 DEF n
<1>12. ASSUME NEW t \in Waiters, Signals!Increment(t)
       PROVE  refcount' <= n'
  <2>1. A' = A \cup {t} /\ t \notin A /\ refcount' = refcount + 1 /\ Signals!Asleep' = Signals!Asleep
    BY <1>12 DEF Signals!Increment, Signals!Types, Signals!Awake
  <2>2. QED
    BY <1>1, <1>3, <1>4, <2>1 DEF n
<1>13. ASSUME NEW t \in Waiters, Signals!Notify(t)
       PROVE  refcount' <= n'
  <2>1. Signals!Asleep # {}
    BY <1>1, <1>13 DEF Signals!Notify, Signals!Types
  <2>2. PICK u \in Signals!Asleep : pc' = [pc EXCEPT ![t] = "ready", ![u] = "woken"]
    BY <1>13, <2>1 DEF Signals!Notify, Signals!Notifies
  <2>3. refcount' = refcount /\ A' = (A \ {t}) \cup {u} /\ t \in A /\ u \notin A
    BY <1>13, <2>2 DEF Signals!Notify, Signals!Types, Signals!Awake
  <2>4. Cardinality((A \ {t}) \cup {u}) = Cardinality(A)
    <3>1. IsFiniteSet(A \ {t}) /\ Cardinality(A \ {t}) = Cardinality(A) - 1
      BY <2>3, AwakeCount, FS_RemoveElement
    <3>2. Cardinality((A \ {t}) \cup {u}) = Cardinality(A \ {t}) + 1
      BY <2>3, <3>1, FS_AddElement
    <3>3. QED
      BY <3>1, <3>2, AwakeCount
  <2>5. QED
    BY <1>4, <2>1, <2>3, <2>4 DEF n
<1>14. QED
  BY <1>2, <1>5, <1>6, <1>7, <1>8, <1>9, <1>10, <1>11, <1>12, <1>13
     DEF Signals!Next, Signals!WaitStep, Signals!Lock, Signals!SemWait, Signals!SemTimedwait,
         Signals!DispatchWait, Signals!WaitForSingleObject

\* The types of the semaphores hold, and who is awake is enough for what was
\* signalled and not taken.
LEMMA SemaphoreInvariant == SpecLocking => []SemaphoreInv
<1>1. ASSUME InitLocking
      PROVE  SemaphoreInv
  <2>1. SUFFICES ASSUME part = "semaphore"
                 PROVE  Signals!Types /\ Signals!SleepersWoken
    BY DEF SemaphoreInv
  <2>2. Signals!Init
    BY <1>1, <2>1 DEF InitLocking
  <2>3. QED
    BY <2>2, SemaphoreAssumption DEF Signals!Init, Signals!Types, Signals!SleepersWoken, Signals!Asleep
<1>2. ASSUME SemaphoreInv, [NextLocking]_vars
      PROVE  SemaphoreInv'
  <2>1. CASE UNCHANGED vars
    BY <1>2, <2>1 DEF vars, SemaphoreInv, Signals!Types, Signals!SleepersWoken, Signals!Asleep, Signals!Awake
  <2>2. CASE part = "semaphore" /\ Signals!Next
    BY <1>2, <2>2, SemaphoreTypes, SleepersNext, PartStays DEF SemaphoreInv
  <2>3. QED
    BY <1>2, <2>1, <2>2, PartStays DEF SemaphoreInv
<1>3. QED
  BY <1>1, <1>2, PTL DEF SpecLocking

\* While threads sleep in a wait without timeout of the semaphore that is
\* made of a mutex and a condition variable, what was signalled and not taken
\* is matched by threads that are awake, or about to notify: no signal is
\* lost, with any number of threads and spurious wake-ups.
THEOREM NoSignalLost == SpecLocking => []SleepersWoken
<1>1. SemaphoreInv => SleepersWoken
  BY DEF SemaphoreInv, SleepersWoken
<1>2. QED
  BY <1>1, SemaphoreInvariant, PTL

-----------------------------------------------------------------------------
(* Size classes.                                                           *)

ClassesInv == part = "classes" => Classes!IInv

\* A product grows with its factor.
LEMMA ProductIs ==
  ASSUME NEW i \in Nat, NEW j \in Nat, NEW r \in Nat
  PROVE  /\ i * r \in Nat
         /\ i <= j => i * r <= j * r
         /\ i < j => i * r + r <= j * r
<1>1. i * r \in Nat
  OBVIOUS
<1>2. ASSUME NEW k \in Nat, NEW l \in Nat, k <= l
      PROVE  k * r <= l * r
  <2>1. PICK d \in Nat : l = k + d
    <3>1. l - k \in Nat /\ l = k + (l - k)
      BY <1>2
    <3>2. QED
      BY <3>1
  <2>2. l * r = k * r + d * r
    BY <2>1
  <2>3. d * r \in Nat /\ k * r \in Nat
    OBVIOUS
  <2>4. QED
    BY <2>2, <2>3
<1>3. (i + 1) * r = i * r + r
  OBVIOUS
<1>4. i < j => i + 1 <= j
  OBVIOUS
<1>5. QED
  BY <1>1, <1>2, <1>3, <1>4

\* What is asked of the system is enough, whatever the size of a page.
LEMMA RoundedIs ==
  ASSUME shared \in Nat, NEW n \in Nat
  PROVE  Classes!Rounded(n) \in Nat /\ n <= Classes!Rounded(n)
<1>1. CASE shared = 0
  BY <1>1 DEF Classes!Rounded
<1>2. CASE shared # 0
  <2> DEFINE m == n + shared - 1
             k == m \div shared
  <2>1. m \in Nat
    BY <1>2
  <2>2. k \in Int /\ shared * k <= m
    BY <1>2, <2>1
  <2>3. m - shared * k < shared
    BY <1>2, <2>1
  <2> HIDE DEF k
  <2>4. k * shared \in Int /\ k * shared = shared * k /\ n <= k * shared
    BY <1>2, <2>2, <2>3
  <2>5. Classes!Rounded(n) = k * shared
    BY <1>2 DEF Classes!Rounded, k
  <2>6. QED
    BY <2>4, <2>5
<1>3. QED
  BY <1>1, <1>2

\* The first region, of no unit, and those of a batch.
LEMMA ClassesInit ==
  ASSUME InitLocking, part = "classes"
  PROVE  Classes!IInv
<1>1. Classes!Init
  BY DEF InitLocking
<1>2. shared \in Nat
  BY <1>1, SizesAssumption DEF Classes!Init
<1>3. op \in [Classes!Pools -> Nat \ {0}]
  <2>1. ASSUME NEW p \in Classes!Pools
        PROVE  Classes!AdjustIncGrow(p, shared) \in Nat \ {0}
    <3> DEFINE R == Classes!Realsize[p]
               q == shared \div R
    <3>1. R \in Nat /\ R > 0 /\ BatchOf(p) \in Nat /\ BatchOf(p) > 0
      BY SizesAssumption
    <3>2. BatchOf(p) * R >= R
      BY <3>1, ProductIs, 1 * R = R
    <3>3. ASSUME BatchOf(p) * R < shared
          PROVE  q \in Nat \ {0}
      <4> HIDE DEF R
      <4>1. q \in Int /\ shared - R * q < R
        BY <1>2, <3>1
      <4>2. R < shared /\ BatchOf(p) * R \in Nat
        BY <1>2, <3>1, <3>2, <3>3
      <4> HIDE DEF q
      <4>3. q > 0
        <5>1. q <= 0 => R * q <= 0
          BY <3>1, <4>1
        <5>2. R * q \in Int
          BY <3>1, <4>1
        <5>3. QED
          BY <1>2, <3>1, <4>1, <4>2, <5>1, <5>2
      <4>4. QED
        BY <4>1, <4>3
    <3>4. QED
      BY <3>1, <3>3 DEF Classes!AdjustIncGrow
  <2>2. QED
    BY <1>1, <2>1 DEF Classes!Init
<1>4. node = <<>> /\ before = <<>> /\ b = 1 /\ retval = {} /\ DOMAIN <<>> = {}
  BY <1>1 DEF Classes!Init
<1>5. QED
  BY <1>2, <1>3, <1>4 DEF Classes!IInv, Classes!Types, Classes!Below, Classes!UnitsApart

\* A step that leaves the units where they are.
LEMMA UnitsStay ==
  ASSUME Classes!IInv, DOMAIN node' = DOMAIN node,
         shared' = shared, op' = op, b' = b, retval' = retval, before' = before
  PROVE  Classes!IInv'
BY DEF Classes!IInv, Classes!Types, Classes!Below, Classes!UnitsApart

\* A batch lies behind all the units there are, side by side in its region.
LEMMA GrowsIs ==
  ASSUME Classes!IInv, NEW p \in Classes!Pools, NEW size, Classes!Grows(p, size),
         shared' = shared, op' = op
  PROVE  Classes!IInv'
<1> DEFINE R == Classes!Realsize[p]
           n == op[p]
           allocsize == Classes!Rounded(R * n)
           new == {b + i * R : i \in 0 .. n - 1}
<1>1. /\ shared \in Nat /\ op \in [Classes!Pools -> Nat \ {0}] /\ b \in Nat
      /\ DOMAIN node = DOMAIN before /\ DOMAIN node \subseteq Nat
      /\ \A a \in DOMAIN before : before[a] \in Classes!Pools
      /\ Classes!Below
  BY DEF Classes!IInv, Classes!Types
<1>2. R \in Nat /\ R > 0 /\ n \in Nat /\ R * n \in Nat /\ n * R = R * n
  BY <1>1, SizesAssumption
<1>3. allocsize \in Nat /\ n * R <= allocsize
  BY <1>1, <1>2, RoundedIs
<1>4. /\ b' = b + allocsize /\ retval' = retval \cup {<<b, allocsize>>}
      /\ before' = [a \in DOMAIN before \cup new |-> IF a \in new THEN p ELSE before[a]]
      /\ DOMAIN node' = DOMAIN node \cup new
  BY DEF Classes!Grows, Classes!Takes, Classes!Taken, Classes!grow, Classes!Carved
<1> HIDE DEF allocsize
<1>5. \A i \in 0 .. n - 1 : i \in Nat /\ i < n /\ i * R \in Nat /\ i * R + R <= n * R
  BY <1>2, ProductIs
<1>6. \A a \in new : a \in Nat /\ b <= a /\ a + R <= b + allocsize
  BY <1>1, <1>2, <1>3, <1>5
<1>7. \A a, c \in new : a < c => a + R <= c
  <2>1. SUFFICES ASSUME NEW i \in 0 .. n - 1, NEW j \in 0 .. n - 1, b + i * R < b + j * R
                 PROVE  b + i * R + R <= b + j * R
    OBVIOUS
  <2>2. i * R < j * R /\ i * R \in Nat /\ j * R \in Nat
    BY <1>1, <1>5, <2>1
  <2>3. i < j
    <3>1. i \in Nat /\ j \in Nat
      BY <1>5
    <3>2. j <= i => j * R <= i * R
      BY <1>2, <3>1, ProductIs
    <3>3. QED
      BY <2>2, <3>1, <3>2
  <2>4. i * R + R <= j * R
    BY <1>2, <1>5, <2>3, ProductIs
  <2>5. QED
    BY <1>1, <1>2, <2>2, <2>4
<1> HIDE DEF new, n
<1>8. \A a \in DOMAIN node :
        /\ a \in Nat /\ Classes!Realsize[before[a]] \in Nat \ {0}
        /\ a + Classes!Realsize[before[a]] <= b
        /\ a < b
  <2>1. TAKE a \in DOMAIN node
  <2>2. a \in Nat /\ Classes!Realsize[before[a]] \in Nat \ {0}
    BY <1>1, SizesAssumption
  <2>3. PICK r \in retval : r[1] <= a /\ a + Classes!Realsize[before[a]] <= r[1] + r[2]
    BY DEF Classes!IInv, Classes!UnitsApart
  <2>4. r[1] \in Nat /\ r[2] \in Nat /\ r[1] + r[2] <= b
    BY <1>1 DEF Classes!Below
  <2>5. QED
    BY <1>1, <2>2, <2>3, <2>4
<1>9. \A a \in DOMAIN node : a \notin new
  BY <1>1, <1>6, <1>8
<1>10. /\ \A a \in new : before'[a] = p
       /\ \A a \in DOMAIN node : before'[a] = before[a]
       /\ DOMAIN before' = DOMAIN before \cup new
  BY <1>1, <1>4, <1>9
<1>11. Classes!Types'
  BY <1>1, <1>3, <1>4, <1>6, <1>10 DEF Classes!Types, Classes!Pools
<1>12. Classes!Below'
  <2>1. \A r \in retval : r[1] \in Nat /\ r[2] \in Nat /\ r[1] + r[2] <= b + allocsize
    BY <1>1, <1>3 DEF Classes!Below
  <2>2. QED
    BY <1>1, <1>3, <1>4, <2>1 DEF Classes!Below
<1>13. Classes!UnitsApart'
  <2> DEFINE end(a) == a + Classes!Realsize[before'[a]]
  <2>1. \A a \in new : end(a) = a + R
    BY <1>10
  <2>2. \A a \in DOMAIN node : end(a) = a + Classes!Realsize[before[a]]
    BY <1>10
  <2>3. \A a \in DOMAIN node : \E r \in retval' : r[1] <= a /\ end(a) <= r[1] + r[2]
    BY <1>4, <2>2 DEF Classes!IInv, Classes!UnitsApart
  <2>4. \A a \in new : \E r \in retval' : r[1] <= a /\ end(a) <= r[1] + r[2]
    BY <1>4, <1>6, <2>1
  <2>5. \A a, c \in DOMAIN node : a < c => end(a) <= c
    BY <2>2 DEF Classes!IInv, Classes!UnitsApart
  <2>6. \A a \in DOMAIN node, c \in new : end(a) <= c
    BY <1>1, <1>6, <1>8, <2>2
  <2>7. \A a \in new, c \in DOMAIN node : ~(a < c)
    BY <1>1, <1>6, <1>8
  <2>8. \A a, c \in new : a < c => end(a) <= c
    BY <1>7, <2>1
  <2>9. \A a \in DOMAIN node' :
          /\ \E r \in retval' : r[1] <= a /\ end(a) <= r[1] + r[2]
          /\ \A c \in DOMAIN node' : a < c => end(a) <= c
    BY <1>4, <2>3, <2>4, <2>5, <2>6, <2>7, <2>8
  <2>10. QED
    BY <2>9 DEF Classes!UnitsApart, Classes!Realsize, Classes!Size, Classes!Pools
<1>14. QED
  BY <1>11, <1>12, <1>13 DEF Classes!IInv

\* Every call of the size classes.
LEMMA ClassesNext ==
  ASSUME Classes!IInv, Classes!Next
  PROVE  Classes!IInv'
<1>1. ASSUME NEW size, Classes!alloc(size)
      PROVE  Classes!IInv'
  <2> DEFINE p == Classes!PoolOf(size)
  <2>1. shared' = shared /\ op' = op
    BY <1>1 DEF Classes!alloc
  <2>2. CASE Classes!Refuses(size)
    BY <2>1, <2>2, UnitsStay DEF Classes!Refuses, Classes!memory
  <2>3. CASE Classes!Takes(p, node, bucket[p], size) /\ UNCHANGED <<b, retval, before>>
    BY <2>1, <2>3, UnitsStay DEF Classes!Takes, Classes!Taken
  <2>4. CASE p \in Classes!Pools /\ Classes!Grows(p, size)
    BY <2>1, <2>4, GrowsIs
  <2>5. QED
    BY <1>1, <2>2, <2>3, <2>4 DEF Classes!alloc
<1>2. ASSUME NEW a, Classes!free(a)
      PROVE  Classes!IInv'
  BY <1>2, UnitsStay DEF Classes!free, Classes!Returned
<1>3. ASSUME NEW a, NEW size, Classes!setSize(a, size)
      PROVE  Classes!IInv'
  BY <1>3, UnitsStay DEF Classes!setSize
<1>4. QED
  BY <1>1, <1>2, <1>3 DEF Classes!Next

\* The other parts do not touch the size classes.
LEMMA ClassesStay ==
  ASSUME [NextLocking]_vars
  PROVE  part = "classes" => Classes!Next \/ UNCHANGED vars
BY DEF NextLocking, vars, ClassesStep, PooledStep, TableStep, SemaphoreStep, EventStep

(* The units that the size classes hand out, with their padding, lie in    *)
(* what the system gave and do not overlap, whatever the number and the    *)
(* sizes of the pools, their batches and the size of a page                *)
(* (FixedAllocatorNolock::grow and alloc).                                 *)
THEOREM UnitsNeverOverlap == SpecLocking => []UnitsApart
<1>1. InitLocking => ClassesInv
  BY ClassesInit DEF ClassesInv
<1>2. ClassesInv /\ [NextLocking]_vars => ClassesInv'
  <2>1. SUFFICES ASSUME ClassesInv, [NextLocking]_vars, part' = "classes"
                 PROVE  Classes!IInv'
    BY DEF ClassesInv
  <2>2. Classes!IInv /\ (Classes!Next \/ UNCHANGED vars)
    BY <2>1, PartStays, ClassesStay DEF ClassesInv
  <2>3. CASE UNCHANGED vars
    BY <2>2, <2>3, UnitsStay DEF vars
  <2>4. QED
    BY <2>2, <2>3, ClassesNext
<1>3. ClassesInv => UnitsApart
  BY DEF ClassesInv, UnitsApart, Classes!IInv
<1>4. QED
  BY <1>1, <1>2, <1>3, PTL DEF SpecLocking

-----------------------------------------------------------------------------
(* Sequences without repetitions.                                          *)

\* The instance's operators on sequences are the library's.
LEMMA SameOperators ==
  ASSUME NEW s
  PROVE  /\ Table!Range(s) = Range(s)
         /\ Table!IsInjective(s) = IsInjective(s)
         /\ Table!Cardinality(s) = Cardinality(s)
BY DEF Table!Range, Range, Table!IsInjective, IsInjective, Table!Cardinality, Cardinality

\* A finite set of numbers that is not empty has a least one: the one with
\* the fewest below it.
LEMMA LeastIs ==
  ASSUME NEW n \in Nat, NEW I \in SUBSET (1..n), I # {}
  PROVE  Table!Min(I) \in I /\ \A y \in I : Table!Min(I) <= y
<1> DEFINE Below(x) == {y \in I : y <= x}
           T == {Below(x) : x \in I}
<1>1. IsFiniteSet(I) /\ T \subseteq FiniteSubsetsOf(I) /\ T # {}
  <2>1. IsFiniteSet(1..n)
    BY FS_Interval
  <2>2. IsFiniteSet(I)
    BY <2>1, FS_Subset
  <2>3. FiniteSubsetsOf(I) = SUBSET I
    BY <2>2, FS_FiniteSubsetsOfFinite
  <2>4. T \subseteq SUBSET I /\ T # {}
    OBVIOUS
  <2>5. QED
    BY <2>2, <2>3, <2>4
<1>2. PICK B \in T : \A C \in T : ~ (<<C, B>> \in StrictSubsetOrdering(I))
  BY <1>1, FS_StrictSubsetOrderingWellFounded, WFMin
<1>3. PICK x \in I : B = Below(x)
  BY <1>2
<1>4. ASSUME NEW y \in I, ~ (x <= y)
      PROVE  FALSE
  <2>1. Below(y) \in T /\ Below(y) \subseteq B /\ Below(y) # B /\ B \subseteq I
    <3>1. x \in Int /\ y \in Int /\ y < x /\ \A z \in I : z \in Int
      BY <1>4
    <3>2. x \in B /\ x \notin Below(y)
      BY <1>3, <1>4, <3>1
    <3>3. \A z \in Below(y) : z \in B
      BY <1>3, <3>1
    <3>4. QED
      BY <1>3, <3>2, <3>3
  <2>2. <<Below(y), B>> \in StrictSubsetOrdering(I)
    BY <2>1 DEF StrictSubsetOrdering
  <2>3. QED
    BY <1>2, <2>1, <2>2
<1>5. QED
  BY <1>4 DEF Table!Min

\* Of some towers one is the tallest.
LEMMA TallestIs ==
  ASSUME NEW I, I # {}, NEW f, \A i \in I : f[i] \in 1 .. MaxHeight
  PROVE  \E i \in I : \A j \in I : f[j] <= f[i]
<1> DEFINE G == {MaxHeight + 1 - f[i] : i \in I}
<1>1. MaxHeight \in Nat
  BY TableAssumption
<1>2. G \in SUBSET (1 .. MaxHeight) /\ G # {}
  BY <1>1
<1>3. Table!Min(G) \in G /\ \A y \in G : Table!Min(G) <= y
  <2> HIDE DEF G
  <2>1. QED
    BY <1>1, <1>2, LeastIs
<1>4. PICK i \in I : Table!Min(G) = MaxHeight + 1 - f[i]
  BY <1>3
<1>5. \A j \in I : MaxHeight + 1 - f[i] <= MaxHeight + 1 - f[j]
  BY <1>3, <1>4
<1>6. QED
  BY <1>1, <1>5

\* Without one of its elements a sequence has the others, in their order.
LEMMA RemoveAtIs ==
  ASSUME NEW S, NEW s \in Seq(S), NEW i \in 1..Len(s)
  PROVE  LET r == Table!RemoveAt(s, i)
         IN  /\ r \in Seq(S) /\ Len(r) = Len(s) - 1
             /\ \A j \in 1..Len(r) : r[j] = IF j < i THEN s[j] ELSE s[j + 1]
<1> DEFINE u == SubSeq(s, 1, i - 1)
           v == SubSeq(s, i + 1, Len(s))
<1>1. u \in Seq(S) /\ Len(u) = i - 1 /\ \A j \in 1..(i - 1) : u[j] = s[j]
  BY SubSeqProperties
<1>2. v \in Seq(S) /\ Len(v) = Len(s) - i /\ \A j \in 1..(Len(s) - i) : v[j] = s[i + j]
  BY SubSeqProperties
<1> HIDE DEF u, v
<1>3. /\ u \o v \in Seq(S) /\ Len(u \o v) = Len(s) - 1
      /\ \A j \in 1..(Len(s) - 1) : (u \o v)[j] = IF j <= i - 1 THEN u[j] ELSE v[j - (i - 1)]
  <2>1. u \o v \in Seq(S) /\ Len(u \o v) = Len(u) + Len(v)
    BY <1>1, <1>2, ConcatProperties
  <2>2. \A j \in 1..(Len(u) + Len(v)) : (u \o v)[j] = IF j <= Len(u) THEN u[j] ELSE v[j - Len(u)]
    BY <1>1, <1>2, ConcatProperties
  <2>3. QED
    BY <1>1, <1>2, <2>1, <2>2, LenProperties
<1>4. \A j \in 1..(Len(s) - 1) : (u \o v)[j] = IF j < i THEN s[j] ELSE s[j + 1]
  <2>1. SUFFICES ASSUME NEW j \in 1..(Len(s) - 1)
                 PROVE  (u \o v)[j] = IF j < i THEN s[j] ELSE s[j + 1]
    OBVIOUS
  <2>2. Len(s) \in Nat /\ j \in Nat /\ i \in Nat
    BY LenProperties
  <2>3. CASE j < i
    BY <1>1, <1>3, <2>2, <2>3
  <2>4. CASE ~ (j < i)
    <3>1. j - (i - 1) \in 1..(Len(s) - i) /\ i + (j - (i - 1)) = j + 1
      BY <2>2, <2>4
    <3>2. (u \o v)[j] = v[j - (i - 1)]
      BY <1>3, <2>2, <2>4
    <3>3. v[j - (i - 1)] = s[i + (j - (i - 1))]
      BY <1>2, <3>1
    <3>4. QED
      BY <2>4, <3>1, <3>2, <3>3
  <2>5. QED
    BY <2>3, <2>4
<1>5. QED
  BY <1>3, <1>4 DEF Table!RemoveAt, u, v

\* Removing an element of a sequence without repetitions removes it for good.
LEMMA RemoveFirstIs ==
  ASSUME NEW S, NEW s \in Seq(S), NEW e \in Range(s), IsInjective(s)
  PROVE  LET r == Table!RemoveFirst(s, e)
         IN  r \in Seq(S) /\ IsInjective(r) /\ Range(r) = Range(s) \ {e}
<1> DEFINE I == {j \in 1..Len(s) : s[j] = e}
           i == Table!Min(I)
           r == Table!RemoveAt(s, i)
<1>1. \E j \in 1..Len(s) : s[j] = e
  BY RangeEquality
<1>2. i \in 1..Len(s) /\ s[i] = e
  <2>1. I \in SUBSET (1..Len(s)) /\ I # {} /\ Len(s) \in Nat
    BY <1>1, LenProperties
  <2>2. i \in I
    BY <2>1, LeastIs
  <2>3. QED
    BY <2>2
<1>3. Table!RemoveFirst(s, e) = r
  BY <1>1 DEF Table!RemoveFirst, Table!SelectInSeq
<1> HIDE DEF i
<1>4. /\ r \in Seq(S) /\ Len(r) = Len(s) - 1
      /\ \A j \in 1..Len(r) : r[j] = IF j < i THEN s[j] ELSE s[j + 1]
  BY <1>2, RemoveAtIs
<1> HIDE DEF r
<1>5. IsInjective(r)
  BY <1>2, <1>4 DEF IsInjective
<1>6. Range(r) = Range(s) \ {e}
  <2>1. Range(r) = {r[j] : j \in 1..Len(r)} /\ Range(s) = {s[j] : j \in 1..Len(s)}
    BY <1>4, RangeEquality
  <2>2. ASSUME NEW x \in Range(r)
        PROVE  x \in Range(s) \ {e}
    <3>1. PICK j \in 1..Len(r) : x = r[j]
      BY <2>1, <2>2
    <3>2. PICK k \in 1..Len(s) : x = s[k] /\ k # i
      BY <1>2, <1>4, <3>1, LenProperties
    <3>3. s[k] # s[i]
      BY <1>2, <3>2, LenProperties DEF IsInjective
    <3>4. QED
      BY <1>2, <2>1, <3>2, <3>3
  <2>3. ASSUME NEW x \in Range(s) \ {e}
        PROVE  x \in Range(r)
    <3>1. PICK j \in 1..Len(s) : x = s[j]
      BY <2>1
    <3>2. j # i
      BY <1>2, <3>1
    <3>3. CASE j < i
      BY <1>2, <1>4, <2>1, <3>1, <3>3
    <3>4. CASE j > i
      <4>1. j - 1 \in 1..Len(r) /\ r[j - 1] = s[j]
        BY <1>2, <1>4, <3>4
      <4>2. QED
        BY <2>1, <3>1, <4>1
    <3>5. QED
      BY <1>2, <3>2, <3>3, <3>4
  <2>4. QED
    BY <2>2, <2>3
<1>7. QED
  BY <1>3, <1>4, <1>5, <1>6

\* An element that is new stays the only one of its kind.
LEMMA AppendIs ==
  ASSUME NEW S, NEW s \in Seq(S), NEW e \in S \ Range(s), IsInjective(s)
  PROVE  LET r == Append(s, e)
         IN  r \in Seq(S) /\ IsInjective(r) /\ Range(r) = Range(s) \cup {e}
<1> DEFINE r == Append(s, e)
<1>1. /\ r \in Seq(S) /\ Len(r) = Len(s) + 1
      /\ \A j \in 1..Len(s) : r[j] = s[j]
      /\ r[Len(s) + 1] = e
  BY AppendProperties
<1> HIDE DEF r
<1>2. Range(r) = {r[j] : j \in 1..Len(r)} /\ Range(s) = {s[j] : j \in 1..Len(s)}
  BY <1>1, RangeEquality
<1>3. IsInjective(r)
  BY <1>1, <1>2 DEF IsInjective
<1>4. Range(r) = Range(s) \cup {e}
  <2>1. ASSUME NEW x \in Range(r)
        PROVE  x \in Range(s) \cup {e}
    BY <1>1, <1>2
  <2>2. ASSUME NEW x \in Range(s) \cup {e}
        PROVE  x \in Range(r)
    BY <1>1, <1>2
  <2>3. QED
    BY <2>1, <2>2
<1>5. QED
  BY <1>1, <1>3, <1>4 DEF r

-----------------------------------------------------------------------------
(* The parts of the invariant, one lemma each.                             *)

\* The keys' buckets are buckets.
LEMMA Constants ==
  /\ Nbuckets \in Nat \ {0} /\ 0 \in Table!Buckets /\ Table!Buckets \subseteq Nat
  /\ \A k \in Keys : Table!BucketOf(k) \in Table!Buckets
BY TableAssumption DEF Table!Buckets, Table!BucketOf

\* What a search of the bucket finds.
LEMMA SearchIs ==
  ASSUME Table!IInv, NEW t \in Threads, Table!Search(t)
  PROVE  \/ /\ found' = [found EXCEPT ![t] = Null]
            /\ \/ op[t] \in {"insert", "clear"}
               \/ \A n \in Range(bucket[b[t]]) : node[n].key # key[t]
         \/ \E n \in Range(bucket[b[t]]) :
              node[n].key = key[t] /\ found' = [found EXCEPT ![t] = n]
<1> DEFINE s == bucket[b[t]]
           I == Table!Equal(s, key[t])
           T == {i \in I : \A j \in I : node[s[j]].height <= node[s[i]].height}
<1>1. /\ s \in Seq(NodeNames) /\ Len(s) \in Nat /\ DOMAIN s = 1..Len(s)
      /\ Range(s) = {s[j] : j \in 1..Len(s)}
  BY RangeEquality, LenProperties DEF Table!IInv, Table!Types
<1>2. I = {j \in 1..Len(s) : node[s[j]].key = key[t]}
  BY <1>1 DEF Table!Equal
<1>3. found' = [found EXCEPT ![t] =
        IF op[t] \in {"insert", "clear"} \/ I = {} THEN Null
        ELSE IF op[t] \in {"lookup", "lookupApply"} THEN s[Table!Min(T)] ELSE s[Table!Min(I)]]
  BY DEF Table!Search, Table!seek, Table!firstEqual
<1>4. \A j \in I : node[s[j]].height \in 1 .. MaxHeight
  <2>1. TAKE j \in I
  <2>2. s[j] \in Range(s) /\ s[j] \in NodeNames /\ b[t] \in Table!Buckets
    BY <1>1, <1>2 DEF Table!IInv, Table!Types
  <2>3. node[s[j]] # Null
    BY <2>2, SameOperators DEF Table!IInv, Table!NodesPlaced
  <2>4. QED
    BY <2>2, <2>3 DEF Table!IInv, Table!Types
<1> HIDE DEF I
<1>5. CASE I = {}
  BY <1>1, <1>2, <1>3, <1>5
<1>6. CASE I # {}
  <2>1. T # {} /\ T \subseteq I
    <3> DEFINE f == [j \in I |-> node[s[j]].height]
    <3>1. \A j \in I : f[j] \in 1 .. MaxHeight
      BY <1>4
    <3>2. \E i \in I : \A j \in I : f[j] <= f[i]
      <4> HIDE DEF f
      <4>1. QED
        BY <1>6, <3>1, TallestIs
    <3>3. QED
      BY <3>2
  <2> HIDE DEF T
  <2>2. Table!Min(I) \in I /\ Table!Min(T) \in I
    BY <1>1, <1>2, <1>6, <2>1, LeastIs
  <2>3. \A i \in I : s[i] \in Range(s) /\ node[s[i]].key = key[t]
    BY <1>1, <1>2
  <2>4. QED
    BY <1>3, <2>2, <2>3
<1>7. QED
  BY <1>5, <1>6

\* A new node is the youngest of its bucket.
LEMMA AddsIs ==
  ASSUME Table!IInv, NEW t \in Threads, Table!Adds(t), op[t] \in Table!Adding
  PROVE  \E n \in NodeNames, h \in 1 .. MaxHeight :
           /\ node[n] = Null /\ key[t] \in Keys /\ retval[t] \in Objects
           /\ node' = [node EXCEPT ![n] = [key |-> key[t], value |-> retval[t], height |-> h]]
           /\ bucket' \in [Table!Buckets -> Seq(NodeNames)]
           /\ \A i \in Table!Buckets :
                /\ Table!IsInjective(bucket'[i])
                /\ Table!Range(bucket'[i]) = Table!Range(bucket[i]) \cup (IF i = b[t] THEN {n} ELSE {})
           /\ refcount' = Table!Counted(retval[t], Null)
<1>1. PICK n \in NodeNames, h \in 1 .. MaxHeight :
        /\ node[n] = Null
        /\ node' = [node EXCEPT ![n] = [key |-> key[t], value |-> retval[t], height |-> h]]
        /\ bucket' = [bucket EXCEPT ![b[t]] = Append(@, n)]
        /\ refcount' = Table!Counted(retval[t], Null)
  BY DEF Table!Adds
<1>2. key[t] \in Keys /\ retval[t] \in Objects
  BY DEF Table!IInv, Table!Types, Table!CallsRight, Table!Adding, Table!Calls
<1>3. \A i \in Table!Buckets :
        bucket[i] \in Seq(NodeNames) /\ IsInjective(bucket[i]) /\ n \notin Range(bucket[i])
  BY <1>1, SameOperators DEF Table!IInv, Table!Types, Table!NodesPlaced
<1>4. \A i \in Table!Buckets :
        LET r == Append(bucket[i], n)
        IN  r \in Seq(NodeNames) /\ IsInjective(r) /\ Range(r) = Range(bucket[i]) \cup {n}
  BY <1>3, AppendIs
<1>5. b[t] \in Table!Buckets /\ bucket \in [Table!Buckets -> Seq(NodeNames)]
  BY DEF Table!IInv, Table!Types
<1>6. \A i \in Table!Buckets : bucket'[i] = IF i = b[t] THEN Append(bucket[i], n) ELSE bucket[i]
  BY <1>1, <1>5
<1>7. \A i \in Table!Buckets :
        /\ bucket'[i] \in Seq(NodeNames) /\ IsInjective(bucket'[i])
        /\ Range(bucket'[i]) = Range(bucket[i]) \cup (IF i = b[t] THEN {n} ELSE {})
  BY <1>3, <1>4, <1>6
<1>8. bucket' \in [Table!Buckets -> Seq(NodeNames)]
  BY <1>1, <1>4, <1>5
<1>9. QED
  BY <1>1, <1>2, <1>7, <1>8, SameOperators

\* What is deleted is the node that the search found, and no other.
LEMMA DeletesIs ==
  ASSUME Table!IInv, NEW t \in Threads, Table!Deletes(t), found[t] # Null,
         pc[t] \in {"remove", "lookupRemove"}
  PROVE  /\ found[t] \in NodeNames /\ node[found[t]] \in [key : Keys, value : Objects, height : 1 .. MaxHeight]
         /\ Table!BucketOf(node[found[t]].key) = b[t]
         /\ node' = [node EXCEPT ![found[t]] = Null]
         /\ bucket' \in [Table!Buckets -> Seq(NodeNames)]
         /\ \A i \in Table!Buckets :
              /\ Table!IsInjective(bucket'[i])
              /\ Table!Range(bucket'[i]) =
                   IF i = b[t] THEN Table!Range(bucket[i]) \ {found[t]} ELSE Table!Range(bucket[i])
         /\ before' = [u \in Threads |-> before[u] \ {found[t]}]
<1> DEFINE e == found[t]
<1>1. /\ node' = [node EXCEPT ![e] = Null]
      /\ bucket' = [bucket EXCEPT ![b[t]] = Table!RemoveFirst(@, e)]
      /\ before' = [u \in Threads |-> before[u] \ {e}]
  BY DEF Table!Deletes
<1>2. /\ e \in NodeNames /\ node[e] # Null /\ node[e] \in [key : Keys, value : Objects, height : 1 .. MaxHeight]
      /\ node[e].key = key[t]
  BY DEF Table!IInv, Table!Types, Table!FoundStays, Table!Inside
<1>3. b[t] = Table!BucketOf(key[t]) /\ b[t] \in Table!Buckets
  BY DEF Table!IInv, Table!Types, Table!CallsRight, Table!Calls
<1>4. \A i \in Table!Buckets : bucket[i] \in Seq(NodeNames) /\ IsInjective(bucket[i])
  BY SameOperators DEF Table!IInv, Table!Types, Table!NodesPlaced
<1>5. e \in Range(bucket[b[t]])
  BY <1>2, <1>3, SameOperators DEF Table!IInv, Table!NodesPlaced
<1> DEFINE r == Table!RemoveFirst(bucket[b[t]], e)
<1>6. r \in Seq(NodeNames) /\ IsInjective(r) /\ Range(r) = Range(bucket[b[t]]) \ {e}
  BY <1>3, <1>4, <1>5, RemoveFirstIs
<1>7. bucket \in [Table!Buckets -> Seq(NodeNames)]
  BY DEF Table!IInv, Table!Types
<1>8. bucket' = [bucket EXCEPT ![b[t]] = r]
  BY <1>1
<1> HIDE DEF r
<1>9. /\ bucket' \in [Table!Buckets -> Seq(NodeNames)]
      /\ \A i \in Table!Buckets : bucket'[i] = IF i = b[t] THEN r ELSE bucket[i]
  BY <1>3, <1>6, <1>7, <1>8
<1>10. QED
  BY <1>1, <1>2, <1>3, <1>4, <1>6, <1>9, SameOperators

\* What a step of a thread does to the nodes: nothing, unless it has its
\* bucket's lock and not only to look; and then only to nodes of this bucket.
NodesStay(t) == node' = node /\ bucket' = bucket
Inserts(t) ==
  \E n \in NodeNames, h \in 1 .. MaxHeight :
    /\ op[t] = pc[t] /\ op[t] \in Table!Adding /\ (op[t] = "lookupInsert" => found[t] = Null)
    /\ node[n] = Null /\ key[t] \in Keys /\ retval[t] \in Objects
    /\ node' = [node EXCEPT ![n] = [key |-> key[t], value |-> retval[t], height |-> h]]
    /\ bucket' \in [Table!Buckets -> Seq(NodeNames)]
    /\ \A i \in Table!Buckets :
         /\ Table!IsInjective(bucket'[i])
         /\ Table!Range(bucket'[i]) = Table!Range(bucket[i]) \cup (IF i = b[t] THEN {n} ELSE {})
    /\ before' = before /\ refcount' = Table!Counted(retval[t], Null)
    /\ retval' = retval /\ removedU' = removedU
Applies(t) ==
  /\ pc[t] = "lookupApply" /\ op[t] = pc[t] /\ bucket' = bucket /\ before' = before
  /\ found[t] \in NodeNames /\ node[found[t]] \in [key : Keys, value : Objects, height : 1 .. MaxHeight]
  /\ retval[t] \in Objects
  /\ Table!BucketOf(node[found[t]].key) = b[t]
  /\ node' = [node EXCEPT ![found[t]].value = retval[t]]
  /\ refcount' = Table!Counted(retval[t], node[found[t]].value)
  /\ retval' = retval /\ removedU' = removedU
Removes(t) ==
  \E gone \in SUBSET NodeNames :
    /\ op[t] = pc[t] /\ op[t] \in {"remove", "lookupRemove", "clear"}
    /\ \A n \in gone :
         /\ node[n] \in [key : Keys, value : Objects, height : 1 .. MaxHeight]
         /\ Table!BucketOf(node[n].key) = b[t]
    /\ op[t] = "clear" => \A n \in NodeNames \ gone : node[n] # Null => Table!BucketOf(node[n].key) # b[t]
    /\ node' = [n \in NodeNames |-> IF n \in gone THEN Null ELSE node[n]]
    /\ bucket' \in [Table!Buckets -> Seq(NodeNames)]
    /\ \A i \in Table!Buckets :
         /\ Table!IsInjective(bucket'[i])
         /\ Table!Range(bucket'[i]) = Table!Range(bucket[i]) \ gone
    /\ before' = [u \in Threads |-> before[u] \ gone]

\* An empty bucket's facts.
LEMMA EmptyIs == <<>> \in Seq(NodeNames) /\ IsInjective(<<>>) /\ Range(<<>>) = {}
<1>1. <<>> \in Seq(NodeNames) /\ Len(<<>>) = 0 /\ DOMAIN <<>> = {}
  BY EmptySeq, LenProperties
<1>2. QED
  BY <1>1 DEF IsInjective, Range

\* A step that changes nodes is one of these, under the lock.
LEMMA StepIs ==
  ASSUME Table!IInv, NEW t \in Threads, Table!Step(t)
  PROVE  \/ Table!Holding(t) /\ pc'[t] = "unlock" /\ op[t] = pc[t] /\ (Inserts(t) \/ Applies(t) \/ Removes(t))
         \/ NodesStay(t)
<1> USE DEF NodesStay, Table!lookups, Table!Nothing
<1>1. CASE Table!New(t) \/ Table!Drop(t) \/ Table!Call(t) \/ Table!CallClear(t) \/ Table!Return(t)
  BY <1>1 DEF Table!New, Table!Drop, Table!Call, Table!CallClear, Table!Return
<1>2. CASE Table!Acquire(t) \/ Table!Search(t) \/ Table!lookup(t) \/ Table!Release(t)
  BY <1>2 DEF Table!Acquire, Table!Search, Table!lookup, Table!Release
<1>3. ASSUME pc[t] \in {"insert", "lookupApply", "lookupInsert", "remove", "lookupRemove", "clear"}, Table!Done(t)
      PROVE  Table!Holding(t) /\ op[t] = pc[t] /\ pc'[t] = "unlock"
  BY <1>3 DEF Table!IInv, Table!Types, Table!CallsRight, Table!Calls, Table!Done, Table!Holding
<1>4. CASE Table!insert(t)
  <2>1. Table!Adds(t) /\ op[t] = "insert" /\ Table!Done(t) /\ pc[t] = "insert"
        /\ before' = before /\ retval' = retval /\ removedU' = removedU
    BY <1>3, <1>4 DEF Table!insert
  <2>2. Inserts(t)
    BY <2>1, AddsIs DEF Inserts, Table!Adding
  <2>3. QED
    BY <1>3, <2>1, <2>2
<1>5. CASE Table!lookupInsert(t)
  <2>1. CASE found[t] # Null
    BY <1>5, <2>1 DEF Table!lookupInsert
  <2>2. CASE found[t] = Null
    <3>1. Table!Adds(t) /\ op[t] = "lookupInsert" /\ Table!Done(t) /\ pc[t] = "lookupInsert"
          /\ before' = before /\ retval' = retval /\ removedU' = removedU
      BY <1>3, <1>5, <2>2 DEF Table!lookupInsert
    <3>2. Inserts(t)
      BY <2>2, <3>1, AddsIs DEF Inserts, Table!Adding
    <3>3. QED
      BY <1>3, <3>1, <3>2
  <2>3. QED
    BY <2>1, <2>2
<1>6. CASE Table!lookupApply(t)
  <2>1. CASE found[t] = Null
    BY <1>6, <2>1 DEF Table!lookupApply
  <2>2. CASE found[t] # Null
    <3>1. Table!Done(t) /\ pc[t] = "lookupApply" /\ op[t] = "lookupApply"
      BY <1>3, <1>6 DEF Table!lookupApply
    <3>2. /\ found[t] \in NodeNames /\ node[found[t]] \in [key : Keys, value : Objects, height : 1 .. MaxHeight]
          /\ node[found[t]].key = key[t] /\ b[t] = Table!BucketOf(key[t]) /\ retval[t] \in Objects
      BY <2>2, <3>1
         DEF Table!IInv, Table!Types, Table!CallsRight, Table!Calls, Table!FoundStays, Table!Inside
    <3>3. Applies(t)
      BY <1>6, <2>2, <3>1, <3>2 DEF Table!lookupApply, Applies
    <3>4. QED
      BY <1>3, <3>1, <3>3
  <2>3. QED
    BY <2>1, <2>2
<1>7. CASE Table!remove(t) \/ Table!lookupRemove(t)
  <2>1. CASE found[t] = Null
    BY <1>7, <2>1 DEF Table!remove, Table!lookupRemove
  <2>2. CASE found[t] # Null
    <3>1. Table!Deletes(t) /\ Table!Done(t) /\ pc[t] \in {"remove", "lookupRemove"}
      BY <1>7, <2>2 DEF Table!remove, Table!lookupRemove
    <3>2. Removes(t)
      <4> DEFINE gone == {found[t]}
      <4>1. gone \in SUBSET NodeNames /\ op[t] = pc[t]
        BY <1>3, <2>2, <3>1, DeletesIs
      <4>2. node' = [n \in NodeNames |-> IF n \in gone THEN Null ELSE node[n]]
        BY <2>2, <3>1, DeletesIs DEF Table!IInv, Table!Types
      <4>3. \A i \in Table!Buckets :
              /\ Table!IsInjective(bucket'[i])
              /\ Table!Range(bucket'[i]) = Table!Range(bucket[i]) \ gone
        <5>1. \A i \in Table!Buckets : i # b[t] => found[t] \notin Table!Range(bucket[i])
          BY <2>2, <3>1, DeletesIs DEF Table!IInv, Table!NodesPlaced
        <5>2. QED
          BY <2>2, <3>1, <5>1, DeletesIs
      <4>4. QED
        BY <2>2, <3>1, <4>1, <4>2, <4>3, DeletesIs DEF Removes
    <3>3. QED
      BY <1>3, <3>1, <3>2
  <2>3. QED
    BY <2>1, <2>2
<1>8. CASE Table!clear(t)
  <2> DEFINE gone == Table!Range(bucket[b[t]])
  <2>1. /\ pc[t] = "clear" /\ Table!Done(t)
        /\ node' = [n \in NodeNames |-> IF n \in gone THEN Null ELSE node[n]]
        /\ bucket' = [bucket EXCEPT ![b[t]] = <<>>]
        /\ before' = [u \in Threads |-> before[u] \ gone]
    BY <1>8 DEF Table!clear
  <2>2. bucket \in [Table!Buckets -> Seq(NodeNames)] /\ b[t] \in Table!Buckets
    BY DEF Table!IInv, Table!Types
  <2>3. gone \in SUBSET NodeNames
    BY <2>2, RangeOfSeq, SameOperators
  <2>4. \A n \in NodeNames : n \in gone <=> node[n] # Null /\ Table!BucketOf(node[n].key) = b[t]
    BY <2>2 DEF Table!IInv, Table!NodesPlaced
  <2>5. /\ bucket' \in [Table!Buckets -> Seq(NodeNames)]
        /\ \A i \in Table!Buckets : bucket'[i] = IF i = b[t] THEN <<>> ELSE bucket[i]
    BY <2>1, <2>2, EmptyIs
  <2>6. \A i \in Table!Buckets :
          /\ Table!IsInjective(bucket'[i])
          /\ Table!Range(bucket'[i]) = Table!Range(bucket[i]) \ gone
    <3>1. \A i \in Table!Buckets : i # b[t] =>
            Table!IsInjective(bucket[i]) /\ Table!Range(bucket[i]) \cap gone = {}
      <4>1. \A i \in Table!Buckets : Table!Range(bucket[i]) \subseteq NodeNames
        BY <2>2, RangeOfSeq, SameOperators
      <4>2. QED
        BY <2>2, <4>1 DEF Table!IInv, Table!NodesPlaced
    <3>2. Table!IsInjective(<<>>) /\ Table!Range(<<>>) = {}
      BY EmptyIs, SameOperators
    <3>3. QED
      BY <2>5, <3>1, <3>2
  <2>7. \A n \in gone : node[n] \in [key : Keys, value : Objects, height : 1 .. MaxHeight]
    BY <2>3, <2>4 DEF Table!IInv, Table!Types
  <2>8. Removes(t)
    <3> HIDE DEF gone
    <3>1. QED
      BY <1>3, <2>1, <2>3, <2>4, <2>5, <2>6, <2>7 DEF Removes
  <2>9. QED
    BY <1>3, <2>1, <2>8
<1>9. QED
  BY <1>1, <1>2, <1>4, <1>5, <1>6, <1>7, <1>8 DEF Table!Step

\* Every step keeps the types.
LEMMA TypesNext ==
  ASSUME Table!IInv, NEW t \in Threads, Table!Step(t)
  PROVE  Table!Types'
<1> DEFINE Nodes == [key : Keys, value : Objects, height : 1 .. MaxHeight] \cup {Null}
           Rest ==
             /\ shared \in BOOLEAN
             /\ Bucket_l \in [Table!Buckets -> [writer : Threads \cup {NoThread}, readers : SUBSET Threads]]
             /\ pc \in [Threads -> {"ready", "lock", "search", "unlock", "return", "clear"} \cup Table!Calls]
             /\ op \in [Threads -> {"none", "clear"} \cup Table!Calls]
             /\ key \in [Threads -> Keys \cup {0}] /\ b \in [Threads -> Table!Buckets]
             /\ found \in [Threads -> NodeNames \cup {Null}]
<1>1. Table!Types
  BY DEF Table!IInv
<1>2. node' \in [NodeNames -> Nodes] /\ bucket' \in [Table!Buckets -> Seq(NodeNames)]
  <2>1. CASE NodesStay(t)
    BY <1>1, <2>1 DEF NodesStay, Table!Types
  <2>2. CASE Inserts(t)
    BY <1>1, <2>2 DEF Inserts, Table!Types
  <2>3. CASE Applies(t)
    <3>1. node[found[t]].key \in Keys /\ retval[t] \in Objects /\ found[t] \in NodeNames
      BY <2>3 DEF Applies
    <3> DEFINE m == node[found[t]]
               v == [m EXCEPT !.value = retval[t]]
    <3>2. v \in [key : Keys, value : Objects, height : 1 .. MaxHeight]
      BY <2>3 DEF Applies
    <3>3. node' = [node EXCEPT ![found[t]] = v] /\ bucket' = bucket
      BY <2>3 DEF Applies
    <3> HIDE DEF v
    <3>4. QED
      BY <1>1, <3>1, <3>2, <3>3 DEF Table!Types
  <2>4. CASE Removes(t)
    BY <1>1, <2>4 DEF Removes, Table!Types
  <2>5. QED
    BY <2>1, <2>2, <2>3, <2>4, StepIs
<1>3. before' \in [Threads -> SUBSET NodeNames]
  <2>1. CASE Inserts(t) \/ Applies(t) \/ Removes(t)
    BY <1>1, <2>1 DEF Inserts, Applies, Removes, Table!Types
  <2>2. CASE NodesStay(t)
    <3>1. Table!InTable \subseteq NodeNames
      BY <1>1, RangeOfSeq, SameOperators DEF Table!InTable, Table!Types
    <3>2. CASE Table!Deletes(t)
      BY <1>1, <3>2 DEF Table!Deletes, Table!Types
    <3>3. CASE Table!clear(t)
      BY <1>1, <3>3 DEF Table!clear, Table!Types
    <3>4. CASE before' = before \/ Table!CallClear(t) \/ Table!Return(t)
      BY <1>1, <3>1, <3>4 DEF Table!CallClear, Table!Return, Table!Types
    <3>5. QED
      BY <3>2, <3>3, <3>4
         DEF Table!Step, Table!New, Table!Drop, Table!Call, Table!Acquire, Table!Search, Table!insert, Table!lookup,
             Table!lookupApply, Table!lookupInsert, Table!remove, Table!lookupRemove, Table!Release,
             Table!lookups, Table!Nothing
  <2>3. QED
    BY <2>1, <2>2, StepIs
<1>4. refcount' \in [Objects -> Int]
  <2>1. \A gains, loses : Table!Counted(gains, loses) \in [Objects -> Int]
    BY <1>1 DEF Table!Counted, Table!Types
  <2>2. CASE Table!clear(t)
    <3> DEFINE gone == Table!Range(bucket[b[t]])
    <3>1. IsFiniteSet(NodeNames) /\ gone \subseteq NodeNames
      BY <1>1, TableAssumption, RangeOfSeq, SameOperators DEF Table!Types
    <3> DEFINE c(o) == Cardinality({n \in gone : node[n].value = o})
    <3>2. \A o \in Objects : c(o) \in Int
      BY <3>1, FS_Subset, FS_CardinalityType
    <3>3. refcount' = [o \in Objects |-> refcount[o] - c(o)]
      BY <2>2, SameOperators DEF Table!clear
    <3> HIDE DEF c
    <3>4. QED
      BY <1>1, <3>2, <3>3 DEF Table!Types
  <2>3. CASE ~ Table!clear(t)
    <3>1. refcount' = refcount \/ \E gains, loses : refcount' = Table!Counted(gains, loses)
      <4>1. CASE Table!New(t) \/ Table!Drop(t) \/ Table!Call(t) \/ Table!CallClear(t) \/ Table!Return(t)
        BY <4>1 DEF Table!New, Table!Drop, Table!Call, Table!CallClear, Table!Return
      <4>2. CASE Table!Acquire(t) \/ Table!Search(t) \/ Table!Release(t)
        BY <4>2 DEF Table!Acquire, Table!Search, Table!Release
      <4>3. CASE Table!insert(t) \/ Table!lookupInsert(t)
        BY <4>3 DEF Table!insert, Table!lookupInsert, Table!Adds, Table!Nothing
      <4>4. CASE Table!lookup(t) \/ Table!lookupApply(t)
        BY <4>4 DEF Table!lookup, Table!lookupApply, Table!Nothing
      <4>5. CASE Table!remove(t) \/ Table!lookupRemove(t)
        BY <4>5 DEF Table!remove, Table!lookupRemove, Table!Nothing
      <4>6. QED
        BY <2>3, <4>1, <4>2, <4>3, <4>4, <4>5 DEF Table!Step
    <3>2. QED
      BY <1>1, <2>1, <3>1 DEF Table!Types
  <2>4. QED
    BY <2>2, <2>3
<1>5. retval' \in [Threads -> Objects \cup {Null}] /\ removedU' \in [Threads -> Objects \cup {Null}]
  <2>1. CASE Table!lookup(t) \/ Table!remove(t) \/ Table!lookupRemove(t)
    <3>1. pc[t] \in {"lookup", "remove", "lookupRemove"} /\ found[t] # Null =>
            node[found[t]] \in [key : Keys, value : Objects, height : 1 .. MaxHeight]
      BY <1>1 DEF Table!IInv, Table!FoundStays, Table!Inside, Table!Types
    <3>2. QED
      BY <1>1, <2>1, <3>1 DEF Table!lookup, Table!remove, Table!lookupRemove, Table!Nothing, Table!Types
  <2>2. CASE ~ (Table!lookup(t) \/ Table!remove(t) \/ Table!lookupRemove(t))
    BY <1>1, <2>2
       DEF Table!Step, Table!New, Table!Drop, Table!Call, Table!CallClear, Table!Acquire, Table!Search, Table!insert,
           Table!lookupApply, Table!lookupInsert, Table!clear, Table!Release, Table!Return, Table!Nothing, Table!Types
  <2>3. QED
    BY <2>1, <2>2
<1>6. Rest'
  <2> USE <1>1 DEF Table!Types, Table!call
  <2>1. CASE Table!New(t) \/ Table!Drop(t) \/ Table!Return(t)
    BY <2>1 DEF Table!New, Table!Drop, Table!Return, Table!lookups
  <2>2. CASE Table!Call(t)
    <3>1. PICK k \in Keys, o \in Table!Calls :
            /\ op' = [op EXCEPT ![t] = o] /\ key' = [key EXCEPT ![t] = k]
            /\ b' = [b EXCEPT ![t] = Table!BucketOf(k)]
      BY <2>2 DEF Table!Call, Table!BucketOf
    <3>2. shared' = shared /\ Bucket_l' = Bucket_l /\ found' = found /\ pc' = [pc EXCEPT ![t] = "lock"]
      BY <2>2 DEF Table!Call
    <3>3. QED
      BY <3>1, <3>2, Constants
  <2>3. CASE Table!CallClear(t)
    BY <2>3, Constants DEF Table!CallClear
  <2>4. CASE Table!Acquire(t)
    <3> DEFINE l == Bucket_l[b[t]]
    <3>1. l \in [writer : Threads \cup {NoThread}, readers : SUBSET Threads]
      OBVIOUS
    <3>2. /\ [l EXCEPT !.writer = t] \in [writer : Threads \cup {NoThread}, readers : SUBSET Threads]
          /\ [l EXCEPT !.readers = @ \cup {t}] \in [writer : Threads \cup {NoThread}, readers : SUBSET Threads]
      BY <3>1
    <3>3. /\ \/ Bucket_l' = [Bucket_l EXCEPT ![b[t]] = [l EXCEPT !.writer = t]]
             \/ Bucket_l' = [Bucket_l EXCEPT ![b[t]] = [l EXCEPT !.readers = @ \cup {t}]]
          /\ pc' = [pc EXCEPT ![t] = "search"]
          /\ shared' = shared /\ op' = op /\ key' = key /\ b' = b /\ found' = found
      BY <2>4 DEF Table!Acquire, Table!L!Locked, Table!L!LockedRead, Table!L!SrwLockedRead
    <3> HIDE DEF l
    <3>4. QED
      BY <3>2, <3>3
  <2>5. CASE Table!Search(t)
    <3>1. found' \in [Threads -> NodeNames \cup {Null}]
      <4>1. \A n \in Range(bucket[b[t]]) : n \in NodeNames
        BY RangeOfSeq
      <4>2. \E x \in NodeNames \cup {Null} : found' = [found EXCEPT ![t] = x]
        BY <2>5, <4>1, SearchIs
      <4>3. QED
        BY <4>2
    <3>2. pc' = [pc EXCEPT ![t] = op[t]] /\ op[t] \in Table!Calls \cup {"clear"}
          /\ shared' = shared /\ Bucket_l' = Bucket_l /\ op' = op /\ key' = key /\ b' = b
      BY <2>5 DEF Table!Search, Table!IInv, Table!CallsRight
    <3>3. QED
      BY <3>1, <3>2
  <2>6. CASE Table!insert(t) \/ Table!lookup(t) \/ Table!lookupApply(t) \/ Table!lookupInsert(t)
    BY <2>6 DEF Table!insert, Table!lookup, Table!lookupApply, Table!lookupInsert, Table!Done
  <2>7. CASE Table!remove(t) \/ Table!lookupRemove(t) \/ Table!clear(t)
    BY <2>7 DEF Table!remove, Table!lookupRemove, Table!clear, Table!Done
  <2>8. CASE Table!Release(t)
    <3> DEFINE l == Bucket_l[b[t]]
    <3>1. l \in [writer : Threads \cup {NoThread}, readers : SUBSET Threads]
      OBVIOUS
    <3>2. /\ [l EXCEPT !.writer = NoThread] \in [writer : Threads \cup {NoThread}, readers : SUBSET Threads]
          /\ [l EXCEPT !.readers = @ \ {t}] \in [writer : Threads \cup {NoThread}, readers : SUBSET Threads]
      BY <3>1
    <3>3. /\ \/ Bucket_l' = [Bucket_l EXCEPT ![b[t]] = [l EXCEPT !.writer = NoThread]]
             \/ Bucket_l' = [Bucket_l EXCEPT ![b[t]] = [l EXCEPT !.readers = @ \ {t}]]
          /\ pc' = [pc EXCEPT ![t] = "return"] \/ pc' = [pc EXCEPT ![t] = "lock"]
          /\ shared' = shared /\ op' = op /\ key' = key /\ found' = [found EXCEPT ![t] = Null]
      BY <2>8 DEF Table!Release, Table!L!unlock, Table!L!unlockRead, Table!L!SrwUnlockRead
    <3> HIDE DEF l
    <3>4. b' \in [Threads -> Table!Buckets]
      <4>1. \/ b' = [b EXCEPT ![t] = 0]
            \/ b[t] # Nbuckets - 1 /\ b' = [b EXCEPT ![t] = b[t] + 1]
        BY <2>8 DEF Table!Release, Table!LastBucket
      <4>2. b[t] \in Table!Buckets /\ (b[t] # Nbuckets - 1 => b[t] + 1 \in Table!Buckets) /\ 0 \in Table!Buckets
        BY Constants DEF Table!Buckets
      <4>3. QED
        BY <4>1, <4>2
    <3>5. Bucket_l' \in [Table!Buckets -> [writer : Threads \cup {NoThread}, readers : SUBSET Threads]]
      BY <3>2, <3>3
    <3>6. QED
      BY <3>3, <3>4, <3>5
  <2>9. QED
    BY <2>1, <2>2, <2>4, <2>5, <2>6, <2>7, <2>8, <2>3 DEF Table!Step
<1>7. QED
  BY <1>2, <1>3, <1>4, <1>5, <1>6 DEF Table!Types, Table!Buckets, Table!Calls

\* Two threads that hold the lock of one bucket only look.
LEMMA Exclusive ==
  ASSUME Table!IInv, NEW t \in Threads, NEW u \in Threads, t # u,
         Table!Holding(t), Table!Holding(u), b[t] = b[u]
  PROVE  op[t] = "lookup" /\ op[u] = "lookup" /\ shared
<1>1. b[t] \in Table!Buckets
  BY DEF Table!IInv, Table!Types
<1>2. Table!HasLock(t) /\ Table!HasLock(u)
  BY DEF Table!IInv, Table!LocksHeld
<1>3. Bucket_l[b[t]].writer # NoThread => Bucket_l[b[t]].readers = {}
  BY <1>1 DEF Table!IInv, Table!LocksHeld
<1>4. QED
  BY <1>2, <1>3, TableAssumption DEF Table!HasLock

\* Every step keeps the locks with the threads that act under them.
LEMMA LocksNext ==
  ASSUME Table!IInv, NEW t \in Threads, Table!Step(t)
  PROVE  Table!LocksHeld'
<1>1. Table!Types /\ Table!LocksHeld
  BY DEF Table!IInv
<1>2. CASE Table!New(t) \/ Table!Drop(t) \/ Table!Call(t) \/ Table!CallClear(t) \/ Table!Return(t)
  <2>1. Bucket_l' = Bucket_l /\ shared' = shared /\ pc'[t] \in {"ready", "lock"}
    BY <1>1, <1>2
       DEF Table!New, Table!Drop, Table!Call, Table!CallClear, Table!Return, Table!call, Table!Types
  <2>2. \A u \in Threads : u # t => pc'[u] = pc[u] /\ op'[u] = op[u] /\ b'[u] = b[u]
    BY <1>1, <1>2
       DEF Table!New, Table!Drop, Table!Call, Table!CallClear, Table!Return, Table!call, Table!Types
  <2>3. QED
    BY <1>1, <2>1, <2>2 DEF Table!LocksHeld, Table!Holding, Table!HasLock, Table!Calls
<1>3. CASE Table!Acquire(t)
  <2> DEFINE l == Bucket_l[b[t]]
  <2>1. /\ pc' = [pc EXCEPT ![t] = "search"] /\ shared' = shared /\ op' = op /\ b' = b
        /\ \/ /\ op[t] = "lookup" /\ shared /\ l.writer = NoThread
              /\ Bucket_l' = [Bucket_l EXCEPT ![b[t]] = [l EXCEPT !.readers = @ \cup {t}]]
           \/ /\ ~ (op[t] = "lookup" /\ shared) /\ l.writer = NoThread /\ l.readers = {}
              /\ Bucket_l' = [Bucket_l EXCEPT ![b[t]] = [l EXCEPT !.writer = t]]
    BY <1>3
       DEF Table!Acquire, Table!call, Table!L!CanLockRead, Table!L!CanLock, Table!L!Open, Table!L!SrwCanLockRead,
           Table!L!Locked, Table!L!LockedRead, Table!L!SrwLockedRead
  <2>2. b[t] \in Table!Buckets /\ l \in [writer : Threads \cup {NoThread}, readers : SUBSET Threads]
    BY <1>1 DEF Table!Types
  <2>3. /\ \A i \in Table!Buckets : i # b[t] => Bucket_l'[i] = Bucket_l[i]
        /\ IF op[t] = "lookup" /\ shared
           THEN Bucket_l'[b[t]].writer = NoThread /\ Bucket_l'[b[t]].readers = l.readers \cup {t}
           ELSE Bucket_l'[b[t]].writer = t /\ Bucket_l'[b[t]].readers = {}
    <3>1. Bucket_l \in [Table!Buckets -> [writer : Threads \cup {NoThread}, readers : SUBSET Threads]]
      BY <1>1 DEF Table!Types
    <3>2. CASE op[t] = "lookup" /\ shared
      BY <2>1, <2>2, <3>1, <3>2
    <3>3. CASE ~ (op[t] = "lookup" /\ shared)
      BY <2>1, <2>2, <3>1, <3>3
    <3>4. QED
      BY <3>2, <3>3
  <2>4. ASSUME NEW u \in Threads, Table!Holding(u)'
        PROVE  Table!HasLock(u)'
    <3>1. CASE u = t
      BY <2>1, <2>3, <3>1 DEF Table!HasLock
    <3>2. CASE u # t
      <4>1. Table!Holding(u) /\ Table!HasLock(u) /\ b'[u] = b[u] /\ op'[u] = op[u] /\ b[u] \in Table!Buckets
        BY <1>1, <2>1, <2>4, <3>2 DEF Table!LocksHeld, Table!Holding, Table!Calls, Table!Types
      <4>2. CASE b[u] # b[t]
        BY <2>1, <2>3, <4>1, <4>2 DEF Table!HasLock
      <4>3. CASE b[u] = b[t]
        BY <2>1, <2>3, <4>1, <4>3, TableAssumption DEF Table!HasLock
      <4>4. QED
        BY <4>2, <4>3
    <3>3. QED
      BY <3>1, <3>2
  <2>5. ASSUME NEW i \in Table!Buckets, Bucket_l'[i].writer # NoThread
        PROVE  Bucket_l'[i].readers = {}
    BY <1>1, <2>2, <2>3, <2>5 DEF Table!LocksHeld
  <2>6. QED
    BY <2>4, <2>5 DEF Table!LocksHeld, Table!Buckets
<1>4. CASE Table!Search(t)
  <2>1. Table!Holding(t) /\ shared' = shared /\ op' = op /\ b' = b /\ Bucket_l' = Bucket_l
        /\ \A u \in Threads : u # t => pc'[u] = pc[u]
    BY <1>1, <1>4 DEF Table!Search, Table!call, Table!Types, Table!Holding
  <2>2. QED
    BY <1>1, <2>1 DEF Table!LocksHeld, Table!Holding, Table!HasLock, Table!Buckets, Table!Calls
<1>5. CASE \/ Table!insert(t) \/ Table!lookup(t) \/ Table!lookupApply(t) \/ Table!lookupInsert(t)
           \/ Table!remove(t) \/ Table!lookupRemove(t) \/ Table!clear(t)
  <2>1. Table!Holding(t) /\ shared' = shared /\ op' = op /\ b' = b /\ Bucket_l' = Bucket_l
        /\ pc' = [pc EXCEPT ![t] = "unlock"]
    BY <1>5
       DEF Table!insert, Table!lookup, Table!lookupApply, Table!lookupInsert, Table!remove, Table!lookupRemove,
           Table!clear, Table!call, Table!Done, Table!Holding, Table!Calls
  <2>2. QED
    BY <1>1, <2>1 DEF Table!LocksHeld, Table!Holding, Table!HasLock, Table!Types, Table!Buckets, Table!Calls
<1>6. CASE Table!Release(t)
  <2> DEFINE l == Bucket_l[b[t]]
  <2>1. /\ pc[t] = "unlock" /\ shared' = shared /\ op' = op /\ pc'[t] \in {"return", "lock"}
        /\ \A u \in Threads : u # t => pc'[u] = pc[u] /\ b'[u] = b[u]
        /\ Bucket_l' = [Bucket_l EXCEPT ![b[t]] = IF op[t] = "lookup" /\ shared THEN [l EXCEPT !.readers = @ \ {t}]
                                                  ELSE [l EXCEPT !.writer = NoThread]]
    BY <1>1, <1>6
       DEF Table!Release, Table!call, Table!Types, Table!L!unlock, Table!L!unlockRead, Table!L!SrwUnlockRead
  <2>2. b[t] \in Table!Buckets /\ l \in [writer : Threads \cup {NoThread}, readers : SUBSET Threads]
    BY <1>1 DEF Table!Types
  <2>3. /\ \A i \in Table!Buckets : i # b[t] => Bucket_l'[i] = Bucket_l[i]
        /\ IF op[t] = "lookup" /\ shared
           THEN Bucket_l'[b[t]].writer = l.writer /\ Bucket_l'[b[t]].readers = l.readers \ {t}
           ELSE Bucket_l'[b[t]].writer = NoThread /\ Bucket_l'[b[t]].readers = l.readers
    BY <1>1, <2>1, <2>2 DEF Table!Types
  <2>4. ASSUME NEW u \in Threads, Table!Holding(u)'
        PROVE  Table!HasLock(u)'
    <3>1. u # t /\ Table!Holding(u) /\ Table!HasLock(u) /\ b'[u] = b[u] /\ op'[u] = op[u]
      BY <1>1, <2>1, <2>4 DEF Table!LocksHeld, Table!Holding, Table!Calls
    <3>2. b[u] = b[t] => op[t] = "lookup" /\ op[u] = "lookup" /\ shared
      BY <2>1, <3>1, Exclusive DEF Table!Holding
    <3>3. b[u] \in Table!Buckets
      BY <1>1 DEF Table!Types
    <3>4. QED
      BY <2>1, <2>3, <3>1, <3>2, <3>3 DEF Table!HasLock
  <2>5. ASSUME NEW i \in Table!Buckets, Bucket_l'[i].writer # NoThread
        PROVE  Bucket_l'[i].readers = {}
    BY <1>1, <2>2, <2>3, <2>5 DEF Table!LocksHeld
  <2>6. QED
    BY <2>4, <2>5 DEF Table!LocksHeld, Table!Buckets
<1>7. QED
  BY <1>2, <1>3, <1>4, <1>5, <1>6 DEF Table!Step

\* Every step keeps what a call has of its arguments.
LEMMA CallsNext ==
  ASSUME Table!IInv, NEW t \in Threads, Table!Step(t)
  PROVE  Table!CallsRight'
<1> DEFINE Right(u) ==
      /\ pc[u] \in Table!Calls \cup {"clear"} => op[u] = pc[u]
      /\ pc[u] = "ready" <=> op[u] = "none"
      /\ op[u] \in Table!Calls => key[u] \in Keys /\ (pc[u] # "return" => b[u] = Table!BucketOf(key[u]))
      /\ op[u] = "insert" => key[u] \notin UniqueKeys
      /\ op[u] \in {"insert", "lookupApply", "lookupInsert"} => retval[u] # Null
      /\ removedU[u] # Null => op[u] = "remove" /\ pc[u] \in {"unlock", "return"}
      /\ op[u] # "clear" => before[u] = {}
<1>1. Table!Types /\ Right(t)
  BY DEF Table!IInv, Table!CallsRight
<1>2. \A u \in Threads : u # t => /\ pc'[u] = pc[u] /\ op'[u] = op[u] /\ key'[u] = key[u] /\ b'[u] = b[u]
                                  /\ retval'[u] = retval[u] /\ removedU'[u] = removedU[u]
                                  /\ before'[u] \subseteq before[u]
  BY <1>1
     DEF Table!Step, Table!New, Table!Drop, Table!Call, Table!CallClear, Table!Acquire, Table!Search, Table!insert,
         Table!lookup, Table!lookupApply, Table!lookupInsert, Table!remove, Table!lookupRemove, Table!clear,
         Table!Release, Table!Return, Table!Done, Table!Deletes, Table!call, Table!lookups, Table!Nothing, Table!Types
<1>3. \A u \in Threads : u # t => Right(u)'
  BY <1>2 DEF Table!IInv, Table!CallsRight, Table!BucketOf, Table!Calls
<1>4. Right(t)'
  <2> USE <1>1 DEF Table!Types, Table!call
  <2>1. CASE Table!New(t) \/ Table!Drop(t)
    BY <2>1 DEF Table!New, Table!Drop, Table!lookups, Table!Calls, Table!BucketOf
  <2>2. CASE Table!Call(t)
    BY <2>2 DEF Table!Call, Table!lookups, Table!Calls, Table!BucketOf
  <2>3. CASE Table!CallClear(t)
    BY <2>3 DEF Table!CallClear, Table!Calls, Table!BucketOf
  <2>4. CASE Table!Acquire(t)
    BY <2>4 DEF Table!Acquire, Table!lookups, Table!Calls, Table!BucketOf
  <2>5. CASE Table!Search(t)
    BY <2>5 DEF Table!Search, Table!lookups, Table!Calls, Table!BucketOf
  <2>6. CASE Table!insert(t) \/ Table!lookupInsert(t) \/ Table!lookupApply(t)
    BY <2>6
       DEF Table!insert, Table!lookupInsert, Table!lookupApply, Table!Done, Table!Nothing, Table!lookups, Table!Calls,
           Table!BucketOf
  <2>7. CASE Table!lookup(t) \/ Table!clear(t)
    BY <2>7 DEF Table!lookup, Table!clear, Table!Done, Table!Nothing, Table!lookups, Table!Calls, Table!BucketOf
  <2>8. CASE Table!remove(t) \/ Table!lookupRemove(t)
    BY <2>8
       DEF Table!remove, Table!lookupRemove, Table!Deletes, Table!Done, Table!Nothing, Table!lookups, Table!Calls,
           Table!BucketOf
  <2>9. CASE Table!Release(t)
    <3>1. /\ op'[t] = op[t] /\ key'[t] = key[t] /\ retval'[t] = retval[t] /\ removedU'[t] = removedU[t]
          /\ before'[t] = before[t] /\ pc[t] = "unlock"
          /\ pc'[t] = IF op[t] # "clear" \/ b[t] = Nbuckets - 1 THEN "return" ELSE "lock"
      BY <2>9 DEF Table!Release, Table!LastBucket, Table!lookups
    <3>2. QED
      BY <3>1 DEF Table!Calls, Table!BucketOf
  <2>10. CASE Table!Return(t)
    BY <2>10 DEF Table!Return, Table!Calls, Table!BucketOf
  <2>11. QED
    BY <2>1, <2>2, <2>3, <2>4, <2>5, <2>6, <2>7, <2>8, <2>9, <2>10 DEF Table!Step
<1>5. QED
  BY <1>3, <1>4 DEF Table!CallsRight, Table!Calls, Table!BucketOf

\* Every step keeps the nodes in the buckets of their keys.
LEMMA NodesNext ==
  ASSUME Table!IInv, NEW t \in Threads, Table!Step(t)
  PROVE  Table!NodesPlaced'
<1>1. Table!Types /\ Table!NodesPlaced /\ b[t] \in Table!Buckets
  BY DEF Table!IInv, Table!Types
<1>2. CASE NodesStay(t)
  BY <1>1, <1>2 DEF NodesStay, Table!NodesPlaced, Table!Buckets, Table!BucketOf
<1>3. CASE Table!Holding(t) /\ op[t] = pc[t] /\ Inserts(t)
  <2>1. PICK n \in NodeNames, h \in 1 .. MaxHeight :
          /\ op[t] \in Table!Adding /\ node[n] = Null /\ key[t] \in Keys /\ retval[t] \in Objects
          /\ node' = [node EXCEPT ![n] = [key |-> key[t], value |-> retval[t], height |-> h]]
          /\ \A i \in Table!Buckets :
               /\ Table!IsInjective(bucket'[i])
               /\ Table!Range(bucket'[i]) = Table!Range(bucket[i]) \cup (IF i = b[t] THEN {n} ELSE {})
    BY <1>3 DEF Inserts
  <2>2. Table!BucketOf(key[t]) = b[t]
    BY <1>3, <2>1 DEF Table!IInv, Table!CallsRight, Table!Adding, Table!Calls, Table!Holding
  <2>3. node'[n] # Null /\ node'[n].key = key[t] /\ \A m \in NodeNames : m # n => node'[m] = node[m]
    BY <1>1, <2>1, TableAssumption DEF Table!Types
  <2>4. \A i \in Table!Buckets : \A m \in NodeNames :
          m \in Table!Range(bucket'[i]) <=> node'[m] # Null /\ Table!BucketOf(node'[m].key) = i
    BY <1>1, <2>1, <2>2, <2>3 DEF Table!NodesPlaced
  <2>5. QED
    BY <2>1, <2>4 DEF Table!NodesPlaced, Table!Buckets, Table!BucketOf
<1>4. CASE Applies(t)
  <2>1. \A m \in NodeNames : (node'[m] = Null <=> node[m] = Null) /\ (node[m] # Null => node'[m].key = node[m].key)
    <3>1. /\ node'[found[t]].key = node[found[t]].key
          /\ node'[found[t]] \in [key : Keys, value : Objects, height : 1 .. MaxHeight]
      BY <1>1, <1>4 DEF Applies, Table!Types
    <3>2. \A m \in NodeNames : m # found[t] => node'[m] = node[m]
      BY <1>1, <1>4 DEF Applies, Table!Types
    <3>3. QED
      BY <1>4, <3>1, <3>2, TableAssumption DEF Applies
  <2>2. bucket' = bucket
    BY <1>4 DEF Applies
  <2>3. QED
    BY <1>1, <2>1, <2>2 DEF Table!NodesPlaced, Table!Buckets, Table!BucketOf
<1>5. CASE Removes(t)
  <2>1. PICK gone \in SUBSET NodeNames :
          /\ node' = [n \in NodeNames |-> IF n \in gone THEN Null ELSE node[n]]
          /\ \A i \in Table!Buckets :
               Table!IsInjective(bucket'[i]) /\ Table!Range(bucket'[i]) = Table!Range(bucket[i]) \ gone
    BY <1>5 DEF Removes
  <2>2. \A i \in Table!Buckets : \A m \in NodeNames :
          m \in Table!Range(bucket'[i]) <=> node'[m] # Null /\ Table!BucketOf(node'[m].key) = i
    BY <1>1, <2>1 DEF Table!NodesPlaced
  <2>3. QED
    BY <2>1, <2>2 DEF Table!NodesPlaced, Table!Buckets, Table!BucketOf
<1>6. QED
  BY <1>2, <1>3, <1>4, <1>5, StepIs

\* A change to nodes by one thread: no node takes another key, what appears
\* has the key of the call, and all of it happens in its bucket.
LEMMA ChangesIs ==
  ASSUME Table!IInv, NEW t \in Threads, Table!Step(t), ~ NodesStay(t)
  PROVE  /\ Table!Holding(t) /\ op[t] # "lookup" /\ pc'[t] = "unlock" /\ pc[t] = op[t]
         /\ \A n \in NodeNames :
              \/ /\ node[n] # Null /\ node'[n] # Null /\ node'[n].key = node[n].key
              \/ node'[n] = node[n]
              \/ /\ node[n] = Null /\ node'[n] # Null /\ node'[n].key = key[t]
                 /\ key[t] \in Keys /\ Table!BucketOf(key[t]) = b[t] /\ Inserts(t)
                 /\ \A m \in NodeNames : m # n => node'[m] = node[m]
              \/ node[n] # Null /\ node'[n] = Null /\ Table!BucketOf(node[n].key) = b[t] /\ Removes(t)
<1>1. Table!Types
  BY DEF Table!IInv
<1>2. CASE Table!Holding(t) /\ op[t] = pc[t] /\ pc'[t] = "unlock" /\ Inserts(t)
  <2>1. PICK n \in NodeNames, h \in 1 .. MaxHeight :
          /\ op[t] \in Table!Adding /\ node[n] = Null /\ key[t] \in Keys /\ retval[t] \in Objects
          /\ node' = [node EXCEPT ![n] = [key |-> key[t], value |-> retval[t], height |-> h]]
    BY <1>2 DEF Inserts
  <2>2. Table!BucketOf(key[t]) = b[t]
    BY <1>2, <2>1 DEF Table!IInv, Table!CallsRight, Table!Adding, Table!Calls, Table!Holding
  <2>3. node'[n] # Null /\ node'[n].key = key[t] /\ \A m \in NodeNames : m # n => node'[m] = node[m]
    BY <1>1, <2>1, TableAssumption DEF Table!Types
  <2>4. QED
    BY <1>2, <2>1, <2>2, <2>3 DEF Table!Adding
<1>3. CASE Table!Holding(t) /\ op[t] = pc[t] /\ pc'[t] = "unlock" /\ Applies(t)
  <2>1. /\ node'[found[t]].key = node[found[t]].key
        /\ node'[found[t]] \in [key : Keys, value : Objects, height : 1 .. MaxHeight]
    BY <1>1, <1>3 DEF Applies, Table!Types
  <2>2. \A m \in NodeNames : m # found[t] => node'[m] = node[m]
    BY <1>1, <1>3 DEF Applies, Table!Types
  <2>3. QED
    BY <1>3, <2>1, <2>2, TableAssumption DEF Applies
<1>4. CASE Table!Holding(t) /\ op[t] = pc[t] /\ pc'[t] = "unlock" /\ Removes(t)
  <2>1. PICK gone \in SUBSET NodeNames :
          /\ node' = [n \in NodeNames |-> IF n \in gone THEN Null ELSE node[n]]
          /\ \A n \in gone :
               /\ node[n] \in [key : Keys, value : Objects, height : 1 .. MaxHeight]
               /\ Table!BucketOf(node[n].key) = b[t]
          /\ op[t] \in {"remove", "lookupRemove", "clear"}
    BY <1>4 DEF Removes
  <2>2. QED
    BY <1>4, <2>1, TableAssumption
<1>5. QED
  BY <1>2, <1>3, <1>4, StepIs

\* A step of one thread leaves true what another one found, because it
\* changes another bucket; a search makes it true.
LEMMA FoundNext ==
  ASSUME Table!IInv, NEW t \in Threads, Table!Step(t)
  PROVE  Table!FoundStays'
<1>1. Table!Types /\ Table!Types'
  BY TypesNext DEF Table!IInv
<1>2. \A u \in Threads : u # t =>
        pc'[u] = pc[u] /\ op'[u] = op[u] /\ key'[u] = key[u] /\ b'[u] = b[u] /\ found'[u] = found[u]
  BY <1>1
     DEF Table!Step, Table!New, Table!Drop, Table!Call, Table!CallClear, Table!Acquire, Table!Search, Table!insert,
         Table!lookup, Table!lookupApply, Table!lookupInsert, Table!remove, Table!lookupRemove, Table!clear,
         Table!Release, Table!Return, Table!Done, Table!call, Table!Types
<1> DEFINE Stays(u) ==
      IF found[u] = Null THEN \A n \in NodeNames : node[n] # Null => node[n].key # key[u]
      ELSE node[found[u]] # Null /\ node[found[u]].key = key[u]
<1>3. ASSUME NEW u \in Threads, u # t, Table!Inside(u)'
      PROVE  Stays(u)'
  <2>1. Table!Inside(u) /\ Stays(u) /\ found'[u] = found[u] /\ key'[u] = key[u]
    BY <1>2, <1>3 DEF Table!Inside, Table!IInv, Table!FoundStays
  <2>2. Table!Holding(u) /\ key[u] \in Keys /\ b[u] = Table!BucketOf(key[u])
    BY <2>1 DEF Table!IInv, Table!CallsRight, Table!Inside, Table!Holding, Table!Calls
  <2>3. CASE NodesStay(t)
    BY <2>1, <2>3 DEF NodesStay
  <2>4. CASE ~ NodesStay(t)
    <3>1. b[u] # b[t]
      BY <1>3, <2>2, <2>4, ChangesIs, Exclusive
    <3>2. CASE found[u] = Null
      BY <2>1, <2>2, <2>4, <3>1, <3>2, ChangesIs
    <3>3. CASE found[u] # Null
      <4>1. found[u] \in NodeNames
        BY <1>1, <3>3 DEF Table!Types
      <4>2. QED
        BY <2>1, <2>2, <2>4, <3>1, <3>3, <4>1, ChangesIs
    <3>4. QED
      BY <3>2, <3>3
  <2>5. QED
    BY <2>3, <2>4
<1>4. ASSUME Table!Inside(t)'
      PROVE  Stays(t)'
  <2>1. Table!Search(t)
    BY <1>1, <1>4
       DEF Table!Step, Table!New, Table!Drop, Table!Call, Table!CallClear, Table!Acquire, Table!insert,
           Table!lookup, Table!lookupApply, Table!lookupInsert, Table!remove, Table!lookupRemove, Table!clear,
           Table!Release, Table!Return, Table!Done, Table!Inside, Table!Types
  <2>2. /\ node' = node /\ bucket' = bucket /\ key' = key /\ pc[t] = "search"
        /\ op[t] \in {"lookup", "lookupApply", "lookupInsert", "remove", "lookupRemove"}
    BY <1>1, <1>4, <2>1 DEF Table!Search, Table!lookups, Table!call, Table!Inside, Table!Types
  <2>3. b[t] = Table!BucketOf(key[t]) /\ b[t] \in Table!Buckets /\ bucket[b[t]] \in Seq(NodeNames)
    BY <1>1, <2>2 DEF Table!IInv, Table!CallsRight, Table!Calls, Table!Types
  <2>4. \A n \in NodeNames : n \in Range(bucket[b[t]]) <=> node[n] # Null /\ Table!BucketOf(node[n].key) = b[t]
    BY <2>3, SameOperators DEF Table!IInv, Table!NodesPlaced
  <2>5. CASE found' = [found EXCEPT ![t] = Null] /\ \A n \in Range(bucket[b[t]]) : node[n].key # key[t]
    <3>1. \A n \in NodeNames : node[n] # Null => node[n].key # key[t]
      BY <2>3, <2>4, <2>5
    <3>2. found'[t] = Null
      BY <1>1, <2>5 DEF Table!Types
    <3>3. QED
      BY <2>2, <3>1, <3>2
  <2>6. ASSUME NEW n \in Range(bucket[b[t]]), node[n].key = key[t], found' = [found EXCEPT ![t] = n]
        PROVE  Stays(t)'
    <3>1. n \in NodeNames /\ node[n] # Null /\ found'[t] = n /\ n # Null
      <4>1. n \in NodeNames
        BY <2>3, RangeOfSeq
      <4>2. QED
        BY <1>1, <2>4, <2>6, <4>1, TableAssumption DEF Table!Types
    <3>2. QED
      BY <2>2, <2>6, <3>1
  <2>7. QED
    BY <1>1, <2>1, <2>2, <2>5, <2>6, SearchIs
<1>5. QED
  BY <1>3, <1>4 DEF Table!FoundStays, Table!Inside

\* A step makes no second node of a key that lookupInsert alone inserts.
LEMMA UniqueNext ==
  ASSUME Table!IInv, NEW t \in Threads, Table!Step(t)
  PROVE  Table!UniqueStays'
<1>1. Table!UniqueStays
  BY DEF Table!IInv
<1>2. CASE NodesStay(t)
  BY <1>1, <1>2 DEF NodesStay, Table!UniqueStays
<1>3. CASE ~ NodesStay(t)
  <2>1. SUFFICES ASSUME NEW m \in NodeNames, NEW n \in NodeNames,
                        m # n, node'[m] # Null, node'[n] # Null, node'[m].key = node'[n].key
                 PROVE  node'[m].key \notin UniqueKeys
    BY DEF Table!UniqueStays
  <2>2. ASSUME Inserts(t), NEW k \in NodeNames, node[k] # Null, node[k].key = key[t]
        PROVE  key[t] \notin UniqueKeys
    <3>1. op[t] = "insert" \/ (op[t] = "lookupInsert" /\ found[t] = Null /\ Table!Inside(t))
      BY <2>2 DEF Inserts, Table!Adding, Table!Inside
    <3>2. QED
      BY <2>2, <3>1 DEF Table!IInv, Table!CallsRight, Table!FoundStays
  <2>3. CASE node[m] # Null /\ node[n] # Null
    BY <1>1, <1>3, <2>1, <2>3, ChangesIs DEF Table!UniqueStays
  <2>4. CASE node[m] = Null
    BY <1>3, <2>1, <2>2, <2>4, ChangesIs
  <2>5. CASE node[n] = Null
    BY <1>3, <2>1, <2>2, <2>5, ChangesIs
  <2>6. QED
    BY <2>3, <2>4, <2>5
<1>4. QED
  BY <1>2, <1>3

\* A clear leaves behind it nothing of what was there when it was called.
LEMMA AheadNext ==
  ASSUME Table!IInv, NEW t \in Threads, Table!Step(t)
  PROVE  Table!ClearsAhead'
<1>1. Table!Types /\ Table!ClearsAhead /\ \A u \in Threads : op[u] # "clear" => before[u] = {}
  BY DEF Table!IInv, Table!CallsRight
<1> DEFINE Ahead(u) ==
      \A n \in before[u] :
        /\ node[n] # Null /\ Table!BucketOf(node[n].key) >= b[u]
        /\ pc[u] = "unlock" => Table!BucketOf(node[n].key) # b[u]
        /\ pc[u] # "return"
<1>2. \A u \in Threads : Ahead(u) /\ before[u] \subseteq NodeNames
  BY <1>1 DEF Table!ClearsAhead, Table!Types
<1>3. \A u \in Threads : u # t => /\ pc'[u] = pc[u] /\ b'[u] = b[u]
                                  /\ before'[u] \subseteq before[u]
  BY <1>1
     DEF Table!Step, Table!New, Table!Drop, Table!Call, Table!CallClear, Table!Acquire, Table!Search, Table!insert,
         Table!lookup, Table!lookupApply, Table!lookupInsert, Table!remove, Table!lookupRemove, Table!clear,
         Table!Release, Table!Return, Table!Done, Table!Deletes, Table!call, Table!lookups, Table!Nothing, Table!Types
\* What is still before a clear keeps its key.
<1>4. ASSUME NEW u \in Threads, NEW n \in before[u], n \in before'[u]
      PROVE  node'[n] # Null /\ node'[n].key = node[n].key /\ node[n] # Null
  <2>1. n \in NodeNames /\ node[n] # Null
    BY <1>2, <1>4
  <2>2. CASE NodesStay(t)
    BY <2>1, <2>2 DEF NodesStay
  <2>3. CASE Inserts(t) \/ Applies(t)
    <3>1. ~ Removes(t)
      BY <2>3 DEF Inserts, Applies, Removes, Table!Adding
    <3>2. QED
      BY <2>1, <2>2, <3>1, ChangesIs
  <2>4. CASE Removes(t)
    BY <1>4, <2>1, <2>4 DEF Removes
  <2>5. QED
    BY <2>2, <2>3, <2>4, StepIs
<1>5. ASSUME NEW u \in Threads, u # t
      PROVE  Ahead(u)'
  BY <1>2, <1>3, <1>4, <1>5 DEF Table!BucketOf
<1>6. Ahead(t)'
  <2>1. CASE Table!New(t) \/ Table!Drop(t) \/ Table!Search(t) \/ Table!Acquire(t)
    <3>1. /\ before' = before /\ b' = b /\ pc'[t] \notin {"unlock", "return"}
      BY <1>1, <2>1
         DEF Table!New, Table!Drop, Table!Search, Table!Acquire, Table!lookups, Table!call, Table!Types,
             Table!IInv, Table!CallsRight, Table!Calls
    <3>2. QED
      BY <1>2, <1>4, <3>1 DEF Table!BucketOf
  <2>2. CASE Table!Call(t) \/ Table!Return(t)
    <3>1. before'[t] = {}
      <4>1. pc[t] = "ready" => op[t] = "none"
        BY DEF Table!IInv, Table!CallsRight
      <4>2. QED
        BY <1>1, <2>2, <4>1 DEF Table!Call, Table!Return, Table!lookups, Table!Types
    <3>2. QED
      BY <3>1
  <2>3. CASE Table!CallClear(t)
    <3>1. /\ node' = node /\ before'[t] = Table!InTable /\ b'[t] = 0 /\ pc'[t] = "lock"
      BY <1>1, <2>3 DEF Table!CallClear, Table!Types
    <3>2. \A n \in Table!InTable : node[n] # Null /\ Table!BucketOf(node[n].key) \in Table!Buckets
      <4>1. SUFFICES ASSUME NEW i \in Table!Buckets, NEW n \in Table!Range(bucket[i])
                     PROVE  node[n] # Null /\ Table!BucketOf(node[n].key) = i
        BY DEF Table!InTable
      <4>2. n \in NodeNames
        BY <1>1, RangeOfSeq, SameOperators DEF Table!Types
      <4>3. QED
        BY <4>2 DEF Table!IInv, Table!NodesPlaced
    <3>3. \A i \in Table!Buckets : i >= 0
      BY Constants DEF Table!Buckets
    <3>4. QED
      BY <3>1, <3>2, <3>3 DEF Table!BucketOf
  <2>4. CASE \/ Table!insert(t) \/ Table!lookup(t) \/ Table!lookupApply(t) \/ Table!lookupInsert(t)
             \/ Table!remove(t) \/ Table!lookupRemove(t)
    <3>1. op[t] # "clear" /\ before'[t] \subseteq before[t]
      BY <1>1, <2>4
         DEF Table!insert, Table!lookup, Table!lookupApply, Table!lookupInsert, Table!remove, Table!lookupRemove,
             Table!Deletes, Table!Nothing, Table!lookups, Table!IInv, Table!CallsRight, Table!Calls, Table!Types
    <3>2. before'[t] = {}
      BY <1>1, <3>1
    <3>3. QED
      BY <3>2
  <2>5. CASE Table!clear(t)
    <3> DEFINE gone == Table!Range(bucket[b[t]])
    <3>1. before'[t] = before[t] \ gone /\ b'[t] = b[t] /\ pc'[t] = "unlock"
      BY <1>1, <2>5 DEF Table!clear, Table!Done, Table!Types
    <3>2. \A n \in NodeNames \ gone : node[n] # Null => Table!BucketOf(node[n].key) # b[t]
      BY <1>1 DEF Table!IInv, Table!NodesPlaced, Table!Types
    <3> HIDE DEF gone
    <3>3. QED
      BY <1>2, <1>4, <3>1, <3>2 DEF Table!BucketOf
  <2>6. CASE Table!Release(t)
    <3>1. CASE op[t] # "clear"
      BY <1>1, <2>6, <3>1 DEF Table!Release, Table!lookups
    <3>2. CASE op[t] = "clear"
      <4>1. /\ before' = before /\ node' = node /\ pc[t] = "unlock"
            /\ IF b[t] = Nbuckets - 1 THEN pc'[t] = "return" ELSE pc'[t] = "lock" /\ b'[t] = b[t] + 1
        BY <1>1, <2>6, <3>2 DEF Table!Release, Table!LastBucket, Table!lookups, Table!Types
      <4>2. \A n \in before[t] : /\ node[n] # Null /\ Table!BucketOf(node[n].key) \in 0 .. (Nbuckets - 1)
                                 /\ Table!BucketOf(node[n].key) >= b[t] + 1
        <5>1. SUFFICES ASSUME NEW n \in before[t]
                       PROVE  /\ node[n] # Null /\ Table!BucketOf(node[n].key) \in 0 .. (Nbuckets - 1)
                              /\ Table!BucketOf(node[n].key) >= b[t] + 1
          OBVIOUS
        <5>2. node[n] # Null /\ Table!BucketOf(node[n].key) >= b[t] /\ Table!BucketOf(node[n].key) # b[t]
          BY <1>2, <4>1
        <5>3. node[n].key \in Keys
          BY <1>1, <1>2, <5>2 DEF Table!Types
        <5>4. Table!BucketOf(node[n].key) \in 0 .. (Nbuckets - 1) /\ b[t] \in 0 .. (Nbuckets - 1)
          BY <1>1, <5>3, Constants DEF Table!Buckets, Table!Types
        <5>5. QED
          BY <5>2, <5>4, Constants
      <4>3. b[t] \in Int
        <5>1. b[t] \in Table!Buckets
          BY <1>1 DEF Table!Types
        <5>2. QED
          BY <5>1, Constants DEF Table!Buckets
      <4>4. QED
        BY <4>1, <4>2, <4>3, Constants DEF Table!BucketOf
    <3>3. QED
      BY <3>1, <3>2
  <2>7. QED
    BY <2>1, <2>2, <2>3, <2>4, <2>5, <2>6 DEF Table!Step
<1>7. QED
  BY <1>5, <1>6 DEF Table!ClearsAhead, Table!BucketOf

-----------------------------------------------------------------------------
(* The references to an object: those of the nodes, of the program's       *)
(* pointers and of the removes that have not returned.                     *)

References(f, S, o) == Cardinality({x \in S : f[x] = o})
Values == [n \in NodeNames |-> IF node[n] = Null THEN Null ELSE node[n].value]
Tally ==
  \A o \in Objects :
    refcount[o] = References(Values, NodeNames, o) + References(retval, Threads, o) + References(removedU, Threads, o)

\* One reference is assigned.
Is(v, o) == IF v = o THEN 1 ELSE 0
\* An assignment to one reference changes the count of what it was by one,
\* and of what it becomes.
LEMMA OneChange ==
  \A S, f, g, o : \A x \in S :
    IsFiniteSet(S) /\ (\A y \in S : y # x => g[y] = f[y])
    => References(g, S, o) = References(f, S, o) + Is(g[x], o) - Is(f[x], o)
<1> TAKE S, f, g, o
<1> TAKE x \in S
<1>1. HAVE IsFiniteSet(S) /\ (\A y \in S : y # x => g[y] = f[y])
<1> DEFINE A == {y \in S : f[y] = o}
           B == {y \in S : g[y] = o}
<1>2. IsFiniteSet(A) /\ Cardinality(A) \in Nat
  BY <1>1, FS_Subset, FS_CardinalityType
<1>3. (x \in A <=> f[x] = o) /\ (x \in B <=> g[x] = o) /\ B = (A \ {x}) \cup (IF g[x] = o THEN {x} ELSE {})
  BY <1>1
<1> HIDE DEF A, B
<1>4. IsFiniteSet(A \ {x}) /\ Cardinality(A \ {x}) = Cardinality(A) - Is(f[x], o)
  BY <1>2, <1>3, FS_RemoveElement DEF Is
<1>5. Cardinality(B) = Cardinality(A \ {x}) + Is(g[x], o)
  <2>1. CASE g[x] = o
    <3>1. B = (A \ {x}) \cup {x} /\ x \notin A \ {x}
      BY <1>3, <2>1
    <3>2. Cardinality((A \ {x}) \cup {x}) = Cardinality(A \ {x}) + 1
      BY <1>4, <3>1, FS_AddElement
    <3>3. QED
      BY <2>1, <3>1, <3>2 DEF Is
  <2>2. CASE g[x] # o
    <3>1. B = A \ {x} /\ Is(g[x], o) = 0
      BY <1>3, <2>2 DEF Is
    <3>2. Cardinality(A \ {x}) \in Nat
      BY <1>4, FS_CardinalityType
    <3>3. QED
      BY <3>1, <3>2
  <2>3. QED
    BY <2>1, <2>2
<1>6. References(g, S, o) = Cardinality(B) /\ References(f, S, o) = Cardinality(A)
  BY DEF References, A, B
<1>7. QED
  <2>1. Cardinality(B) = Cardinality(A) + Is(g[x], o) - Is(f[x], o)
    BY <1>2, <1>4, <1>5 DEF Is
  <2>2. QED
    BY <1>6, <2>1

\* The objects' counters are the numbers of references.
LEMMA TallyIs ==
  Table!Types /\ Table!NodesPlaced => (Table!ObjectsCounted <=> Tally)
<1>1. SUFFICES ASSUME Table!Types, Table!NodesPlaced
               PROVE  Table!ObjectsCounted <=> Tally
  OBVIOUS
<1>2. Table!InTable = {n \in NodeNames : node[n] # Null}
  <2>1. \A i \in Table!Buckets : Table!Range(bucket[i]) \subseteq NodeNames
    BY <1>1, RangeOfSeq, SameOperators DEF Table!Types
  <2>2. \A n \in NodeNames : node[n] # Null => Table!BucketOf(node[n].key) \in Table!Buckets
    BY <1>1, Constants DEF Table!Types
  <2>3. QED
    BY <1>1, <2>1, <2>2 DEF Table!NodesPlaced, Table!InTable
<1>3. \A o \in Objects : {n \in Table!InTable : node[n].value = o} = {n \in NodeNames : Values[n] = o}
  BY <1>2, TableAssumption DEF Values
<1>4. QED
  BY <1>3, SameOperators DEF Table!ObjectsCounted, Tally, References

\* Every step counts the references that it makes and drops.
LEMMA TallyNext ==
  ASSUME Table!IInv, Tally, NEW t \in Threads, Table!Step(t)
  PROVE  Tally'
<1>1. IsFiniteSet(NodeNames) /\ IsFiniteSet(Threads)
  BY TableAssumption
<1>2. /\ refcount \in [Objects -> Int]
      /\ retval \in [Threads -> Objects \cup {Null}] /\ removedU \in [Threads -> Objects \cup {Null}]
      /\ Values \in [NodeNames -> Objects \cup {Null}] /\ Null \notin Objects
  BY TableAssumption DEF Table!IInv, Table!Types, Values
<1>3. \A o \in Objects : /\ References(Values, NodeNames, o) \in Nat
                         /\ References(retval, Threads, o) \in Nat /\ References(removedU, Threads, o) \in Nat
  <2>1. ASSUME NEW S, IsFiniteSet(S), NEW f, NEW o
        PROVE  References(f, S, o) \in Nat
    BY <2>1, FS_Subset, FS_CardinalityType DEF References
  <2>2. QED
    BY <1>1, <2>1
\* A step assigns one reference, and counts what it gains and loses.
<1>4. ASSUME Values' = Values, removedU' = removedU,
             NEW v \in Objects \cup {Null}, retval' = [retval EXCEPT ![t] = v],
             refcount' = Table!Counted(v, retval[t])
      PROVE  Tally'
  <2>1. SUFFICES ASSUME NEW o \in Objects
                 PROVE  refcount'[o] = References(Values', NodeNames, o) + References(retval', Threads, o)
                                         + References(removedU', Threads, o)
    BY DEF Tally
  <2>2. retval'[t] = v
    BY <1>2, <1>4
  <2>3. \A y \in Threads : y # t => retval'[y] = retval[y]
    BY <1>2, <1>4
  <2>4. References(retval', Threads, o) =
          References(retval, Threads, o) + Is(retval'[t], o) - Is(retval[t], o)
    BY <1>1, <2>3, OneChange
  <2>5. refcount'[o] = refcount[o] + Is(v, o) - Is(retval[t], o)
    BY <1>4 DEF Table!Counted, Is
  <2>6. QED
    BY <1>2, <1>3, <1>4, <2>2, <2>4, <2>5 DEF Tally, Is
<1>5. ASSUME retval' = retval, removedU' = removedU,
             NEW n \in NodeNames, NEW v \in Objects \cup {Null}, Values' = [Values EXCEPT ![n] = v],
             refcount' = Table!Counted(v, Values[n])
      PROVE  Tally'
  <2>1. SUFFICES ASSUME NEW o \in Objects
                 PROVE  refcount'[o] = References(Values', NodeNames, o) + References(retval', Threads, o)
                                         + References(removedU', Threads, o)
    BY DEF Tally
  <2>2. Values'[n] = v
    BY <1>2, <1>5
  <2>3. \A y \in NodeNames : y # n => Values'[y] = Values[y]
    BY <1>2, <1>5
  <2>4. References(Values', NodeNames, o) =
          References(Values, NodeNames, o) + Is(Values'[n], o) - Is(Values[n], o)
    BY <1>1, <2>3, OneChange
  <2>5. refcount'[o] = refcount[o] + Is(v, o) - Is(Values[n], o)
    BY <1>5 DEF Table!Counted, Is
  <2>6. QED
    BY <1>2, <1>3, <1>5, <2>2, <2>4, <2>5 DEF Tally, Is
<1>6. CASE Values' = Values /\ retval' = retval /\ removedU' = removedU /\ refcount' = refcount
  BY <1>6 DEF Tally
<1>7. CASE Table!New(t) \/ Table!Drop(t)
  <2>1. Values' = Values
    BY <1>7 DEF Table!New, Table!Drop, Table!lookups, Values
  <2>2. QED
    BY <1>4, <1>7, <2>1 DEF Table!New, Table!Drop
<1>8. CASE \/ Table!Call(t) \/ Table!CallClear(t) \/ Table!Acquire(t) \/ Table!Search(t) \/ Table!Release(t)
  <2>1. node' = node /\ retval' = retval /\ removedU' = removedU /\ refcount' = refcount
    BY <1>8 DEF Table!Call, Table!CallClear, Table!Acquire, Table!Search, Table!Release, Table!lookups
  <2>2. QED
    BY <1>6, <2>1 DEF Values
<1>9. CASE Table!lookup(t)
  <2>1. Values' = Values /\ removedU' = removedU
    BY <1>9 DEF Table!lookup, Table!lookups, Table!Nothing, Values
  <2>2. CASE found[t] = Null
    BY <1>6, <1>9, <2>1, <2>2 DEF Table!lookup, Table!Nothing
  <2>3. CASE found[t] # Null
    <3>1. node[found[t]].value \in Objects
      BY <1>9, <2>3 DEF Table!lookup, Table!IInv, Table!FoundStays, Table!Inside, Table!Types
    <3>2. QED
      BY <1>4, <1>9, <2>1, <2>3, <3>1 DEF Table!lookup
  <2>4. QED
    BY <2>2, <2>3
<1>10. CASE Table!Return(t)
  <2>1. /\ refcount' = Table!Counted(Null, removedU[t]) /\ removedU' = [removedU EXCEPT ![t] = Null]
        /\ retval' = retval /\ Values' = Values
    BY <1>10 DEF Table!Return, Values
  <2>2. SUFFICES ASSUME NEW o \in Objects
                 PROVE  refcount'[o] = References(Values', NodeNames, o) + References(retval', Threads, o)
                                         + References(removedU', Threads, o)
    BY DEF Tally
  <2>3. removedU'[t] = Null
    BY <1>2, <2>1
  <2>4. \A y \in Threads : y # t => removedU'[y] = removedU[y]
    BY <1>2, <2>1
  <2>5. References(removedU', Threads, o) =
          References(removedU, Threads, o) + Is(removedU'[t], o) - Is(removedU[t], o)
    BY <1>1, <2>4, OneChange
  <2>6. refcount'[o] = refcount[o] + Is(Null, o) - Is(removedU[t], o)
    BY <2>1 DEF Table!Counted, Is
  <2>7. QED
    BY <1>2, <1>3, <2>1, <2>3, <2>5, <2>6 DEF Tally, Is
<1>11. CASE Table!insert(t) \/ Table!lookupInsert(t)
  <2>1. CASE found[t] # Null /\ Table!lookupInsert(t)
    BY <1>6, <2>1 DEF Table!lookupInsert, Table!Nothing, Table!lookups, Values
  <2>2. CASE ~ (found[t] # Null /\ Table!lookupInsert(t))
    <3>1. Table!Adds(t) /\ retval' = retval /\ removedU' = removedU /\ pc[t] \in Table!Adding
      BY <1>11, <2>2 DEF Table!insert, Table!lookupInsert, Table!Adding
    <3>2. op[t] \in Table!Adding
      BY <3>1 DEF Table!IInv, Table!CallsRight, Table!Adding, Table!Calls
    <3>3. PICK n \in NodeNames, h \in 1 .. MaxHeight :
            /\ node[n] = Null /\ retval[t] \in Objects /\ refcount' = Table!Counted(retval[t], Null)
            /\ key[t] \in Keys /\ node' = [node EXCEPT ![n] = [key |-> key[t], value |-> retval[t], height |-> h]]
      BY <3>1, <3>2, AddsIs
    <3>4. Values[n] = Null /\ Values' = [Values EXCEPT ![n] = retval[t]]
      <4> DEFINE new == [key |-> key[t], value |-> retval[t], height |-> h]
      <4>1. new # Null /\ new.value = retval[t]
        BY <3>3, TableAssumption
      <4> HIDE DEF new
      <4>2. /\ node' = [node EXCEPT ![n] = new]
            /\ node \in [NodeNames -> [key : Keys, value : Objects, height : 1 .. MaxHeight] \cup {Null}]
        BY <3>3 DEF new, Table!IInv, Table!Types
      <4>3. QED
        BY <3>3, <4>1, <4>2 DEF Values
    <3>5. QED
      BY <1>5, <3>1, <3>3, <3>4
  <2>3. QED
    BY <2>1, <2>2
<1>12. ASSUME found[t] # Null, Table!Inside(t)
       PROVE  /\ found[t] \in NodeNames
              /\ node[found[t]] \in [key : Keys, value : Objects, height : 1 .. MaxHeight]
              /\ Values[found[t]] = node[found[t]].value /\ node[found[t]].value \in Objects
  BY <1>12, TableAssumption DEF Table!IInv, Table!FoundStays, Table!Types, Values
<1>13. CASE Table!lookupApply(t)
  <2>1. CASE found[t] = Null
    BY <1>6, <1>13, <2>1 DEF Table!lookupApply, Table!Nothing, Table!lookups, Values
  <2>2. CASE found[t] # Null
    <3> DEFINE e == found[t]
               new == [node[e] EXCEPT !.value = retval[t]]
    <3>1. /\ e \in NodeNames /\ node[e] \in [key : Keys, value : Objects, height : 1 .. MaxHeight]
          /\ retval[t] \in Objects
          /\ Values[e] = node[e].value
      <4>1. Table!Inside(t) /\ pc[t] = "lookupApply"
        BY <1>13 DEF Table!lookupApply, Table!Inside
      <4>2. op[t] = "lookupApply"
        BY <4>1 DEF Table!IInv, Table!CallsRight, Table!Calls
      <4>3. retval[t] \in Objects
        BY <1>2, <4>2 DEF Table!IInv, Table!CallsRight
      <4>4. QED
        BY <1>12, <2>2, <4>1, <4>3
    <3>2. new # Null /\ new.value = retval[t]
      <4>1. new \in [key : Keys, value : Objects, height : 1 .. MaxHeight]
        BY <3>1
      <4>2. QED
        BY <3>1, <4>1, TableAssumption
    <3>3. /\ node' = [node EXCEPT ![e] = new] /\ refcount' = Table!Counted(retval[t], Values[e])
          /\ retval' = retval /\ removedU' = removedU
      BY <1>13, <2>2, <3>1 DEF Table!lookupApply
    <3> HIDE DEF new
    <3>4. Values' = [Values EXCEPT ![e] = retval[t]]
      BY <3>1, <3>2, <3>3 DEF Values, Table!IInv, Table!Types
    <3>5. QED
      BY <1>5, <3>1, <3>3, <3>4
  <2>3. QED
    BY <2>1, <2>2
\* What a remove takes out of the table goes to the call.
<1>14. CASE Table!remove(t) \/ Table!lookupRemove(t)
  <2>1. CASE found[t] = Null
    BY <1>6, <1>14, <2>1 DEF Table!remove, Table!lookupRemove, Table!Nothing, Table!lookups, Values
  <2>2. CASE found[t] # Null
    <3> DEFINE e == found[t]
    <3>1. Table!Inside(t) /\ Table!Deletes(t) /\ pc[t] \in {"remove", "lookupRemove"}
      BY <1>14, <2>2 DEF Table!remove, Table!lookupRemove, Table!Inside
    <3>2. e \in NodeNames /\ node[e].value \in Objects /\ Values[e] = node[e].value
      BY <1>12, <2>2, <3>1
    <3>3. Values'[e] = Null /\ \A y \in NodeNames : y # e => Values'[y] = Values[y]
      BY <2>2, <3>1, <3>2, DeletesIs DEF Values, Table!IInv, Table!Types
    <3>4. \A y \in NodeNames : y # e => Values'[y] = Values[y]
      BY <3>3
    <3>5. \A o \in Objects : References(Values', NodeNames, o) =
            References(Values, NodeNames, o) + Is(Values'[e], o) - Is(Values[e], o)
      <4>1. e \in NodeNames
        BY <3>2
      <4>2. QED
        BY <1>1, <3>4, <4>1, OneChange
    <3>6. CASE Table!remove(t)
      <4>1. /\ removedU' = [removedU EXCEPT ![t] = Values[e]] /\ refcount' = refcount /\ retval' = retval
        BY <2>2, <3>2, <3>6 DEF Table!remove
      <4>2. removedU[t] = Null
        BY <1>2, <3>1 DEF Table!IInv, Table!CallsRight
      <4>3. \A y \in Threads : y # t => removedU'[y] = removedU[y]
        BY <1>2, <4>1
      <4>4. \A o \in Objects : References(removedU', Threads, o) =
              References(removedU, Threads, o) + Is(removedU'[t], o) - Is(removedU[t], o)
        BY <1>1, <4>3, OneChange
      <4>5. removedU'[t] = Values[e]
        BY <1>2, <4>1
      <4>6. QED
        <5>1. SUFFICES ASSUME NEW o \in Objects
                       PROVE  refcount'[o] = References(Values', NodeNames, o) + References(retval', Threads, o)
                                               + References(removedU', Threads, o)
          BY DEF Tally
        <5>2. Is(Values'[e], o) = 0 /\ Is(removedU[t], o) = 0 /\ Is(Values[e], o) \in Int
          BY <1>2, <3>3, <4>2 DEF Is
        <5>3. QED
          <6>1. References(Values', NodeNames, o) = References(Values, NodeNames, o) - Is(Values[e], o)
            BY <1>3, <3>5, <5>2
          <6>2. References(removedU', Threads, o) = References(removedU, Threads, o) + Is(Values[e], o)
            BY <1>3, <4>4, <4>5, <5>2
          <6>3. References(retval', Threads, o) = References(retval, Threads, o) /\ refcount'[o] = refcount[o]
            BY <4>1
          <6>4. QED
            BY <1>3, <5>2, <6>1, <6>2, <6>3 DEF Tally
    <3>7. CASE Table!lookupRemove(t)
      <4>1. /\ retval' = [retval EXCEPT ![t] = Values[e]] /\ removedU' = removedU
            /\ refcount' = Table!Counted(Null, retval[t])
        BY <2>2, <3>2, <3>7 DEF Table!lookupRemove
      <4>2. \A y \in Threads : y # t => retval'[y] = retval[y]
        BY <1>2, <4>1
      <4>3. \A o \in Objects : References(retval', Threads, o) =
              References(retval, Threads, o) + Is(retval'[t], o) - Is(retval[t], o)
        BY <1>1, <4>2, OneChange
      <4>4. retval'[t] = Values[e]
        BY <1>2, <4>1
      <4>5. \A o \in Objects : refcount'[o] = refcount[o] - Is(retval[t], o)
        BY <1>2, <4>1 DEF Table!Counted, Is
      <4>6. QED
        <5>1. SUFFICES ASSUME NEW o \in Objects
                       PROVE  refcount'[o] = References(Values', NodeNames, o) + References(retval', Threads, o)
                                               + References(removedU', Threads, o)
          BY DEF Tally
        <5>2. Is(Values'[e], o) = 0 /\ Is(retval[t], o) \in Int /\ Is(Values[e], o) \in Int
          BY <1>2, <3>3 DEF Is
        <5>3. QED
          <6>1. References(Values', NodeNames, o) = References(Values, NodeNames, o) - Is(Values[e], o)
            BY <1>3, <3>5, <5>2
          <6>2. References(retval', Threads, o) = References(retval, Threads, o) + Is(Values[e], o) - Is(retval[t], o)
            BY <1>3, <4>3, <4>4, <5>2
          <6>3. /\ References(removedU', Threads, o) = References(removedU, Threads, o)
                /\ refcount'[o] = refcount[o] - Is(retval[t], o)
            BY <4>1, <4>5
          <6>4. QED
            BY <1>3, <5>2, <6>1, <6>2, <6>3 DEF Tally
    <3>8. QED
      BY <1>14, <3>6, <3>7
  <2>3. QED
    BY <2>1, <2>2
<1>15. CASE Table!clear(t)
  <2> DEFINE gone == Table!Range(bucket[b[t]])
  <2>1. /\ node' = [n \in NodeNames |-> IF n \in gone THEN Null ELSE node[n]]
        /\ refcount' = [o \in Objects |-> refcount[o] - Cardinality({n \in gone : node[n].value = o})]
        /\ retval' = retval /\ removedU' = removedU
    BY <1>15, SameOperators DEF Table!clear
  <2>2. gone \subseteq NodeNames /\ \A n \in gone : node[n] # Null
    <3>1. gone \subseteq NodeNames
      BY RangeOfSeq, SameOperators DEF Table!IInv, Table!Types
    <3>2. QED
      BY <3>1 DEF Table!IInv, Table!NodesPlaced, Table!Types
  <2> HIDE DEF gone
  <2>3. SUFFICES ASSUME NEW o \in Objects
                 PROVE  refcount'[o] = References(Values', NodeNames, o) + References(retval', Threads, o)
                                         + References(removedU', Threads, o)
    BY DEF Tally
  <2> DEFINE A == {n \in NodeNames : Values[n] = o}
             G == {n \in gone : node[n].value = o}
             K == {n \in NodeNames : Values'[n] = o}
  <2>4. G \subseteq A /\ K = A \ G /\ IsFiniteSet(A)
    <3>1. IsFiniteSet(A)
      BY <1>1, FS_Subset
    <3>2. G \subseteq A
      BY <2>2 DEF Values
    <3>3. Values' = [n \in NodeNames |-> IF n \in gone THEN Null ELSE Values[n]]
      BY <2>1 DEF Values
    <3>4. \A n \in NodeNames : n \in K <=> n \in A /\ n \notin gone
      BY <1>2, <3>3
    <3>5. \A n \in gone : n \in A <=> n \in G
      BY <2>2 DEF Values
    <3>6. QED
      BY <3>1, <3>2, <3>4, <3>5
  <2> HIDE DEF A, G, K
  <2>5. Cardinality(K) = Cardinality(A) - Cardinality(G) /\ Cardinality(A) \in Nat /\ Cardinality(G) \in Nat
    <3>1. A \cap G = G /\ IsFiniteSet(G)
      BY <2>4, FS_Subset
    <3>2. Cardinality(A \ G) = Cardinality(A) - Cardinality(A \cap G)
      BY <2>4, <3>1, FS_Difference
    <3>3. Cardinality(A) \in Nat /\ Cardinality(G) \in Nat
      BY <2>4, <3>1, FS_CardinalityType
    <3>4. QED
      BY <2>4, <3>1, <3>2, <3>3
  <2>6. /\ refcount'[o] = refcount[o] - Cardinality(G)
        /\ References(Values', NodeNames, o) = Cardinality(K) /\ References(Values, NodeNames, o) = Cardinality(A)
    BY <2>1 DEF References, A, G, K
  <2>7. QED
    BY <1>2, <1>3, <2>1, <2>5, <2>6 DEF Tally
<1>16. QED
  BY <1>7, <1>8, <1>9, <1>10, <1>11, <1>13, <1>14, <1>15 DEF Table!Step

-----------------------------------------------------------------------------
TableInv == part = "table" => Table!IInv /\ Tally

\* The invariant holds before the first call.
LEMMA TableInit ==
  ASSUME InitLocking
  PROVE  TableInv
<1>1. SUFFICES ASSUME part = "table"
               PROVE  Table!IInv /\ Tally
  BY DEF TableInv
<1>2. Table!Init
  BY <1>1 DEF InitLocking
<1>3. Table!Types /\ Table!CallsRight /\ Table!FoundStays /\ Table!UniqueStays /\ Table!ClearsAhead
  <2>1. <<>> \in Seq(NodeNames) /\ 0 \in Table!Buckets
    BY EmptyIs, Constants
  <2>2. QED
    BY <1>2, <2>1
       DEF Table!Init, Table!Types, Table!CallsRight, Table!FoundStays, Table!UniqueStays, Table!ClearsAhead,
           Table!Inside, Table!Calls, Table!L!Open
<1>4. Table!LocksHeld
  BY <1>2 DEF Table!Init, Table!LocksHeld, Table!Holding, Table!Calls, Table!L!Open
<1>5. Table!NodesPlaced
  BY <1>2, EmptyIs, SameOperators DEF Table!Init, Table!NodesPlaced
<1>6. Tally
  <2>1. SUFFICES ASSUME NEW o \in Objects
                 PROVE  refcount[o] = References(Values, NodeNames, o) + References(retval, Threads, o)
                                        + References(removedU, Threads, o)
    BY DEF Tally
  <2>2. /\ {n \in NodeNames : Values[n] = o} = {} /\ {u \in Threads : retval[u] = o} = {}
        /\ {u \in Threads : removedU[u] = o} = {} /\ refcount[o] = 0
    BY <1>2, TableAssumption DEF Table!Init, Values
  <2>3. QED
    BY <2>2, FS_EmptySet DEF References
<1>7. QED
  BY <1>3, <1>4, <1>5, <1>6 DEF Table!IInv

\* Every step of the system keeps the invariant.
LEMMA TableNext ==
  ASSUME TableInv, [NextLocking]_vars
  PROVE  TableInv'
<1>1. CASE UNCHANGED vars
  BY <1>1
     DEF vars, TableInv, Table!IInv, Table!Types, Table!CallsRight, Table!LocksHeld, Table!NodesPlaced,
         Table!FoundStays, Table!UniqueStays, Table!ClearsAhead, Tally, Values, Table!Buckets, Table!Calls,
         Table!BucketOf, Table!Holding, Table!HasLock, Table!Inside
<1>2. CASE part = "table" /\ Table!Next
  <2>1. PICK t \in Threads : Table!Step(t)
    BY <1>2 DEF Table!Next
  <2>2. Table!IInv /\ Tally
    BY <1>2 DEF TableInv
  <2>3. (Table!IInv /\ Tally)'
    BY <2>1, <2>2, TypesNext, CallsNext, LocksNext, NodesNext, FoundNext, UniqueNext, AheadNext, TallyNext
       DEF Table!IInv
  <2>4. QED
    BY <2>3 DEF TableInv
<1>3. QED
  BY <1>1, <1>2, PartStays DEF TableInv

\* In every reachable state of the hash table a thread that has the lock of
\* its bucket can rely on what it found, and the counters count the pointers.
THEOREM TableInvariance == SpecLocking => []TableInv
BY TableInit, TableNext, PTL DEF SpecLocking

\* For any number of threads, buckets, keys and objects: the node that a
\* search under the lock found is there until the unlock, and what it did not
\* find is not; an object has as many references counted as there are pointers
\* to it; keys that lookupInsert alone inserts are there once; and a clear
\* that returns has removed every node that was there when it was called.
THEOREM TableIsSound == SpecLocking => []TableSound
<1>1. ASSUME TableInv
      PROVE  TableSound
  <2>1. SUFFICES ASSUME part = "table"
                 PROVE  Table!SearchesHold /\ Table!ObjectsCounted /\ Table!KeysUnique /\ Table!ClearSweeps
    BY DEF TableSound
  <2>2. Table!IInv /\ Tally
    BY <1>1, <2>1 DEF TableInv
  <2>3. Table!ObjectsCounted
    BY <2>2, TallyIs DEF Table!IInv
  <2>4. ASSUME NEW i \in Table!Buckets, NEW n \in Table!Range(bucket[i])
        PROVE  n \in NodeNames /\ node[n] # Null
    <3>1. n \in NodeNames
      BY <2>2, RangeOfSeq, SameOperators DEF Table!IInv, Table!Types
    <3>2. QED
      BY <2>2, <3>1 DEF Table!IInv, Table!NodesPlaced
  <2>5. Table!KeysUnique
    BY <2>2, <2>4 DEF Table!KeysUnique, Table!InTable, Table!IInv, Table!UniqueStays
  <2>6. Table!ClearSweeps
    BY <2>2 DEF Table!ClearSweeps, Table!IInv, Table!ClearsAhead
  <2>7. Table!SearchesHold
    <3>1. SUFFICES ASSUME NEW t \in Threads, Table!Inside(t)
                   PROVE  LET has == {n \in Table!Range(bucket[b[t]]) : node[n].key = key[t]}
                          IN IF found[t] = Null THEN has = {} ELSE found[t] \in has
      BY DEF Table!SearchesHold
    <3>2. b[t] \in Table!Buckets /\ b[t] = Table!BucketOf(key[t])
      BY <2>2, <3>1 DEF Table!IInv, Table!Types, Table!CallsRight, Table!Calls, Table!Inside
    <3>3. CASE found[t] = Null
      BY <2>2, <2>4, <3>1, <3>2, <3>3 DEF Table!IInv, Table!FoundStays
    <3>4. CASE found[t] # Null
      <4>1. found[t] \in NodeNames /\ node[found[t]] # Null /\ node[found[t]].key = key[t]
        BY <2>2, <3>1, <3>4 DEF Table!IInv, Table!FoundStays, Table!Types
      <4>2. QED
        BY <2>2, <3>2, <3>4, <4>1 DEF Table!IInv, Table!NodesPlaced
    <3>5. QED
      BY <3>3, <3>4
  <2>8. QED
    BY <2>3, <2>5, <2>6, <2>7
<1>2. QED
  BY <1>1, TableInvariance, PTL
=============================================================================
